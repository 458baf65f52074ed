------------------------ MODULE VoiceDeliveryProofs ------------------------
(***************************************************************************)
(* Proofs about the run registry (TalkRuns) and about the delivery of      *)
(* results by voice sessions (VoiceDelivery), for every value of the       *)
(* constants.                                                              *)
(***************************************************************************)
EXTENDS VoiceDelivery, FiniteSetTheorems, TLAPS

-----------------------------------------------------------------------------
(* The run registry.                                                       *)

\* An entry of the registry, changed in one field, is an entry again, and its
\* snapshot is a history record.
LEMMA RecordTyped ==
  ASSUME NEW e \in Entries
  PROVE  RecordOf(e) \in Records
BY DEF Entries, Records, RecordOf

\* A change under _RUN_LOCK keeps the registry and the tees well typed.
LEMMA ChangeTyped ==
  ASSUME TypeOK, NEW p \in Procs, NEW r \in Runs,
         NEW by \in {"worker", "tool", "voice"}, NEW e \in Entries,
         Change(p, r, by, e)
  PROVE  /\ runs' \in [Procs -> [Runs -> Entries \union {None}]]
         /\ tees' \in SUBSET Tees
<1>1. Tee(p, r, by, e) \in Tees
  BY RecordTyped DEF Tee, Tees
<1> QED
  BY <1>1 DEF Change, TypeOK

\* finish_run keeps the registry and the tees typed.
LEMMA FinishTyped ==
  ASSUME TypeOK, NEW p \in Procs, NEW r \in Runs, NEW status \in Terminal,
         FinishRun(p, r, status)
  PROVE  /\ runs' \in [Procs -> [Runs -> Entries \union {None}]]
         /\ tees' \in SUBSET Tees
<1>1. CASE runs[p][r] # None /\ runs[p][r].status \notin Terminal
  <2>1. runs[p][r] \in Entries
    BY <1>1 DEF TypeOK
  <2>2. [runs[p][r] EXCEPT !.status = status] \in Entries
    BY <2>1 DEF Entries
  <2> QED
    BY <1>1, <2>2, ChangeTyped DEF FinishRun
<1>2. CASE ~(runs[p][r] # None /\ runs[p][r].status \notin Terminal)
  BY <1>2 DEF FinishRun, TypeOK
<1> QED
  BY <1>1, <1>2

\* The field updates the actions make keep an entry, a record and a call typed.
LEMMA EntryClaimed ==
  ASSUME NEW e \in Entries, NEW s \in Sessions
  PROVE  [e EXCEPT !.delivery = "claimed", !.claimant = s] \in Entries
BY DEF Entries

\* A flipped entry is an entry.
LEMMA EntryDelivered ==
  ASSUME NEW e \in Entries
  PROVE  [e EXCEPT !.delivery = "delivered"] \in Entries
BY DEF Entries

\* An annotated entry is an entry.
LEMMA EntryNoted ==
  ASSUME NEW e \in Entries, e.notes < MaxNotes
  PROVE  [e EXCEPT !.notes = e.notes + 1] \in Entries
<1>1. e.notes + 1 \in 0 .. MaxNotes
  BY BoundsAssumption DEF Entries
<1> QED
  BY <1>1 DEF Entries

\* A call past acceptance is a call.
LEMMA CallAccepted ==
  ASSUME NEW k \in Calls, NEW id \in Runs
  PROVE  [k EXCEPT !.at = "accepted", !.id = id] \in Calls
<1>1. id \in 0 .. MaxRuns
  BY BoundsAssumption DEF Runs
<1> QED
  BY <1>1 DEF Calls

\* What acceptance sets and what it leaves.
LEMMA CallAcceptedFields ==
  ASSUME NEW k \in Calls, NEW id \in Runs
  PROVE  /\ [k EXCEPT !.at = "accepted", !.id = id].owner = k.owner
         /\ [k EXCEPT !.at = "accepted", !.id = id].id = id
         /\ [k EXCEPT !.at = "accepted", !.id = id].keys = k.keys
         /\ [k EXCEPT !.at = "accepted", !.id = id].mode = k.mode
         /\ [k EXCEPT !.at = "accepted", !.id = id].at = "accepted"
BY DEF Calls

\* An idle thread is a call record too.
LEMMA NotCallingTyped == NotCalling \in Calls
BY BoundsAssumption DEF NotCalling, Calls, Modes

\* Inserting an accepted run and evicting landed ones keeps the registry typed.
LEMMA InsertTyped ==
  ASSUME TypeOK, NEW p \in Procs, NEW c \in Callers,
         call[p][c].owner \in Sessions, call[p][c].id \in Runs, NEW gone \in SUBSET Runs
  PROVE  Evicted([runs[p] EXCEPT ![call[p][c].id] = Entry(p, c)], gone)
           \in [Runs -> Entries \union {None}]
<1>1. Entry(p, c) \in Entries
  BY BoundsAssumption DEF Entry, NewEntry, Entries, TypeOK, Calls
<1> QED
  BY <1>1 DEF Evicted, TypeOK

\* A thread inside start_run carries the session it captured; one past
\* acceptance carries an id.
CallsOK ==
  \A p \in Procs, c \in Callers :
    /\ call[p][c].at # "idle" => call[p][c].owner \in Sessions
    /\ call[p][c].at = "accepted" => call[p][c].id \in Runs

TInv == TypeOK /\ CallsOK

\* A fresh registry is well typed.
LEMMA TypeInit == RegInit => TInv
BY NotCallingTyped, BoundsAssumption
   DEF RegInit, TInv, TypeOK, CallsOK, NotCalling, Runs

\* Every step of the registry keeps the types.
LEMMA TypeStep == TInv /\ [RegNext]_regVars => TInv'
<1> SUFFICES ASSUME TInv, [RegNext]_regVars PROVE TInv'
  OBVIOUS
<1> USE DEF TInv
<1>1. ASSUME NEW p \in Procs, Crash(p) PROVE TInv'
  BY <1>1, NotCallingTyped, BoundsAssumption DEF Crash, TypeOK, CallsOK, NotCalling, Runs
<1>2. ASSUME NEW t \in tees, AppendTee(t) PROVE TInv'
  BY <1>2 DEF AppendTee, TypeOK, CallsOK, Tees
<1>3. ASSUME NEW t \in tees, TeeFails(t) PROVE TInv'
  BY <1>3, BoundsAssumption DEF TeeFails, TypeOK, CallsOK
<1>4. ASSUME NEW s \in Sessions, AttachOwner(s) PROVE TInv'
  BY <1>4, HomeAssumption DEF AttachOwner, TypeOK, CallsOK
<1>5. ASSUME NEW p \in Procs, DetachOwner(p) PROVE TInv'
  BY <1>5 DEF DetachOwner, TypeOK, CallsOK
<1>6. ASSUME NEW p \in Procs, SetTrust(p) PROVE TInv'
  BY <1>6, TrustAssumption DEF SetTrust, TypeOK, CallsOK
<1>7. ASSUME NEW p \in Procs, NEW c \in Callers, Declare(p, c) PROVE TInv'
  <2>1. PICK mode \in Modes, keys \in SUBSET Keys :
          call' = [call EXCEPT ![p][c] =
                     [at |-> "declared", owner |-> owner[p],
                      mode |-> ResolveMode(p, mode), keys |-> keys, id |-> 0]]
    BY <1>7 DEF Declare
  <2>2. owner[p] \in Sessions /\ ResolveMode(p, mode) \in Modes
    BY <1>7 DEF Declare, TypeOK, ResolveMode, Modes
  <2>3. [at |-> "declared", owner |-> owner[p], mode |-> ResolveMode(p, mode),
         keys |-> keys, id |-> 0] \in Calls
    BY <2>2, BoundsAssumption DEF Calls
  <2> QED
    BY <1>7, <2>1, <2>2, <2>3 DEF Declare, TypeOK, CallsOK
<1>8. ASSUME NEW p \in Procs, NEW c \in Callers, Admit(p, c) PROVE TInv'
  <2>1. call[p][c] \in Calls
    BY DEF TypeOK
  <2>2. call' = [call EXCEPT ![p] = [call[p] EXCEPT ![c] = [call[p][c] EXCEPT !.at = "admitted"]]]
    BY <1>8 DEF Admit
  <2>3. /\ [call[p][c] EXCEPT !.at = "admitted"] \in Calls
        /\ [call[p][c] EXCEPT !.at = "admitted"].owner = call[p][c].owner
        /\ [call[p][c] EXCEPT !.at = "admitted"].at = "admitted"
    BY <2>1 DEF Calls
  <2>4. TypeOK'
    BY <1>8, <2>2, <2>3 DEF Admit, TypeOK
  <2>5. CallsOK'
    BY <1>8, <2>2, <2>3 DEF Admit, TypeOK, CallsOK
  <2> QED
    BY <2>4, <2>5
<1>9. ASSUME NEW p \in Procs, NEW c \in Callers, Refuse(p, c) PROVE TInv'
  BY <1>9, NotCallingTyped DEF Refuse, TypeOK, CallsOK, NotCalling
<1>10. ASSUME NEW p \in Procs, NEW c \in Callers, Accept(p, c) PROVE TInv'
  <2>1. PICK id \in Runs :
          /\ seq' = [seq EXCEPT ![p] = id]
          /\ disk' = [disk EXCEPT ![id] = Accepted(call[p][c].owner)]
          /\ call' = [call EXCEPT ![p][c].at = "accepted", ![p][c].id = id]
    BY <1>10 DEF Accept
  <2> DEFINE k == [call[p][c] EXCEPT !.at = "accepted", !.id = id]
  <2>10. call[p][c] \in Calls
    BY DEF TypeOK
  <2>11. k \in Calls
    BY <2>10, CallAccepted
  <2>12. k.owner = call[p][c].owner /\ k.id = id
    BY <2>10, CallAcceptedFields
  <2>2. k \in Calls /\ k.owner = call[p][c].owner /\ k.id = id
    BY <2>11, <2>12
  <2>3. Accepted(call[p][c].owner) \in Records
    BY <1>10, BoundsAssumption DEF Accept, CallsOK, Accepted, Records
  <2>4. call' = [call EXCEPT ![p] = [call[p] EXCEPT ![c] = k]]
    BY <2>1 DEF TypeOK
  <2> HIDE DEF k
  <2>5. call' \in [Procs -> [Callers -> Calls]]
    BY <2>2, <2>4 DEF TypeOK
  <2>6. seq' \in [Procs -> 0 .. MaxRuns]
    BY <2>1, BoundsAssumption DEF TypeOK, Runs
  <2>7. disk' \in [Runs -> Records \union {None}]
    BY <2>1, <2>3 DEF TypeOK
  <2>8. TypeOK'
    BY <1>10, <2>5, <2>6, <2>7 DEF Accept, TypeOK
  <2>9. CallsOK'
    BY <1>10, <2>2, <2>4 DEF Accept, TypeOK, CallsOK
  <2> QED
    BY <2>8, <2>9
<1>11. ASSUME NEW p \in Procs, NEW c \in Callers, AcceptFails(p, c) PROVE TInv'
  <2>1. seq' \in [Procs -> 0 .. MaxRuns]
    <3>1. CASE \E id \in Runs : NextId(p, id) /\ seq' = [seq EXCEPT ![p] = id]
      BY <3>1, BoundsAssumption DEF TypeOK, Runs
    <3>2. CASE UNCHANGED seq
      BY <3>2 DEF TypeOK
    <3> QED
      BY <1>11, <3>1, <3>2 DEF AcceptFails
  <2>2. faults' \in 0 .. MaxFaults
    BY <1>11, BoundsAssumption DEF AcceptFails, TypeOK
  <2>3. TypeOK'
    BY <1>11, <2>1, <2>2, NotCallingTyped DEF AcceptFails, TypeOK
  <2>4. CallsOK'
    BY <1>11 DEF AcceptFails, TypeOK, CallsOK, NotCalling
  <2> QED
    BY <2>3, <2>4
<1>12. ASSUME NEW p \in Procs, NEW c \in Callers, Insert(p, c) PROVE TInv'
  <2>1. call[p][c].owner \in Sessions /\ call[p][c].id \in Runs
    BY <1>12 DEF Insert, CallsOK
  <2>2. PICK gone \in SUBSET Runs :
          runs' = [runs EXCEPT ![p] =
                     Evicted([runs[p] EXCEPT ![call[p][c].id] = Entry(p, c)], gone)]
    BY <1>12 DEF Insert
  <2>3. runs' \in [Procs -> [Runs -> Entries \union {None}]]
    BY <2>1, <2>2, InsertTyped DEF TypeOK
  <2>4. work' \in [Procs -> SUBSET Runs]
    <3>1. work \in [Procs -> SUBSET Runs]
      BY DEF TypeOK
    <3>2. work' = work \/ work' = [work EXCEPT ![p] = @ \union {call[p][c].id}]
      BY <1>12 DEF Insert
    <3> QED
      BY <2>1, <3>1, <3>2
  <2>5. call' = [call EXCEPT ![p][c] = NotCalling] /\ reserved' = [reserved EXCEPT ![p] = @ \ {c}]
    BY <1>12 DEF Insert
  <2>6. TypeOK'
    <3>1. call' \in [Procs -> [Callers -> Calls]] /\ reserved' \in [Procs -> SUBSET Callers]
      BY <2>5, NotCallingTyped DEF TypeOK
    <3> QED
      BY <1>12, <2>3, <2>4, <3>1 DEF Insert, TypeOK
  <2>7. CallsOK'
    BY <2>5 DEF TypeOK, CallsOK, NotCalling
  <2> QED
    BY <2>6, <2>7
<1>13. ASSUME NEW p \in Procs, NEW r \in Runs, WorkerEnds(p, r) PROVE TInv'
  BY <1>13, FinishTyped DEF WorkerEnds, TypeOK, CallsOK
<1>14. ASSUME NEW p \in Procs, NEW r \in Runs, LaneFails(p, r) PROVE TInv'
  BY <1>14, FinishTyped DEF LaneFails, TypeOK, CallsOK, Terminal
<1>15. ASSUME NEW p \in Procs, NEW r \in Runs, Annotate(p, r) PROVE TInv'
  <2>0. runs[p][r] \in Entries
    BY <1>15 DEF Annotate, TypeOK
  <2>1. [runs[p][r] EXCEPT !.notes = @ + 1] \in Entries
    BY <1>15, <2>0, EntryNoted DEF Annotate
  <2> QED
    BY <1>15, <2>1, ChangeTyped DEF Annotate, TypeOK, CallsOK
<1>16. ASSUME NEW p \in Procs, NEW r \in Runs, NEW s \in Sessions, ClaimLive(p, r, s)
       PROVE  TInv'
  <2>0. runs[p][r] \in Entries
    BY <1>16 DEF ClaimLive, CanClaimLive, TypeOK
  <2>1. [runs[p][r] EXCEPT !.delivery = "claimed", !.claimant = s] \in Entries
    BY <1>16, <2>0, EntryClaimed DEF ClaimLive
  <2> QED
    BY <1>16, <2>1, ChangeTyped DEF ClaimLive, TypeOK, CallsOK
<1>17. ASSUME NEW p \in Procs, NEW r \in Runs, NEW s \in Sessions, ClaimInHistory(p, r, s)
       PROVE  TInv'
  <2>1. [[disk[r] EXCEPT !.delivery = "claimed"] EXCEPT !.claimant = s] \in Records
    BY <1>17 DEF ClaimInHistory, CanClaimInHistory, TypeOK, Records
  <2> QED
    BY <1>17, <2>1 DEF ClaimInHistory, TypeOK, CallsOK
<1>18. ASSUME NEW p \in Procs, NEW r \in Runs, NEW s \in Sessions, DeliverLive(p, r, s)
       PROVE  TInv'
  <2>0. runs[p][r] \in Entries
    BY <1>18 DEF DeliverLive, CanDeliverLive, TypeOK
  <2>1. [runs[p][r] EXCEPT !.delivery = "delivered"] \in Entries
    BY <1>18, <2>0, EntryDelivered DEF DeliverLive
  <2> QED
    BY <1>18, <2>1, ChangeTyped DEF DeliverLive, TypeOK, CallsOK
<1>19. ASSUME NEW p \in Procs, NEW r \in Runs, NEW s \in Sessions, DeliverInHistory(p, r, s)
       PROVE  TInv'
  <2>1. [disk[r] EXCEPT !.delivery = "delivered"] \in Records
    BY <1>19 DEF DeliverInHistory, CanDeliverInHistory, TypeOK, Records
  <2> QED
    BY <1>19, <2>1 DEF DeliverInHistory, TypeOK, CallsOK
<1>20. CASE UNCHANGED regVars
  BY <1>20 DEF regVars, TypeOK, CallsOK
<1> QED
  BY <1>1, <1>2, <1>3, <1>4, <1>5, <1>6, <1>7, <1>8, <1>9, <1>10, <1>11, <1>12, <1>13,
     <1>14, <1>15, <1>16, <1>17, <1>18, <1>19, <1>20, HomeAssumption DEF RegNext, ClaimantsOf

\* The registry stays well typed: every entry, record, tee and pending call has
\* the shape the code gives it.
THEOREM TypeCorrect == RegSpec => []TypeOK
<1>1. RegSpec => []TInv
  BY TypeInit, TypeStep, PTL DEF RegSpec
<1> QED
  BY <1>1, PTL DEF TInv

-----------------------------------------------------------------------------
(* Reservations and the fence.                                             *)

\* The steps outside start_run and process death leave calls and reservations.
LEMMA OtherSteps ==
  ASSUME [RegNext]_regVars
  PROVE  \/ UNCHANGED <<call, reserved>>
         \/ \E p \in Procs : Crash(p)
         \/ \E p \in Procs, c \in Callers :
              \/ Declare(p, c) \/ Admit(p, c) \/ Refuse(p, c)
              \/ Accept(p, c) \/ AcceptFails(p, c) \/ Insert(p, c)
<1>1. ASSUME NEW t \in tees, AppendTee(t) \/ TeeFails(t) PROVE UNCHANGED <<call, reserved>>
  BY <1>1 DEF AppendTee, TeeFails
<1>2. ASSUME NEW s \in Sessions, AttachOwner(s) PROVE UNCHANGED <<call, reserved>>
  BY <1>2 DEF AttachOwner
<1>3. ASSUME NEW p \in Procs, DetachOwner(p) \/ SetTrust(p) PROVE UNCHANGED <<call, reserved>>
  BY <1>3 DEF DetachOwner, SetTrust
<1>4. ASSUME NEW p \in Procs, NEW r \in Runs, WorkerEnds(p, r) \/ LaneFails(p, r) \/ Annotate(p, r)
      PROVE  UNCHANGED <<call, reserved>>
  BY <1>4 DEF WorkerEnds, LaneFails, Annotate
<1>5. ASSUME NEW p \in Procs, NEW r \in Runs, NEW s,
             \/ ClaimLive(p, r, s) \/ ClaimInHistory(p, r, s)
             \/ DeliverLive(p, r, s) \/ DeliverInHistory(p, r, s)
      PROVE  UNCHANGED <<call, reserved>>
  BY <1>5 DEF ClaimLive, ClaimInHistory, DeliverLive, DeliverInHistory
<1>6. CASE UNCHANGED regVars
  BY <1>6 DEF regVars
<1> QED
  BY <1>1, <1>2, <1>3, <1>4, <1>5, <1>6 DEF RegNext

\* No call holds anything at the start.
LEMMA ReservationsInit == RegInit => ReservationsMatchCalls
BY DEF RegInit, ReservationsMatchCalls, NotCalling

\* A step that leaves the reservations and, of the calls, everything but the
\* owner alone keeps the reservations exact.
LEMMA ReservationsStep ==
  TInv /\ ReservationsMatchCalls /\ [RegNext]_regVars => ReservationsMatchCalls'
<1> SUFFICES ASSUME TInv, ReservationsMatchCalls, [RegNext]_regVars
             PROVE  ReservationsMatchCalls'
  OBVIOUS
<1> USE DEF TInv, ReservationsMatchCalls
<1>1. CASE UNCHANGED <<call, reserved>>
  BY <1>1
<1>2. ASSUME NEW p \in Procs, Crash(p) PROVE ReservationsMatchCalls'
  BY <1>2 DEF Crash, TypeOK, NotCalling
<1>3. ASSUME NEW p \in Procs, NEW c \in Callers, Declare(p, c) PROVE ReservationsMatchCalls'
  BY <1>3 DEF Declare, TypeOK
<1>4. ASSUME NEW p \in Procs, NEW c \in Callers, Admit(p, c) PROVE ReservationsMatchCalls'
  <2>1. call[p][c] \in Calls
    BY DEF TypeOK
  <2>2. call' = [call EXCEPT ![p] = [call[p] EXCEPT ![c] = [call[p][c] EXCEPT !.at = "admitted"]]]
    BY <1>4 DEF Admit
  <2>3. /\ [call[p][c] EXCEPT !.at = "admitted"].at = "admitted"
        /\ [call[p][c] EXCEPT !.at = "admitted"].keys = call[p][c].keys
    BY <2>1 DEF Calls
  <2> QED
    BY <1>4, <2>2, <2>3 DEF Admit, TypeOK
<1>5. ASSUME NEW p \in Procs, NEW c \in Callers, Refuse(p, c) PROVE ReservationsMatchCalls'
  BY <1>5 DEF Refuse, TypeOK, NotCalling
<1>6. ASSUME NEW p \in Procs, NEW c \in Callers, Accept(p, c) PROVE ReservationsMatchCalls'
  <2>1. PICK id \in Runs :
          call' = [call EXCEPT ![p][c].at = "accepted", ![p][c].id = id]
    BY <1>6 DEF Accept
  <2> DEFINE k == [call[p][c] EXCEPT !.at = "accepted", !.id = id]
  <2>2. call[p][c] \in Calls
    BY DEF TypeOK
  <2>3. k.at = "accepted" /\ k.keys = call[p][c].keys
    BY <2>2, CallAcceptedFields
  <2>4. call' = [call EXCEPT ![p] = [call[p] EXCEPT ![c] = k]]
    BY <2>1 DEF TypeOK
  <2> HIDE DEF k
  <2> QED
    BY <1>6, <2>3, <2>4 DEF Accept, TypeOK
<1>7. ASSUME NEW p \in Procs, NEW c \in Callers, AcceptFails(p, c) PROVE ReservationsMatchCalls'
  BY <1>7 DEF AcceptFails, TypeOK, NotCalling
<1>8. ASSUME NEW p \in Procs, NEW c \in Callers, Insert(p, c) PROVE ReservationsMatchCalls'
  <2>1. call' = [call EXCEPT ![p][c] = NotCalling] /\ reserved' = [reserved EXCEPT ![p] = @ \ {c}]
    BY <1>8 DEF Insert
  <2> QED
    BY <2>1 DEF TypeOK, NotCalling
<1> QED
  BY <1>1, <1>2, <1>3, <1>4, <1>5, <1>6, <1>7, <1>8, OtherSteps

\* The live holders after a step are among those before it, with the same keys
\* and mode.
KeepsHolders ==
  \A p \in Procs :
    /\ \A r \in Running(p)' : /\ r \in Running(p)
                             /\ runs'[p][r].keys = runs[p][r].keys
                             /\ runs'[p][r].mode = runs[p][r].mode
    /\ \A c \in reserved'[p] : /\ c \in reserved[p]
                              /\ call'[p][c].keys = call[p][c].keys
                              /\ call'[p][c].mode = call[p][c].mode

\* Holders that only go away, or stay what they are, keep the fence.
LEMMA FenceKept == Fence /\ KeepsHolders => Fence'
BY DEF Fence, KeepsHolders, MayShare

\* What the admission check establishes for the run it admits.
LEMMA NoConflict ==
  ASSUME NEW p \in Procs, NEW k, ~Conflict(p, k.mode, k.keys), NEW h \in Holders(p)
  PROVE  MayShare(h, k) /\ MayShare(k, h)
BY DEF Conflict, MayShare, ReadOnlyNow

\* A change of an entry that leaves its keys and mode alone, and does not turn
\* a landed run into a running one, adds no holder.
LEMMA ChangeKeepsHolders ==
  ASSUME TypeOK, NEW p \in Procs, NEW r \in Runs, NEW by, NEW e,
         Change(p, r, by, e), runs[p][r] # None,
         e.keys = runs[p][r].keys, e.mode = runs[p][r].mode,
         e.status = "running" => runs[p][r].status = "running",
         UNCHANGED <<call, reserved>>
  PROVE  KeepsHolders
BY DEF KeepsHolders, Change, TypeOK, Running

\* A run that ends only leaves the holders.
LEMMA FinishKeepsHolders ==
  ASSUME TypeOK, NEW p \in Procs, NEW r \in Runs, NEW status \in Terminal,
         FinishRun(p, r, status), UNCHANGED <<call, reserved>>
  PROVE  KeepsHolders
<1>1. CASE runs[p][r] # None /\ runs[p][r].status \notin Terminal
  <2> DEFINE e == [runs[p][r] EXCEPT !.status = status]
  <2>1. runs[p][r] \in Entries
    BY <1>1 DEF TypeOK
  <2>2. e.keys = runs[p][r].keys /\ e.mode = runs[p][r].mode /\ e.status = status
    BY <2>1 DEF Entries
  <2>3. Change(p, r, "worker", e)
    BY <1>1 DEF FinishRun
  <2>4. status # "running"
    BY DEF Terminal
  <2> HIDE DEF e
  <2> QED
    BY <1>1, <2>2, <2>3, <2>4, ChangeKeepsHolders
<1>2. CASE ~(runs[p][r] # None /\ runs[p][r].status \notin Terminal)
  BY <1>2 DEF FinishRun, KeepsHolders, Running
<1> QED
  BY <1>1, <1>2

\* Claims and flips change neither the keys nor the status.
LEMMA UpdateKeepsHolders ==
  ASSUME TypeOK, NEW p \in Procs, NEW r \in Runs, NEW s \in Sessions,
         ClaimLive(p, r, s) \/ DeliverLive(p, r, s)
  PROVE  KeepsHolders
<1>2. CASE ClaimLive(p, r, s)
  <2> DEFINE e == [runs[p][r] EXCEPT !.delivery = "claimed", !.claimant = s]
  <2>1. runs[p][r] # None /\ runs[p][r] \in Entries /\ UNCHANGED <<call, reserved>>
    BY <1>2 DEF ClaimLive, CanClaimLive, TypeOK
  <2>2. e.keys = runs[p][r].keys /\ e.mode = runs[p][r].mode /\ e.status = runs[p][r].status
    BY <2>1 DEF Entries
  <2>3. Change(p, r, "voice", e)
    BY <1>2 DEF ClaimLive
  <2> HIDE DEF e
  <2> QED
    BY <2>1, <2>2, <2>3, ChangeKeepsHolders
<1>3. CASE DeliverLive(p, r, s)
  <2> DEFINE e == [runs[p][r] EXCEPT !.delivery = "delivered"]
  <2>1. runs[p][r] # None /\ runs[p][r] \in Entries /\ UNCHANGED <<call, reserved>>
    BY <1>3 DEF DeliverLive, CanDeliverLive, TypeOK
  <2>2. e.keys = runs[p][r].keys /\ e.mode = runs[p][r].mode /\ e.status = runs[p][r].status
    BY <2>1 DEF Entries
  <2>3. Change(p, r, "voice", e)
    BY <1>3 DEF DeliverLive
  <2> HIDE DEF e
  <2> QED
    BY <2>1, <2>2, <2>3, ChangeKeepsHolders
<1> QED
  BY <1>2, <1>3

\* The admission check is what keeps the fence when a reservation is taken.
LEMMA FenceAdmit ==
  ASSUME TInv, Fence, NEW p \in Procs, NEW c \in Callers, Admit(p, c)
  PROVE  Fence'
<1> DEFINE k == [call[p][c] EXCEPT !.at = "admitted"]
<1>1. call[p][c] \in Calls
  BY DEF TInv, TypeOK
<1>2. k.keys = call[p][c].keys /\ k.mode = call[p][c].mode
  BY <1>1 DEF Calls
<1>3. call' = [call EXCEPT ![p] = [call[p] EXCEPT ![c] = k]]
  BY DEF Admit
<1> HIDE DEF k
<1>4. \A q \in Procs, d \in Callers :
        call'[q][d].keys = call[q][d].keys /\ call'[q][d].mode = call[q][d].mode
  BY <1>2, <1>3 DEF TInv, TypeOK
<1>5. \A h \in Holders(p) : MayShare(h, call[p][c]) /\ MayShare(call[p][c], h)
  BY NoConflict DEF Admit
<1>6. /\ \A r \in Running(p) : MayShare(runs[p][r], call[p][c])
      /\ \A d \in reserved[p] : MayShare(call[p][d], call[p][c]) /\ MayShare(call[p][c], call[p][d])
  BY <1>5 DEF Holders
<1>7. reserved' \in [Procs -> SUBSET Callers] /\ \A q \in Procs : reserved'[q] \subseteq
        IF q = p THEN reserved[q] \union {c} ELSE reserved[q]
  BY DEF Admit, TInv, TypeOK
<1>8. runs' = runs /\ reserved \in [Procs -> SUBSET Callers]
  BY DEF Admit, TInv, TypeOK
<1>9. \A q \in Procs : Running(q)' = Running(q)
  BY <1>8 DEF Running
<1> QED
  BY <1>4, <1>6, <1>7, <1>8, <1>9 DEF Fence, MayShare

\* The keys pass from the reservation to the entry within one critical section.
LEMMA FenceInsert ==
  ASSUME TInv, ReservationsMatchCalls, Fence, NEW p \in Procs, NEW c \in Callers, Insert(p, c)
  PROVE  Fence'
<1> DEFINE id == call[p][c].id
           e  == Entry(p, c)
<1>1. id \in Runs /\ call[p][c].at = "accepted"
  BY DEF Insert, TInv, CallsOK
<1>2. PICK gone \in SUBSET Runs :
        runs' = [runs EXCEPT ![p] = Evicted([runs[p] EXCEPT ![id] = e], gone)]
  BY DEF Insert
<1>3. e.keys = call[p][c].keys /\ e.mode = call[p][c].mode
  BY DEF Entry, NewEntry
<1> HIDE DEF e
<1>4. /\ reserved' = [reserved EXCEPT ![p] = @ \ {c}]
      /\ call' = [call EXCEPT ![p] = [call[p] EXCEPT ![c] = NotCalling]]
      /\ reserved \in [Procs -> SUBSET Callers]
      /\ call \in [Procs -> [Callers -> Calls]]
  BY DEF Insert, TInv, TypeOK
<1>5. \A q \in Procs : \A d \in reserved'[q] :
        d \in reserved[q] /\ call'[q][d] = call[q][d] /\ (q = p => d # c)
  BY <1>4
<1>6. \A r \in Running(p)' :
        \/ r = id /\ runs'[p][r] = e
        \/ r # id /\ r \in Running(p) /\ runs'[p][r] = runs[p][r]
  <2>1. \A r \in Runs : runs'[p][r] = IF r \in gone THEN None ELSE IF r = id THEN e ELSE runs[p][r]
    BY <1>1, <1>2 DEF Evicted, TInv, TypeOK
  <2>2. SUFFICES ASSUME NEW r \in Running(p)'
                PROVE  \/ r = id /\ runs'[p][r] = e
                       \/ r # id /\ r \in Running(p) /\ runs'[p][r] = runs[p][r]
    OBVIOUS
  <2>3. r \in Runs /\ runs'[p][r] # None /\ runs'[p][r].status = "running"
    BY <2>2 DEF Running
  <2>4. r \notin gone
    BY <2>1, <2>3
  <2>5. CASE r = id
    BY <2>1, <2>3, <2>4, <2>5
  <2>6. CASE r # id
    <3>1. runs'[p][r] = runs[p][r]
      BY <2>1, <2>3, <2>4, <2>6
    <3> QED
      BY <2>3, <2>6, <3>1 DEF Running
  <2> QED
    BY <2>5, <2>6
<1>7. \A q \in Procs : q # p => Running(q)' = Running(q) /\ runs'[q] = runs[q]
  BY <1>2 DEF Running, TInv, TypeOK
<1>8. call[p][c].keys # {} => c \in reserved[p]
  BY <1>1 DEF ReservationsMatchCalls
<1>9. call[p][c].keys = {} => \A x : MayShare(e, x) /\ MayShare(x, e)
  BY <1>3 DEF MayShare
<1>10. \A r \in Running(p) : MayShare(runs[p][r], e) /\ MayShare(e, runs[p][r])
  BY <1>3, <1>8, <1>9 DEF Fence, MayShare
<1>11. \A d \in reserved[p] : d # c => MayShare(e, call[p][d])
  BY <1>3, <1>8, <1>9 DEF Fence, MayShare
<1>12. \A q, r \in Running(p)' : q # r => MayShare(runs'[p][q], runs'[p][r])
  BY <1>6, <1>10 DEF Fence
<1>13. \A r \in Running(p)', d \in reserved'[p] : MayShare(runs'[p][r], call'[p][d])
  BY <1>5, <1>6, <1>11 DEF Fence
<1> QED
  BY <1>5, <1>7, <1>12, <1>13 DEF Fence

\* Only an admission and an insertion add a holder, every other step keeps or
\* drops those there are.
HolderStep ==
  KeepsHolders \/ \E p \in Procs, c \in Callers : Admit(p, c) \/ Insert(p, c)

\* Every step keeps the holders, admits one that conflicts with none, or turns a reservation into an entry.
LEMMA HolderSteps ==
  ASSUME TInv, ReservationsMatchCalls, [RegNext]_regVars
  PROVE  HolderStep
<1>1. ASSUME UNCHANGED <<runs, call, reserved>> PROVE HolderStep
  <2>1. \A q \in Procs : Running(q)' = Running(q)
    BY <1>1 DEF Running
  <2> QED
    BY <1>1, <2>1 DEF KeepsHolders, HolderStep
<1>2. ASSUME NEW p \in Procs, Crash(p) PROVE HolderStep
  <2>1. KeepsHolders
    BY <1>2 DEF KeepsHolders, Crash, Running, TInv, TypeOK
  <2> QED
    BY <2>1 DEF HolderStep
<1>3. ASSUME NEW p \in Procs, NEW c \in Callers, Declare(p, c) \/ Refuse(p, c) PROVE HolderStep
  <2>1. c \notin reserved[p] /\ runs' = runs /\ reserved' = reserved
    BY <1>3 DEF Declare, Refuse, ReservationsMatchCalls
  <2>2. \A q \in Procs : \A d \in reserved[q] : call'[q][d] = call[q][d]
    <3>1. CASE Declare(p, c)
      BY <2>1, <3>1 DEF Declare, TInv, TypeOK
    <3>2. CASE Refuse(p, c)
      BY <2>1, <3>2 DEF Refuse, TInv, TypeOK
    <3> QED
      BY <1>3, <3>1, <3>2
  <2>3. KeepsHolders
    BY <2>1, <2>2 DEF KeepsHolders, Running
  <2> QED
    BY <2>3 DEF HolderStep
<1>4. ASSUME NEW p \in Procs, NEW c \in Callers, Admit(p, c) PROVE HolderStep
  BY <1>4 DEF HolderStep
<1>5. ASSUME NEW p \in Procs, NEW c \in Callers, Accept(p, c) PROVE HolderStep
  <2>1. PICK id \in Runs :
          call' = [call EXCEPT ![p][c].at = "accepted", ![p][c].id = id]
    BY <1>5 DEF Accept
  <2> DEFINE k == [call[p][c] EXCEPT !.at = "accepted", !.id = id]
  <2>2. call[p][c] \in Calls
    BY DEF TInv, TypeOK
  <2>3. k.mode = call[p][c].mode /\ k.keys = call[p][c].keys
    BY <2>2, CallAcceptedFields
  <2>4. call' = [call EXCEPT ![p] = [call[p] EXCEPT ![c] = k]]
    BY <2>1 DEF TInv, TypeOK
  <2> HIDE DEF k
  <2>5. \A q \in Procs, d \in Callers :
          call'[q][d].keys = call[q][d].keys /\ call'[q][d].mode = call[q][d].mode
    BY <2>3, <2>4 DEF TInv, TypeOK
  <2>6. KeepsHolders
    BY <1>5, <2>5 DEF KeepsHolders, Running, Accept, TInv, TypeOK
  <2> QED
    BY <2>6 DEF HolderStep
<1>6. ASSUME NEW p \in Procs, NEW c \in Callers, AcceptFails(p, c) PROVE HolderStep
  <2>1. \A q \in Procs : \A d \in reserved'[q] : d \in reserved[q] /\ call'[q][d] = call[q][d]
    BY <1>6 DEF AcceptFails, TInv, TypeOK
  <2>2. KeepsHolders
    BY <1>6, <2>1 DEF KeepsHolders, Running, AcceptFails
  <2> QED
    BY <2>2 DEF HolderStep
<1>7. ASSUME NEW p \in Procs, NEW c \in Callers, Insert(p, c) PROVE HolderStep
  BY <1>7 DEF HolderStep
<1>8. ASSUME NEW p \in Procs, NEW r \in Runs, WorkerEnds(p, r) \/ LaneFails(p, r) PROVE HolderStep
  BY <1>8, FinishKeepsHolders DEF HolderStep, WorkerEnds, LaneFails, Terminal, TInv
<1>9. ASSUME NEW p \in Procs, NEW r \in Runs, NEW s \in Sessions,
             ClaimLive(p, r, s) \/ DeliverLive(p, r, s)
      PROVE  HolderStep
  BY <1>9, UpdateKeepsHolders DEF HolderStep, TInv
<1>10. ASSUME NEW p \in Procs, NEW r \in Runs, Annotate(p, r) PROVE HolderStep
  <2>1. KeepsHolders
    <3> DEFINE e == [runs[p][r] EXCEPT !.notes = runs[p][r].notes + 1]
    <3>1. runs[p][r] # None /\ runs[p][r] \in Entries /\ UNCHANGED <<call, reserved>>
      BY <1>10 DEF Annotate, TypeOK, TInv
    <3>2. e.keys = runs[p][r].keys /\ e.mode = runs[p][r].mode /\ e.status = runs[p][r].status
      BY <3>1 DEF Entries
    <3>3. Change(p, r, "tool", e)
      BY <1>10 DEF Annotate
    <3> HIDE DEF e
    <3> QED
      BY <3>1, <3>2, <3>3, ChangeKeepsHolders DEF TInv
  <2> QED
    BY <2>1 DEF HolderStep
<1>11. ASSUME NEW p \in Procs, NEW r \in Runs, NEW s \in Sessions,
              ClaimInHistory(p, r, s) \/ DeliverInHistory(p, r, s)
       PROVE  HolderStep
  BY <1>1, <1>11 DEF ClaimInHistory, DeliverInHistory
<1>12. ASSUME NEW t \in tees, AppendTee(t) \/ TeeFails(t) PROVE HolderStep
  BY <1>1, <1>12 DEF AppendTee, TeeFails
<1>13. ASSUME NEW s \in Sessions, AttachOwner(s) PROVE HolderStep
  BY <1>1, <1>13 DEF AttachOwner
<1>14. ASSUME NEW p \in Procs, DetachOwner(p) \/ SetTrust(p) PROVE HolderStep
  BY <1>1, <1>14 DEF DetachOwner, SetTrust
<1>15. CASE UNCHANGED regVars
  BY <1>1, <1>15 DEF regVars
<1> QED
  BY <1>2, <1>3, <1>4, <1>5, <1>6, <1>7, <1>8, <1>9, <1>10, <1>11, <1>12, <1>13, <1>14,
     <1>15, HomeAssumption DEF RegNext, ClaimantsOf

\* So every step keeps the fence.
LEMMA FenceStep ==
  TInv /\ ReservationsMatchCalls /\ Fence /\ [RegNext]_regVars => Fence'
BY HolderSteps, FenceKept, FenceAdmit, FenceInsert DEF HolderStep

\* Nobody holds anything at the start.
LEMMA FenceInit == RegInit => Fence
BY DEF RegInit, Fence, Running

\* A reservation lives exactly from admission to insertion or refusal.
THEOREM ReservationsExact == RegSpec => []ReservationsMatchCalls
BY TypeInit, TypeStep, ReservationsInit, ReservationsStep, PTL DEF RegSpec

\* Two live holders of a process share a key only when both were admitted
\* read-only: mutual exclusion of start_run, for any number of concurrent
\* calls, processes and keys, over crashes and failing writes.
THEOREM Fenced == RegSpec => []Fence
BY TypeInit, TypeStep, ReservationsInit, ReservationsStep, FenceInit, FenceStep, PTL DEF RegSpec

-----------------------------------------------------------------------------
(* The trust knob.  Overlap is counted, so the holders must be finite: runs *)
(* are an interval of ids, and a step reserves for one call.                *)

RunsOn(p, k)  == {r \in Running(p) : k \in runs[p][r].keys}
CallsOn(p, k) == {c \in reserved[p] : k \in call[p][c].keys}

FiniteReservations == \A p \in Procs : IsFiniteSet(reserved[p])

\* What a step may do to the number of holders of a key.
OverlapStep ==
  \A p \in Procs, k \in Keys :
    HolderCount(p, k)' > HolderCount(p, k) /\ HolderCount(p, k) > 0 => trust[p]

\* The holders of a key form two finite sets, and holders lost are not counted.
Counted ==
  \A p \in Procs, k \in Keys :
    /\ IsFiniteSet(RunsOn(p, k)) /\ IsFiniteSet(CallsOn(p, k))
    /\ Cardinality(RunsOn(p, k)) \in Nat /\ Cardinality(CallsOn(p, k)) \in Nat
    /\ HolderCount(p, k) = Cardinality(RunsOn(p, k)) + Cardinality(CallsOn(p, k))

\* Finitely many reservations make the holders of a key countable.
LEMMA HoldersFinite == FiniteReservations => Counted
<1> SUFFICES ASSUME FiniteReservations, NEW p \in Procs, NEW k \in Keys
             PROVE  /\ IsFiniteSet(RunsOn(p, k)) /\ IsFiniteSet(CallsOn(p, k))
                    /\ Cardinality(RunsOn(p, k)) \in Nat /\ Cardinality(CallsOn(p, k)) \in Nat
                    /\ HolderCount(p, k) = Cardinality(RunsOn(p, k)) + Cardinality(CallsOn(p, k))
  BY DEF Counted
<1>1. IsFiniteSet(Runs)
  BY FS_Interval, BoundsAssumption DEF Runs
<1>2. RunsOn(p, k) \in SUBSET Runs /\ CallsOn(p, k) \in SUBSET reserved[p]
  BY DEF RunsOn, CallsOn, Running
<1>3. IsFiniteSet(RunsOn(p, k)) /\ IsFiniteSet(CallsOn(p, k))
  BY <1>1, <1>2, FS_Subset DEF FiniteReservations
<1> QED
  BY <1>3, FS_CardinalityType DEF HolderCount, RunsOn, CallsOn

\* The same after a step.
LEMMA HoldersStayFinite == FiniteReservations' => Counted'
BY HoldersFinite, PTL

\* Where no holder is new there are no more of them.
LEMMA FewerHolders ==
  ASSUME FiniteReservations, FiniteReservations', NEW p \in Procs, NEW k \in Keys,
         RunsOn(p, k)' \subseteq RunsOn(p, k), CallsOn(p, k)' \subseteq CallsOn(p, k)
  PROVE  ~(HolderCount(p, k)' > HolderCount(p, k))
<1>1. /\ Cardinality(RunsOn(p, k)') <= Cardinality(RunsOn(p, k))
      /\ Cardinality(CallsOn(p, k)') <= Cardinality(CallsOn(p, k))
  BY HoldersFinite, FS_Subset DEF Counted
<1>2. /\ Cardinality(RunsOn(p, k)) \in Nat /\ Cardinality(CallsOn(p, k)) \in Nat
      /\ HolderCount(p, k) = Cardinality(RunsOn(p, k)) + Cardinality(CallsOn(p, k))
  BY HoldersFinite DEF Counted
<1>3. /\ Cardinality(RunsOn(p, k)') \in Nat /\ Cardinality(CallsOn(p, k)') \in Nat
      /\ HolderCount(p, k)' = Cardinality(RunsOn(p, k)') + Cardinality(CallsOn(p, k)')
  BY HoldersStayFinite DEF Counted
<1> QED
  BY <1>1, <1>2, <1>3

\* A reservation is one element more or less, in every step.
LEMMA FiniteStep ==
  TInv /\ ReservationsMatchCalls /\ FiniteReservations /\ [RegNext]_regVars =>
    FiniteReservations'
<1> SUFFICES ASSUME TInv, ReservationsMatchCalls, FiniteReservations, [RegNext]_regVars,
                    NEW q \in Procs
             PROVE  IsFiniteSet(reserved'[q])
  BY DEF FiniteReservations
<1>0. IsFiniteSet(reserved[q])
  BY DEF FiniteReservations
<1>1. CASE KeepsHolders
  <2>1. reserved'[q] \in SUBSET reserved[q]
    BY <1>1 DEF KeepsHolders
  <2> QED
    BY <1>0, <2>1, FS_Subset
<1>2. ASSUME NEW p \in Procs, NEW c \in Callers, Admit(p, c) \/ Insert(p, c)
      PROVE  IsFiniteSet(reserved'[q])
  <2>1. reserved'[q] \in {reserved[q], reserved[q] \union {c}, reserved[q] \ {c}}
    BY <1>2 DEF Admit, Insert, TInv, TypeOK
  <2> QED
    BY <1>0, <2>1, FS_AddElement, FS_RemoveElement
<1> QED
  BY <1>1, <1>2, HolderSteps DEF HolderStep

\* With the knob off a read-only holder counts as a writer: the admission that
\* would be the second holder of a key is in conflict with the first.
LEMMA AdmitAlone ==
  ASSUME TInv, FiniteReservations, FiniteReservations',
         NEW p \in Procs, NEW c \in Callers, Admit(p, c)
  PROVE  OverlapStep
<1> SUFFICES ASSUME NEW q \in Procs, NEW k \in Keys,
                    HolderCount(q, k)' > HolderCount(q, k), HolderCount(q, k) > 0, ~trust[q]
             PROVE  FALSE
  BY DEF OverlapStep
<1> DEFINE e == [call[p][c] EXCEPT !.at = "admitted"]
<1>1. call[p][c] \in Calls
  BY DEF TInv, TypeOK
<1>2. e.keys = call[p][c].keys
  BY <1>1 DEF Calls
<1>3. call' = [call EXCEPT ![p] = [call[p] EXCEPT ![c] = e]]
  BY DEF Admit
<1> HIDE DEF e
<1>4. \A o \in Procs, d \in Callers : call'[o][d].keys = call[o][d].keys
  BY <1>2, <1>3 DEF TInv, TypeOK
<1>5. RunsOn(q, k)' = RunsOn(q, k)
  BY DEF Admit, RunsOn, Running
<1>6. CallsOn(q, k)' \subseteq CallsOn(q, k) \union {d \in {c} : q = p /\ k \in call[p][c].keys}
  BY <1>4 DEF Admit, CallsOn, TInv, TypeOK
<1>7. q = p /\ k \in call[p][c].keys
  <2>1. ~(CallsOn(q, k)' \subseteq CallsOn(q, k))
    BY <1>5, FewerHolders
  <2> QED
    BY <1>6, <2>1
<1>8. RunsOn(p, k) # {} \/ CallsOn(p, k) # {}
  <2>1. HolderCount(p, k) = Cardinality(RunsOn(p, k)) + Cardinality(CallsOn(p, k))
    BY HoldersFinite DEF Counted
  <2>2. SUFFICES ASSUME RunsOn(p, k) = {} /\ CallsOn(p, k) = {} PROVE FALSE
    OBVIOUS
  <2> QED
    BY <1>7, <2>1, <2>2, FS_EmptySet
<1>9. \E h \in Holders(p) : k \in h.keys
  BY <1>8 DEF RunsOn, CallsOn, Holders
<1>10. Conflict(p, call[p][c].mode, call[p][c].keys)
  BY <1>7, <1>9 DEF Conflict, ReadOnlyNow
<1> QED
  BY <1>10 DEF Admit

\* An insertion moves a call's keys from its reservation to its entry.
LEMMA InsertMoves ==
  ASSUME TInv, ReservationsMatchCalls, FiniteReservations, FiniteReservations',
         NEW p \in Procs, NEW c \in Callers, Insert(p, c)
  PROVE  OverlapStep
<1> SUFFICES ASSUME NEW q \in Procs, NEW k \in Keys
             PROVE  ~(HolderCount(q, k)' > HolderCount(q, k))
  BY DEF OverlapStep
<1> DEFINE id == call[p][c].id
           e  == Entry(p, c)
<1>1. e.keys = call[p][c].keys
  BY DEF Entry, NewEntry
<1>2. id \in Runs /\ call[p][c].at = "accepted"
  BY DEF Insert, TInv, CallsOK
<1>3. \E gone \in SUBSET Runs : runs' = [runs EXCEPT ![p] = Evicted([runs[p] EXCEPT ![id] = e], gone)]
  BY DEF Insert
<1>4. call' = [call EXCEPT ![p] = [call[p] EXCEPT ![c] = NotCalling]]
  BY DEF Insert
<1> HIDE DEF id, e
<1>5. \A r \in Runs : runs'[p][r] # None => runs'[p][r] = IF r = id THEN e ELSE runs[p][r]
  BY <1>2, <1>3 DEF Evicted, TInv, TypeOK
<1>6. \A o \in Procs : o # p => runs'[o] = runs[o]
  BY <1>3 DEF TInv, TypeOK
<1>7. CallsOn(q, k)' \subseteq CallsOn(q, k) /\ (q = p => c \notin CallsOn(q, k)')
  BY <1>4 DEF Insert, CallsOn, NotCalling, TInv, TypeOK
<1>8. CASE q # p
  <2>1. RunsOn(q, k)' = RunsOn(q, k)
    BY <1>6, <1>8 DEF RunsOn, Running
  <2> QED
    BY <1>7, <2>1, FewerHolders
<1>9. CASE q = p /\ k \notin call[p][c].keys
  <2>1. RunsOn(q, k)' \subseteq RunsOn(q, k)
    BY <1>1, <1>5, <1>9 DEF RunsOn, Running
  <2> QED
    BY <1>7, <2>1, FewerHolders
<1>10. CASE q = p /\ k \in call[p][c].keys
  <2>1. c \in CallsOn(q, k)
    BY <1>2, <1>10 DEF CallsOn, ReservationsMatchCalls
  <2>2. CallsOn(q, k)' \subseteq CallsOn(q, k) \ {c}
    BY <1>7, <1>10
  <2>3. RunsOn(q, k)' \subseteq RunsOn(q, k) \union {id}
    BY <1>5, <1>10 DEF RunsOn, Running
  <2>4. Cardinality(CallsOn(q, k)') <= Cardinality(CallsOn(q, k)) - 1
    <3>1. IsFiniteSet(CallsOn(q, k))
      BY HoldersFinite DEF Counted
    <3>2. IsFiniteSet(CallsOn(q, k) \ {c}) /\ Cardinality(CallsOn(q, k) \ {c}) = Cardinality(CallsOn(q, k)) - 1
      BY <2>1, <3>1, FS_RemoveElement
    <3>3. Cardinality(CallsOn(q, k)') <= Cardinality(CallsOn(q, k) \ {c})
      BY <2>2, <3>2, FS_Subset
    <3> QED
      BY <3>2, <3>3
  <2>5. Cardinality(RunsOn(q, k)') <= Cardinality(RunsOn(q, k)) + 1
    <3>1. IsFiniteSet(RunsOn(q, k)) /\ Cardinality(RunsOn(q, k)) \in Nat
      BY HoldersFinite DEF Counted
    <3>2. /\ IsFiniteSet(RunsOn(q, k) \union {id})
          /\ Cardinality(RunsOn(q, k) \union {id}) <= Cardinality(RunsOn(q, k)) + 1
      <4>1. /\ IsFiniteSet(RunsOn(q, k) \union {id})
            /\ Cardinality(RunsOn(q, k) \union {id}) =
                 IF id \in RunsOn(q, k) THEN Cardinality(RunsOn(q, k))
                                        ELSE Cardinality(RunsOn(q, k)) + 1
        BY <3>1, FS_AddElement
      <4> QED
        BY <3>1, <4>1
    <3>3. IsFiniteSet(RunsOn(q, k)') /\ Cardinality(RunsOn(q, k)') <= Cardinality(RunsOn(q, k) \union {id})
      BY <2>3, <3>2, FS_Subset
    <3>4. Cardinality(RunsOn(q, k)') \in Nat /\ Cardinality(RunsOn(q, k) \union {id}) \in Nat
      BY <3>2, <3>3, FS_CardinalityType
    <3> QED
      BY <3>1, <3>2, <3>3, <3>4
  <2>6. /\ Cardinality(RunsOn(q, k)) \in Nat /\ Cardinality(CallsOn(q, k)) \in Nat
        /\ HolderCount(q, k) = Cardinality(RunsOn(q, k)) + Cardinality(CallsOn(q, k))
    BY HoldersFinite DEF Counted
  <2>7. /\ Cardinality(RunsOn(q, k)') \in Nat /\ Cardinality(CallsOn(q, k)') \in Nat
        /\ HolderCount(q, k)' = Cardinality(RunsOn(q, k)') + Cardinality(CallsOn(q, k)')
    BY HoldersStayFinite DEF Counted
  <2> QED
    BY <2>4, <2>5, <2>6, <2>7
<1> QED
  BY <1>8, <1>9, <1>10

\* A second holder appears only by an admission under trust.
LEMMA OverlapSteps ==
  ASSUME TInv, ReservationsMatchCalls, FiniteReservations, FiniteReservations',
         [RegNext]_regVars
  PROVE  OverlapStep
<1>1. CASE KeepsHolders
  <2> SUFFICES ASSUME NEW p \in Procs, NEW k \in Keys
               PROVE  ~(HolderCount(p, k)' > HolderCount(p, k))
    BY DEF OverlapStep
  <2>1. RunsOn(p, k)' \subseteq RunsOn(p, k) /\ CallsOn(p, k)' \subseteq CallsOn(p, k)
    BY <1>1 DEF KeepsHolders, RunsOn, CallsOn
  <2> QED
    BY <2>1, FewerHolders
<1> QED
  BY <1>1, HolderSteps, AdmitAlone, InsertMoves DEF HolderStep

\* No step makes a second holder of a key while the operator's trust knob is
\* off, whatever the declaration was resolved to when it was made: for any
\* number of processes, calls and keys, and any history of the knob.
THEOREM NoOverlapWithoutTrust == RegSpec => OverlapGrowsOnlyUnderTrust
<1> DEFINE Inv == TInv /\ ReservationsMatchCalls /\ FiniteReservations
<1>1. RegInit => FiniteReservations
  BY FS_EmptySet DEF RegInit, FiniteReservations
<1>2. Inv /\ [RegNext]_regVars => Inv'
  BY TypeStep, ReservationsStep, FiniteStep
<1>3. Inv /\ [RegNext]_regVars => [OverlapStep]_regVars
  BY <1>2, OverlapSteps
<1> QED
  BY <1>1, <1>2, <1>3, TypeInit, ReservationsInit, PTL
     DEF RegSpec, OverlapGrowsOnlyUnderTrust, OverlapStep

-----------------------------------------------------------------------------
(* Ids and routes.                                                         *)

\* The strengthening: a tee in flight also belongs to a run with a record, and
\* names the session the record names.
TeesRouted == \A t \in tees : disk[t.run] # None /\ t.rec.ticket = disk[t.run].ticket

IdInv == RouteDurable /\ IdsUnique /\ TeesRouted

\* No id is taken at the start.
LEMMA IdInit == RegInit => IdInv
BY DEF RegInit, IdInv, RouteDurable, IdsUnique, TeesRouted, NotCalling

\* Records stay, with their ticket.
RecordsStay ==
  \A r \in Runs : disk[r] # None => disk'[r] # None /\ disk'[r].ticket = disk[r].ticket

\* Every entry, pending id and tee after the step was one before it, with the
\* same owner.
NothingNew ==
  /\ \A p \in Procs, r \in Runs : runs'[p][r] # None =>
       runs[p][r] # None /\ runs'[p][r].ticket = runs[p][r].ticket
  /\ \A p \in Procs, c \in Callers : call'[p][c].at = "accepted" =>
       /\ call[p][c].at = "accepted"
       /\ call'[p][c].id = call[p][c].id
       /\ call'[p][c].owner = call[p][c].owner
  /\ \A t \in tees' : \/ t \in tees
                     \/ \E p \in Procs : /\ runs[p][t.run] # None
                                        /\ t.rec.ticket = runs[p][t.run].ticket

\* A step that brings nothing new keeps ids and routes.
LEMMA IdKept ==
  ASSUME TInv, TInv', IdInv, RecordsStay, NothingNew
  PROVE  IdInv'
<1>1. \A t \in tees' : t.run \in Runs
  BY DEF TInv, TypeOK, Tees
<1>2. RouteDurable'
  BY DEF IdInv, RouteDurable, RecordsStay, NothingNew, TInv, CallsOK
<1>3. IdsUnique'
  <2>1. ASSUME NEW p \in Procs, NEW q \in Procs, NEW r \in Runs,
               runs'[p][r] # None, runs'[q][r] # None
        PROVE  p = q
    BY <2>1 DEF IdInv, IdsUnique, NothingNew
  <2>2. ASSUME NEW p \in Procs, NEW q \in Procs, NEW c \in Callers, call'[p][c].at = "accepted"
        PROVE  runs'[q][call'[p][c].id] = None
    BY <2>2 DEF IdInv, IdsUnique, NothingNew, TInv, CallsOK
  <2>3. ASSUME NEW p \in Procs, NEW q \in Procs, NEW c \in Callers, NEW d \in Callers,
               call'[p][c].at = "accepted", call'[q][d].at = "accepted",
               call'[q][d].id = call'[p][c].id
        PROVE  p = q /\ c = d
    BY <2>3 DEF IdInv, IdsUnique, NothingNew
  <2> QED
    BY <2>1, <2>2, <2>3 DEF IdsUnique
<1>4. TeesRouted'
  <2> SUFFICES ASSUME NEW t \in tees'
               PROVE  disk'[t.run] # None /\ t.rec.ticket = disk'[t.run].ticket
    BY DEF TeesRouted
  <2>1. disk[t.run] # None /\ t.rec.ticket = disk[t.run].ticket
    BY <1>1 DEF IdInv, TeesRouted, RouteDurable, NothingNew
  <2> QED
    BY <1>1, <2>1 DEF RecordsStay
<1> QED
  BY <1>2, <1>3, <1>4 DEF IdInv

\* A change under _RUN_LOCK keeps the owner, and its tee carries it.
LEMMA ChangeNothingNew ==
  ASSUME TypeOK, NEW p \in Procs, NEW r \in Runs, NEW by, NEW e,
         Change(p, r, by, e), runs[p][r] # None, e.ticket = runs[p][r].ticket,
         UNCHANGED <<call, disk>>
  PROVE  NothingNew /\ RecordsStay
<1>1. \A q \in Procs, x \in Runs : runs'[q][x] # None =>
        runs[q][x] # None /\ runs'[q][x].ticket = runs[q][x].ticket
  BY DEF Change, TypeOK
<1>2. Tee(p, r, by, e).run = r /\ Tee(p, r, by, e).rec.ticket = runs[p][r].ticket
  BY DEF Tee, RecordOf
<1>3. \A t \in tees' : t \in tees \/ t = Tee(p, r, by, e)
  BY DEF Change
<1> QED
  BY <1>1, <1>2, <1>3 DEF NothingNew, RecordsStay

\* finish_run brings no id.
LEMMA FinishNothingNew ==
  ASSUME TypeOK, NEW p \in Procs, NEW r \in Runs, NEW status \in Terminal,
         FinishRun(p, r, status), UNCHANGED <<call, disk>>
  PROVE  NothingNew /\ RecordsStay
<1>1. CASE runs[p][r] # None /\ runs[p][r].status \notin Terminal
  <2> DEFINE e == [runs[p][r] EXCEPT !.status = status]
  <2>1. runs[p][r] \in Entries
    BY <1>1 DEF TypeOK
  <2>2. e.ticket = runs[p][r].ticket
    BY <2>1 DEF Entries
  <2>3. Change(p, r, "worker", e)
    BY <1>1 DEF FinishRun
  <2> HIDE DEF e
  <2> QED
    BY <1>1, <2>2, <2>3, ChangeNothingNew
<1>2. CASE ~(runs[p][r] # None /\ runs[p][r].status \notin Terminal)
  BY <1>2 DEF FinishRun, NothingNew, RecordsStay
<1> QED
  BY <1>1, <1>2

\* An annotation brings no id.
LEMMA AnnotateNothingNew ==
  ASSUME TypeOK, NEW p \in Procs, NEW r \in Runs, Annotate(p, r)
  PROVE  NothingNew /\ RecordsStay
<1> DEFINE e == [runs[p][r] EXCEPT !.notes = runs[p][r].notes + 1]
<1>1. runs[p][r] # None /\ runs[p][r] \in Entries /\ UNCHANGED <<call, disk>>
  BY DEF Annotate, TypeOK
<1>2. e.ticket = runs[p][r].ticket
  BY <1>1 DEF Entries
<1>3. Change(p, r, "tool", e)
  BY DEF Annotate
<1> HIDE DEF e
<1> QED
  BY <1>1, <1>2, <1>3, ChangeNothingNew

\* A claim in the registry brings no id.
LEMMA ClaimNothingNew ==
  ASSUME TypeOK, NEW p \in Procs, NEW r \in Runs, NEW s \in Sessions, ClaimLive(p, r, s)
  PROVE  NothingNew /\ RecordsStay
<1> DEFINE e == [runs[p][r] EXCEPT !.delivery = "claimed", !.claimant = s]
<1>1. runs[p][r] # None /\ runs[p][r] \in Entries /\ UNCHANGED <<call, disk>>
  BY DEF ClaimLive, CanClaimLive, TypeOK
<1>2. e.ticket = runs[p][r].ticket
  BY <1>1 DEF Entries
<1>3. Change(p, r, "voice", e)
  BY DEF ClaimLive
<1> HIDE DEF e
<1> QED
  BY <1>1, <1>2, <1>3, ChangeNothingNew

\* A flip in the registry brings no id.
LEMMA DeliverNothingNew ==
  ASSUME TypeOK, NEW p \in Procs, NEW r \in Runs, NEW s \in Sessions, DeliverLive(p, r, s)
  PROVE  NothingNew /\ RecordsStay
<1> DEFINE e == [runs[p][r] EXCEPT !.delivery = "delivered"]
<1>1. runs[p][r] # None /\ runs[p][r] \in Entries /\ UNCHANGED <<call, disk>>
  BY DEF DeliverLive, CanDeliverLive, TypeOK
<1>2. e.ticket = runs[p][r].ticket
  BY <1>1 DEF Entries
<1>3. Change(p, r, "voice", e)
  BY DEF DeliverLive
<1> HIDE DEF e
<1> QED
  BY <1>1, <1>2, <1>3, ChangeNothingNew

\* A claim or a flip in the history brings no id.
LEMMA HistoryNothingNew ==
  ASSUME TypeOK, NEW p \in Procs, NEW r \in Runs, NEW s \in Sessions,
         ClaimInHistory(p, r, s) \/ DeliverInHistory(p, r, s)
  PROVE  NothingNew /\ RecordsStay
<1>1. disk[r] # None /\ disk[r] \in Records /\ UNCHANGED <<runs, call, tees>>
  BY DEF ClaimInHistory, CanClaimInHistory, DeliverInHistory, CanDeliverInHistory, TypeOK
<1>2. CASE ClaimInHistory(p, r, s)
  <2> DEFINE d == [disk[r] EXCEPT !.delivery = "claimed", !.claimant = s]
  <2>1. d \in Records /\ d.ticket = disk[r].ticket
    BY <1>1 DEF Records
  <2>2. disk' = [disk EXCEPT ![r] = d]
    BY <1>2 DEF ClaimInHistory, TypeOK
  <2> HIDE DEF d
  <2> QED
    BY <1>1, <2>1, <2>2, NoneAssumption DEF NothingNew, RecordsStay, TypeOK
<1>3. CASE DeliverInHistory(p, r, s)
  <2> DEFINE d == [disk[r] EXCEPT !.delivery = "delivered"]
  <2>1. d \in Records /\ d.ticket = disk[r].ticket
    BY <1>1 DEF Records
  <2>2. disk' = [disk EXCEPT ![r] = d]
    BY <1>3 DEF DeliverInHistory, TypeOK
  <2> HIDE DEF d
  <2> QED
    BY <1>1, <2>1, <2>2, NoneAssumption DEF NothingNew, RecordsStay, TypeOK
<1> QED
  BY <1>2, <1>3

\* The new id is above every id in the history, so nothing names it yet.
LEMMA IdAccept ==
  ASSUME TInv, TInv', IdInv, NEW p \in Procs, NEW c \in Callers, Accept(p, c)
  PROVE  IdInv'
<1>1. PICK id \in Runs :
        /\ NextId(p, id)
        /\ disk' = [disk EXCEPT ![id] = Accepted(call[p][c].owner)]
        /\ call' = [call EXCEPT ![p][c].at = "accepted", ![p][c].id = id]
  BY DEF Accept
<1> DEFINE k == [call[p][c] EXCEPT !.at = "accepted", !.id = id]
<1>2. call[p][c] \in Calls /\ call[p][c].owner \in Sessions /\ call[p][c].at = "admitted"
  BY DEF Accept, TInv, TypeOK, CallsOK
<1>3. k.owner = call[p][c].owner /\ k.id = id
  BY <1>2, CallAcceptedFields
<1>4. call' = [call EXCEPT ![p] = [call[p] EXCEPT ![c] = k]]
  BY <1>1 DEF TInv, TypeOK
<1> HIDE DEF k
<1>5. disk[id] = None
  BY <1>1 DEF NextId, Runs
<1>6. disk'[id] # None /\ disk'[id].ticket = call[p][c].owner
  <2>1. Accepted(call[p][c].owner) \in Records
    BY <1>2, BoundsAssumption DEF Accepted, Records
  <2>2. Accepted(call[p][c].owner).ticket = call[p][c].owner
    BY DEF Accepted
  <2> QED
    BY <1>1, <2>1, <2>2, NoneAssumption DEF TInv, TypeOK
<1>7. \A r \in Runs : r # id => disk'[r] = disk[r]
  BY <1>1 DEF TInv, TypeOK
<1>8. runs' = runs /\ tees' = tees
  BY DEF Accept
<1>9. /\ \A q \in Procs : runs[q][id] = None
      /\ \A q \in Procs, d \in Callers : call[q][d].at = "accepted" => call[q][d].id # id
      /\ \A t \in tees : t.run # id
  BY <1>5 DEF IdInv, RouteDurable, TeesRouted
<1>10. /\ call'[p][c] = k
       /\ \A q \in Procs, d \in Callers : q # p \/ d # c => call'[q][d] = call[q][d]
  BY <1>4 DEF TInv, TypeOK
<1>11. RouteDurable'
  BY <1>3, <1>6, <1>7, <1>8, <1>9, <1>10 DEF IdInv, RouteDurable, TInv, CallsOK
<1>12. IdsUnique'
  <2>1. ASSUME NEW q \in Procs, NEW r \in Procs, NEW d \in Callers, call'[q][d].at = "accepted"
        PROVE  runs'[r][call'[q][d].id] = None
    BY <1>3, <1>8, <1>9, <1>10, <2>1 DEF IdInv, IdsUnique
  <2>2. ASSUME NEW q \in Procs, NEW r \in Procs, NEW d \in Callers, NEW e \in Callers,
               call'[q][d].at = "accepted", call'[r][e].at = "accepted",
               call'[r][e].id = call'[q][d].id
        PROVE  q = r /\ d = e
    BY <1>3, <1>9, <1>10, <2>2 DEF IdInv, IdsUnique
  <2> QED
    BY <1>8, <2>1, <2>2 DEF IdInv, IdsUnique
<1>13. TeesRouted'
  BY <1>7, <1>8, <1>9 DEF IdInv, TeesRouted, TInv, TypeOK, Tees
<1> QED
  BY <1>11, <1>12, <1>13 DEF IdInv

\* The id passes from the call to the registry of its own process.
LEMMA IdInsert ==
  ASSUME TInv, TInv', IdInv, NEW p \in Procs, NEW c \in Callers, Insert(p, c)
  PROVE  IdInv'
<1> DEFINE id == call[p][c].id
           e  == Entry(p, c)
<1>1. id \in Runs /\ call[p][c].at = "accepted"
  BY DEF Insert, TInv, CallsOK
<1>2. PICK gone \in SUBSET Runs :
        runs' = [runs EXCEPT ![p] = Evicted([runs[p] EXCEPT ![id] = e], gone)]
  BY DEF Insert
<1>3. e.ticket = call[p][c].owner
  BY DEF Entry, NewEntry
<1> HIDE DEF e
<1>4. \A r \in Runs : runs'[p][r] = IF r \in gone THEN None ELSE IF r = id THEN e ELSE runs[p][r]
  BY <1>1, <1>2 DEF Evicted, TInv, TypeOK
<1>5. \A q \in Procs : q # p => runs'[q] = runs[q]
  BY <1>2 DEF TInv, TypeOK
<1>6. /\ call' = [call EXCEPT ![p] = [call[p] EXCEPT ![c] = NotCalling]]
      /\ disk' = disk /\ tees' = tees
  BY DEF Insert, TInv, TypeOK
<1>7. \A q \in Procs, d \in Callers : call'[q][d].at = "accepted" =>
        (q # p \/ d # c) /\ call'[q][d] = call[q][d]
  BY <1>6 DEF NotCalling, TInv, TypeOK
<1>8. disk[id] # None /\ disk[id].ticket = call[p][c].owner /\ \A q \in Procs : runs[q][id] = None
  BY <1>1 DEF IdInv, RouteDurable, IdsUnique
<1> HIDE DEF id
<1>9. \A q \in Procs, r \in Runs : runs'[q][r] # None =>
        \/ q = p /\ r = id /\ runs'[q][r] = e
        \/ r # id /\ runs'[q][r] = runs[q][r]
  BY <1>4, <1>5, <1>8
<1>10. RouteDurable'
  BY <1>3, <1>6, <1>7, <1>8, <1>9 DEF IdInv, RouteDurable
<1>11. IdsUnique'
  <2>1. ASSUME NEW q \in Procs, NEW s \in Procs, NEW r \in Runs,
               runs'[q][r] # None, runs'[s][r] # None
        PROVE  q = s
    BY <1>9, <2>1 DEF IdInv, IdsUnique
  <2>2. ASSUME NEW q \in Procs, NEW s \in Procs, NEW d \in Callers, call'[q][d].at = "accepted"
        PROVE  runs'[s][call'[q][d].id] = None
    <3>1. call'[q][d].id # id /\ call'[q][d].id \in Runs
      BY <1>1, <1>7, <2>2 DEF IdInv, IdsUnique, TInv, CallsOK, id
    <3> QED
      BY <1>7, <1>9, <2>2, <3>1 DEF IdInv, IdsUnique
  <2>3. ASSUME NEW q \in Procs, NEW s \in Procs, NEW d \in Callers, NEW f \in Callers,
               call'[q][d].at = "accepted", call'[s][f].at = "accepted",
               call'[s][f].id = call'[q][d].id
        PROVE  q = s /\ d = f
    BY <1>7, <2>3 DEF IdInv, IdsUnique
  <2> QED
    BY <2>1, <2>2, <2>3 DEF IdsUnique
<1>12. TeesRouted'
  BY <1>6 DEF IdInv, TeesRouted
<1> QED
  BY <1>10, <1>11, <1>12 DEF IdInv

\* Every step keeps ids unique and routes durable.
LEMMA IdStep == TInv /\ TInv' /\ IdInv /\ [RegNext]_regVars => IdInv'
<1> SUFFICES ASSUME TInv, TInv', IdInv, [RegNext]_regVars PROVE IdInv'
  OBVIOUS
<1>1. ASSUME UNCHANGED <<runs, call, disk, tees>> PROVE IdInv'
  BY <1>1 DEF IdInv, RouteDurable, IdsUnique, TeesRouted
<1>2. ASSUME NEW p \in Procs, Crash(p) PROVE IdInv'
  <2>1. NothingNew
    BY <1>2 DEF Crash, NothingNew, NotCalling, TInv, TypeOK
  <2>2. RecordsStay
    BY <1>2 DEF Crash, RecordsStay
  <2> QED
    BY <2>1, <2>2, IdKept
<1>3. ASSUME NEW p \in Procs, NEW c \in Callers,
             Declare(p, c) \/ Refuse(p, c) \/ AcceptFails(p, c)
      PROVE  IdInv'
  <2>1. runs' = runs /\ disk' = disk /\ tees' = tees
    BY <1>3 DEF Declare, Refuse, AcceptFails
  <2>2. \A q \in Procs, d \in Callers : call'[q][d].at = "accepted" => call'[q][d] = call[q][d]
    <3>1. CASE Declare(p, c)
      BY <3>1 DEF Declare, TInv, TypeOK
    <3>2. CASE Refuse(p, c) \/ AcceptFails(p, c)
      <4>1. call' = [call EXCEPT ![p] = [call[p] EXCEPT ![c] = NotCalling]]
        BY <3>2 DEF Refuse, AcceptFails, TInv, TypeOK
      <4> QED
        BY <4>1 DEF NotCalling, TInv, TypeOK
    <3> QED
      BY <1>3, <3>1, <3>2
  <2>3. NothingNew /\ RecordsStay
    BY <2>1, <2>2 DEF NothingNew, RecordsStay
  <2> QED
    BY <2>3, IdKept
<1>4. ASSUME NEW p \in Procs, NEW c \in Callers, Admit(p, c) PROVE IdInv'
  <2> DEFINE k == [call[p][c] EXCEPT !.at = "admitted"]
  <2>1. call[p][c] \in Calls
    BY DEF TInv, TypeOK
  <2>2. k.at = "admitted"
    BY <2>1 DEF Calls
  <2>3. call' = [call EXCEPT ![p] = [call[p] EXCEPT ![c] = k]]
    BY <1>4 DEF Admit
  <2> HIDE DEF k
  <2>4. NothingNew /\ RecordsStay
    BY <1>4, <2>2, <2>3 DEF Admit, NothingNew, RecordsStay, TInv, TypeOK
  <2> QED
    BY <2>4, IdKept
<1>5. ASSUME NEW p \in Procs, NEW c \in Callers, Accept(p, c) PROVE IdInv'
  BY <1>5, IdAccept
<1>6. ASSUME NEW p \in Procs, NEW c \in Callers, Insert(p, c) PROVE IdInv'
  BY <1>6, IdInsert
<1>7. ASSUME NEW p \in Procs, NEW r \in Runs, WorkerEnds(p, r) \/ LaneFails(p, r) PROVE IdInv'
  BY <1>7, FinishNothingNew, IdKept DEF WorkerEnds, LaneFails, Terminal, TInv
<1>8. ASSUME NEW p \in Procs, NEW r \in Runs, Annotate(p, r) PROVE IdInv'
  BY <1>8, AnnotateNothingNew, IdKept DEF TInv
<1>9. ASSUME NEW p \in Procs, NEW r \in Runs, NEW s \in Sessions,
             \/ ClaimLive(p, r, s) \/ DeliverLive(p, r, s)
             \/ ClaimInHistory(p, r, s) \/ DeliverInHistory(p, r, s)
      PROVE  IdInv'
  BY <1>9, ClaimNothingNew, DeliverNothingNew, HistoryNothingNew, IdKept DEF TInv
<1>10. ASSUME NEW t \in tees, AppendTee(t) PROVE IdInv'
  <2>1. t.run \in Runs /\ t.rec \in Records /\ disk' = [disk EXCEPT ![t.run] = t.rec]
    BY <1>10 DEF AppendTee, TInv, TypeOK, Tees
  <2>2. RecordsStay
    BY <2>1, NoneAssumption DEF RecordsStay, IdInv, TeesRouted, TInv, TypeOK
  <2>3. NothingNew
    BY <1>10 DEF AppendTee, NothingNew
  <2> QED
    BY <2>2, <2>3, IdKept
<1>11. ASSUME NEW t \in tees, TeeFails(t) PROVE IdInv'
  BY <1>11, IdKept DEF TeeFails, NothingNew, RecordsStay
<1>12. ASSUME NEW s \in Sessions, AttachOwner(s) PROVE IdInv'
  BY <1>1, <1>12 DEF AttachOwner
<1>13. ASSUME NEW p \in Procs, DetachOwner(p) \/ SetTrust(p) PROVE IdInv'
  BY <1>1, <1>13 DEF DetachOwner, SetTrust
<1>14. CASE UNCHANGED regVars
  BY <1>1, <1>14 DEF regVars
<1> QED
  BY <1>2, <1>3, <1>4, <1>5, <1>6, <1>7, <1>8, <1>9, <1>10, <1>11, <1>12, <1>13, <1>14,
     HomeAssumption DEF RegNext, ClaimantsOf

\* No two runs of any processes ever share an id, although each process counts
\* for itself and forgets its count when it dies.
THEOREM IdsNeverCollide == RegSpec => []IdsUnique
<1>1. RegSpec => []IdInv
  BY TypeInit, TypeStep, IdInit, IdStep, PTL DEF RegSpec
<1> QED
  BY <1>1, PTL DEF IdInv

\* Every accepted run keeps a durable record that names the session it was
\* accepted for, whatever is annotated, claimed, evicted, rebound or crashes.
THEOREM RoutesAreDurable == RegSpec => []RouteDurable
<1>1. RegSpec => []IdInv
  BY TypeInit, TypeStep, IdInit, IdStep, PTL DEF RegSpec
<1> QED
  BY <1>1, PTL DEF IdInv

-----------------------------------------------------------------------------
(* The entry and its records.  A tee is built under _RUN_LOCK and appended  *)
(* after it, so a record can be overwritten by an older snapshot; the entry *)
(* the snapshots are taken from never goes back.  Nothing is assumed of the *)
(* order of the appends, of the other processes or of their claims.         *)

\* An entry d is not ahead of a later one e, nor is its delivery.
Behind(d, e) == Trails(d, e) /\ Rank(d.delivery) <= Rank(e.delivery)

\* The record of an id that start_run has not inserted is the accepted one, and
\* no snapshot of it is on its way.
IdsAreFresh ==
  \A p \in Procs, c \in Callers : call[p][c].at = "accepted" =>
    LET id == call[p][c].id
    IN  disk[id].status = "running" /\ disk[id].notes = 0 /\ \A t \in tees : t.run # id

TrailInv == JournalTrails /\ IdsAreFresh

\* Every entry after the step was one before it, and has not gone back.
EntriesMove ==
  \A p \in Procs, r \in Runs : runs'[p][r] # None =>
    runs[p][r] # None /\ Behind(runs[p][r], runs'[p][r])

\* A record changes its delivery alone, or is a snapshot that was on its way.
RecordsMove ==
  \A r \in Runs : disk[r] # None =>
    \/ disk'[r].status = disk[r].status /\ disk'[r].notes = disk[r].notes
    \/ \E t \in tees : t.run = r /\ disk'[r] = t.rec

\* A new snapshot is one of the entry as the step leaves it.
TeesMove ==
  \A t \in tees' : \/ t \in tees
                   \/ \E p \in Procs : /\ runs[p][t.run] # None /\ runs'[p][t.run] # None
                                       /\ t.rec = RecordOf(runs'[p][t.run])

TrailStep == NothingNew /\ RecordsStay /\ EntriesMove /\ RecordsMove /\ TeesMove

\* The three delivery states in order.
LEMMA RankValues ==
  /\ Rank("pending") = 0 /\ Rank("claimed") = 1 /\ Rank("delivered") = 2
  /\ \A d \in {"pending", "claimed", "delivered"} : Rank(d) \in 0 .. 2
BY DEF Rank

\* An entry is not ahead of itself.
LEMMA BehindItself ==
  ASSUME NEW d \in Entries PROVE Behind(d, d)
<1>1. Rank(d.delivery) \in 0 .. 2 /\ d.notes \in Int
  BY RankValues, BoundsAssumption DEF Entries
<1> QED
  BY <1>1 DEF Behind, Trails

\* What trails an entry trails what the entry becomes.
LEMMA TrailsOn ==
  ASSUME NEW d \in Records, NEW e \in Entries, NEW f \in Entries, Trails(d, e), Behind(e, f)
  PROVE  Trails(d, f)
<1>1. d.notes \in Int /\ e.notes \in Int /\ f.notes \in Int
  BY BoundsAssumption DEF Records, Entries
<1> QED
  BY <1>1 DEF Trails, Behind

\* A step that moves entries forward, and records as it may, keeps them in order.
LEMMA TrailKept ==
  ASSUME TInv, TInv', IdInv, IdInv', TrailInv, TrailStep
  PROVE  TrailInv'
<1>1. \A t \in tees : t.run \in Runs /\ t.rec \in Records
  BY DEF TInv, TypeOK, Tees
<1>2. ASSUME NEW p \in Procs, NEW r \in Runs, runs'[p][r] # None
      PROVE  /\ Trails(disk'[r], runs'[p][r])
             /\ \A t \in tees' : t.run = r => Trails(t.rec, runs'[p][r])
  <2>1. /\ runs[p][r] # None /\ Behind(runs[p][r], runs'[p][r])
        /\ runs[p][r] \in Entries /\ runs'[p][r] \in Entries
    BY <1>2 DEF TrailStep, EntriesMove, TInv, TypeOK
  <2>2. disk[r] # None /\ disk[r] \in Records
    BY <2>1 DEF IdInv, RouteDurable, TInv, TypeOK
  <2>3. /\ Trails(disk[r], runs[p][r])
        /\ \A t \in tees : t.run = r => Trails(t.rec, runs[p][r])
    BY <2>1 DEF TrailInv, JournalTrails
  <2>4. \A t \in tees : t.run = r => Trails(t.rec, runs'[p][r])
    BY <1>1, <2>1, <2>3, TrailsOn
  <2>5. Trails(disk[r], runs'[p][r])
    BY <2>1, <2>2, <2>3, TrailsOn
  <2>6. Trails(disk'[r], runs'[p][r])
    BY <2>2, <2>4, <2>5 DEF TrailStep, RecordsMove, Trails
  <2>7. ASSUME NEW t \in tees', t.run = r PROVE Trails(t.rec, runs'[p][r])
    <3>1. CASE t \in tees
      BY <2>4, <2>7, <3>1
    <3>2. CASE t \notin tees
      <4>1. PICK q \in Procs : runs'[q][r] # None /\ t.rec = RecordOf(runs'[q][r])
        BY <2>7, <3>2 DEF TrailStep, TeesMove
      <4>2. q = p
        BY <1>2, <4>1 DEF IdInv, IdsUnique
      <4>3. runs'[p][r].notes \in Int
        BY <2>1, BoundsAssumption DEF Entries
      <4> QED
        BY <4>1, <4>2, <4>3 DEF RecordOf, Trails
    <3> QED
      BY <3>1, <3>2
  <2> QED
    BY <2>6, <2>7
<1>3. ASSUME NEW p \in Procs, NEW c \in Callers, call'[p][c].at = "accepted"
      PROVE  LET id == call'[p][c].id
             IN  /\ disk'[id].status = "running" /\ disk'[id].notes = 0
                 /\ \A t \in tees' : t.run # id
  <2> DEFINE id == call[p][c].id
  <2>1. call[p][c].at = "accepted" /\ call'[p][c].id = id
    BY <1>3 DEF TrailStep, NothingNew
  <2>2. id \in Runs /\ disk[id] # None /\ \A q \in Procs : runs[q][id] = None
    BY <2>1 DEF IdInv, IdsUnique, RouteDurable, TInv, CallsOK
  <2>3. disk[id].status = "running" /\ disk[id].notes = 0 /\ \A t \in tees : t.run # id
    BY <2>1 DEF TrailInv, IdsAreFresh
  <2> HIDE DEF id
  <2>4. disk'[id].status = "running" /\ disk'[id].notes = 0
    BY <2>2, <2>3 DEF TrailStep, RecordsMove
  <2>5. \A t \in tees' : t.run # id
    BY <2>2, <2>3 DEF TrailStep, TeesMove
  <2> QED
    BY <2>1, <2>4, <2>5
<1>4. JournalTrails'
  BY <1>2 DEF JournalTrails, Trails
<1>5. IdsAreFresh'
  BY <1>3 DEF IdsAreFresh
<1> QED
  BY <1>4, <1>5 DEF TrailInv

\* A change under _RUN_LOCK that moves the entry forward moves nothing back.
LEMMA ChangeTrails ==
  ASSUME TInv, NEW p \in Procs, NEW r \in Runs, NEW by, NEW e \in Entries,
         Change(p, r, by, e), runs[p][r] # None, e.ticket = runs[p][r].ticket,
         Behind(runs[p][r], e), UNCHANGED <<call, disk>>
  PROVE  TrailStep
<1>1. NothingNew /\ RecordsStay
  BY ChangeNothingNew DEF TInv
<1>2. /\ runs'[p][r] = e /\ \A q \in Procs, x \in Runs : q # p \/ x # r => runs'[q][x] = runs[q][x]
  BY DEF Change, TInv, TypeOK
<1>3. EntriesMove
  BY <1>2, BehindItself DEF EntriesMove, TInv, TypeOK
<1>4. TeesMove
  <2>1. \A t \in tees' : t \in tees \/ (t.run = r /\ t.rec = RecordOf(e))
    BY DEF Change, Tee
  <2> QED
    BY <1>2, <2>1, NoneAssumption DEF TeesMove
<1>5. RecordsMove
  BY DEF RecordsMove
<1> QED
  BY <1>1, <1>3, <1>4, <1>5 DEF TrailStep

\* A step that leaves the entries, or drops them with their snapshots.
LEMMA StillTrails ==
  ASSUME TInv, NothingNew, RecordsStay, RecordsMove, tees' \subseteq tees,
         \A p \in Procs, r \in Runs : runs'[p][r] # None => runs'[p][r] = runs[p][r]
  PROVE  TrailStep
<1>1. EntriesMove
  BY BehindItself DEF EntriesMove, NothingNew, TInv, TypeOK
<1>2. TeesMove
  BY DEF TeesMove
<1> QED
  BY <1>1, <1>2 DEF TrailStep

\* The first finish lands the run; a second one changes nothing.
LEMMA FinishTrails ==
  ASSUME TInv, NEW p \in Procs, NEW r \in Runs, NEW status \in Terminal,
         FinishRun(p, r, status), UNCHANGED <<call, disk>>
  PROVE  TrailStep
<1>0. NothingNew /\ RecordsStay /\ RecordsMove
  BY FinishNothingNew DEF TInv, RecordsMove
<1>1. CASE runs[p][r] # None /\ runs[p][r].status \notin Terminal
  <2> DEFINE e == [runs[p][r] EXCEPT !.status = status]
  <2>1. runs[p][r] \in Entries
    BY <1>1 DEF TInv, TypeOK
  <2>2. /\ e \in Entries /\ e.ticket = runs[p][r].ticket
        /\ e.notes = runs[p][r].notes /\ e.delivery = runs[p][r].delivery
    BY <2>1 DEF Entries
  <2>3. Change(p, r, "worker", e)
    BY <1>1 DEF FinishRun
  <2> HIDE DEF e
  <2>4. Behind(runs[p][r], e)
    BY <1>1, <2>1, <2>2, BehindItself DEF Behind, Trails
  <2> QED
    BY <1>1, <2>2, <2>3, <2>4, ChangeTrails
<1>2. CASE ~(runs[p][r] # None /\ runs[p][r].status \notin Terminal)
  <2>1. UNCHANGED <<runs, tees>>
    BY <1>2 DEF FinishRun
  <2> QED
    BY <1>0, <2>1, StillTrails
<1> QED
  BY <1>1, <1>2

\* Annotations, claims and flips move an entry forward.
LEMMA VoiceTrails ==
  ASSUME TInv, NEW p \in Procs, NEW r \in Runs, NEW s \in Sessions,
         Annotate(p, r) \/ ClaimLive(p, r, s) \/ DeliverLive(p, r, s)
  PROVE  TrailStep
<1>1. runs[p][r] # None /\ runs[p][r] \in Entries /\ UNCHANGED <<call, disk>>
  BY DEF Annotate, ClaimLive, CanClaimLive, DeliverLive, CanDeliverLive, TInv, TypeOK
<1>2. runs[p][r].notes \in Int /\ Behind(runs[p][r], runs[p][r])
  BY <1>1, BehindItself, BoundsAssumption DEF Entries
<1>3. CASE Annotate(p, r)
  <2> DEFINE e == [runs[p][r] EXCEPT !.notes = runs[p][r].notes + 1]
  <2>1. e \in Entries
    BY <1>1, <1>3, EntryNoted DEF Annotate
  <2>2. /\ e.ticket = runs[p][r].ticket /\ e.status = runs[p][r].status
        /\ e.notes = runs[p][r].notes + 1 /\ e.delivery = runs[p][r].delivery
    BY <1>1 DEF Entries
  <2>3. Change(p, r, "tool", e)
    BY <1>3 DEF Annotate
  <2> HIDE DEF e
  <2>4. Behind(runs[p][r], e)
    BY <1>2, <2>2 DEF Behind, Trails
  <2> QED
    BY <1>1, <2>1, <2>2, <2>3, <2>4, ChangeTrails
<1>4. CASE ClaimLive(p, r, s)
  <2> DEFINE e == [runs[p][r] EXCEPT !.delivery = "claimed", !.claimant = s]
  <2>1. e \in Entries
    BY <1>1, EntryClaimed
  <2>2. /\ e.ticket = runs[p][r].ticket /\ e.status = runs[p][r].status
        /\ e.notes = runs[p][r].notes /\ e.delivery = "claimed" /\ runs[p][r].delivery = "pending"
    BY <1>1, <1>4 DEF Entries, ClaimLive, CanClaimLive
  <2>3. Change(p, r, "voice", e)
    BY <1>4 DEF ClaimLive
  <2> HIDE DEF e
  <2>4. Behind(runs[p][r], e)
    BY <1>2, <2>2, RankValues DEF Behind, Trails
  <2> QED
    BY <1>1, <2>1, <2>2, <2>3, <2>4, ChangeTrails
<1>5. CASE DeliverLive(p, r, s)
  <2> DEFINE e == [runs[p][r] EXCEPT !.delivery = "delivered"]
  <2>1. e \in Entries
    BY <1>1, EntryDelivered
  <2>2. /\ e.ticket = runs[p][r].ticket /\ e.status = runs[p][r].status
        /\ e.notes = runs[p][r].notes /\ e.delivery = "delivered" /\ runs[p][r].delivery = "claimed"
    BY <1>1, <1>5 DEF Entries, DeliverLive, CanDeliverLive
  <2>3. Change(p, r, "voice", e)
    BY <1>5 DEF DeliverLive
  <2> HIDE DEF e
  <2>4. Behind(runs[p][r], e)
    BY <1>2, <2>2, RankValues DEF Behind, Trails
  <2> QED
    BY <1>1, <2>1, <2>2, <2>3, <2>4, ChangeTrails
<1> QED
  BY <1>3, <1>4, <1>5

\* A claim or a flip in the history touches the delivery of the record alone.
LEMMA HistoryTrails ==
  ASSUME TInv, NEW p \in Procs, NEW r \in Runs, NEW s \in Sessions,
         ClaimInHistory(p, r, s) \/ DeliverInHistory(p, r, s)
  PROVE  TrailStep
<1>1. disk[r] \in Records /\ UNCHANGED <<runs, tees>>
  BY DEF ClaimInHistory, CanClaimInHistory, DeliverInHistory, CanDeliverInHistory, TInv, TypeOK
<1>2. \A x \in Runs : x # r => disk'[x] = disk[x]
  BY DEF ClaimInHistory, DeliverInHistory, TInv, TypeOK
<1>3. disk'[r].status = disk[r].status /\ disk'[r].notes = disk[r].notes
  BY <1>1 DEF ClaimInHistory, DeliverInHistory, TInv, TypeOK, Records
<1>4. RecordsMove
  BY <1>2, <1>3 DEF RecordsMove
<1> QED
  BY <1>1, <1>4, HistoryNothingNew, StillTrails DEF TInv

\* The id is new: no entry and no snapshot names it, and its record is fresh.
LEMMA TrailAccept ==
  ASSUME TInv, IdInv, TrailInv, NEW p \in Procs, NEW c \in Callers, Accept(p, c)
  PROVE  TrailInv'
<1>1. PICK id \in Runs :
        /\ NextId(p, id)
        /\ disk' = [disk EXCEPT ![id] = Accepted(call[p][c].owner)]
        /\ call' = [call EXCEPT ![p][c].at = "accepted", ![p][c].id = id]
  BY DEF Accept
<1> DEFINE k == [call[p][c] EXCEPT !.at = "accepted", !.id = id]
<1>2. k.id = id
  BY CallAcceptedFields DEF TInv, TypeOK
<1>3. call' = [call EXCEPT ![p] = [call[p] EXCEPT ![c] = k]]
  BY <1>1 DEF TInv, TypeOK
<1> HIDE DEF k
<1>4. disk[id] = None /\ UNCHANGED <<runs, tees>>
  BY <1>1, BoundsAssumption DEF Accept, NextId, Runs
<1>5. /\ disk'[id].status = "running" /\ disk'[id].notes = 0
      /\ \A r \in Runs : r # id => disk'[r] = disk[r]
  BY <1>1 DEF Accepted, TInv, TypeOK
<1>6. (\A q \in Procs : runs[q][id] = None) /\ \A t \in tees : t.run # id
  BY <1>4 DEF IdInv, RouteDurable, TeesRouted
<1>7. /\ call'[p][c] = k
      /\ \A q \in Procs, d \in Callers : q # p \/ d # c => call'[q][d] = call[q][d]
  BY <1>3 DEF TInv, TypeOK
<1>8. JournalTrails'
  BY <1>4, <1>5, <1>6 DEF TrailInv, JournalTrails, Trails
<1>9. IdsAreFresh'
  <2> SUFFICES ASSUME NEW q \in Procs, NEW d \in Callers, call'[q][d].at = "accepted"
               PROVE  /\ disk'[call'[q][d].id].status = "running" /\ disk'[call'[q][d].id].notes = 0
                      /\ \A t \in tees' : t.run # call'[q][d].id
    BY DEF IdsAreFresh
  <2>1. CASE q = p /\ d = c
    BY <1>2, <1>4, <1>5, <1>6, <1>7, <2>1
  <2>2. CASE q # p \/ d # c
    <3>1. call'[q][d] = call[q][d] /\ call[q][d].id \in Runs /\ disk[call[q][d].id] # None
      BY <1>7, <2>2 DEF IdInv, RouteDurable, TInv, CallsOK
    <3> QED
      BY <1>4, <1>5, <3>1 DEF TrailInv, IdsAreFresh
  <2> QED
    BY <2>1, <2>2
<1> QED
  BY <1>8, <1>9 DEF TrailInv

\* The entry starts where its record stands; the others stay or are evicted.
LEMMA TrailInsert ==
  ASSUME TInv, IdInv, TrailInv, NEW p \in Procs, NEW c \in Callers, Insert(p, c)
  PROVE  /\ TrailInv'
         /\ \A q \in Procs, r \in Runs : runs[q][r] # None /\ runs'[q][r] # None =>
              runs'[q][r] = runs[q][r]
<1> DEFINE id == call[p][c].id
           e  == Entry(p, c)
<1>1. id \in Runs /\ call[p][c].at = "accepted"
  BY DEF Insert, TInv, CallsOK
<1>2. PICK gone \in SUBSET Runs :
        runs' = [runs EXCEPT ![p] = Evicted([runs[p] EXCEPT ![id] = e], gone)]
  BY DEF Insert
<1>3. e.status = "running" /\ e.notes = 0
  BY DEF Entry, NewEntry
<1>4. /\ \A q \in Procs : runs[q][id] = None
      /\ disk[id].status = "running" /\ disk[id].notes = 0 /\ \A t \in tees : t.run # id
  BY <1>1 DEF IdInv, IdsUnique, TrailInv, IdsAreFresh
<1>5. /\ call' = [call EXCEPT ![p] = [call[p] EXCEPT ![c] = NotCalling]]
      /\ disk' = disk /\ tees' = tees
  BY DEF Insert, TInv, TypeOK
<1> HIDE DEF e
<1>6. \A r \in Runs : runs'[p][r] = IF r \in gone THEN None ELSE IF r = id THEN e ELSE runs[p][r]
  BY <1>1, <1>2 DEF Evicted, TInv, TypeOK
<1>7. \A q \in Procs : q # p => runs'[q] = runs[q]
  BY <1>2 DEF TInv, TypeOK
<1>8. \A q \in Procs, d \in Callers : call'[q][d].at = "accepted" => call'[q][d] = call[q][d]
  BY <1>5 DEF NotCalling, TInv, TypeOK
<1> HIDE DEF id
<1>9. \A q \in Procs, r \in Runs : runs'[q][r] # None =>
        \/ r = id /\ runs'[q][r] = e
        \/ r # id /\ runs'[q][r] = runs[q][r]
  BY <1>4, <1>6, <1>7
<1>10. JournalTrails'
  BY <1>3, <1>4, <1>5, <1>9 DEF TrailInv, JournalTrails, Trails, Terminal
<1>11. IdsAreFresh'
  BY <1>5, <1>8 DEF TrailInv, IdsAreFresh
<1> QED
  BY <1>4, <1>9, <1>10, <1>11 DEF TrailInv

\* What one step may do to an entry it keeps.
EntriesStay ==
  \A p \in Procs, r \in Runs :
    runs[p][r] # None /\ runs'[p][r] # None => Behind(runs[p][r], runs'[p][r])

\* Every step keeps the journal behind the entries, and no entry goes back.
LEMMA TrailSteps ==
  ASSUME TInv, TInv', IdInv, IdInv', TrailInv, [RegNext]_regVars
  PROVE  TrailInv' /\ EntriesStay
<1>1. TrailStep => TrailInv' /\ EntriesStay
  BY TrailKept DEF TrailStep, EntriesMove, EntriesStay
<1>2. ASSUME UNCHANGED <<runs, call, disk, tees>> PROVE TrailInv' /\ EntriesStay
  <2>1. TrailInv'
    BY <1>2 DEF TrailInv, JournalTrails, IdsAreFresh
  <2> QED
    BY <1>2, <2>1, BehindItself DEF EntriesStay, TInv, TypeOK
<1>3. ASSUME NEW p \in Procs, Crash(p) PROVE TrailStep
  <2>1. NothingNew
    BY <1>3 DEF Crash, NothingNew, NotCalling, TInv, TypeOK
  <2>2. RecordsStay /\ RecordsMove /\ tees' \subseteq tees
    BY <1>3 DEF Crash, RecordsStay, RecordsMove
  <2>3. \A q \in Procs, r \in Runs : runs'[q][r] # None => runs'[q][r] = runs[q][r]
    BY <1>3 DEF Crash, TInv, TypeOK
  <2> QED
    BY <2>1, <2>2, <2>3, StillTrails
<1>4. ASSUME NEW p \in Procs, NEW c \in Callers,
             Declare(p, c) \/ Refuse(p, c) \/ AcceptFails(p, c) \/ Admit(p, c)
      PROVE  TrailStep
  <2>1. runs' = runs /\ disk' = disk /\ tees' = tees
    BY <1>4 DEF Declare, Refuse, AcceptFails, Admit
  <2>2. \A q \in Procs, d \in Callers : call'[q][d].at = "accepted" => call'[q][d] = call[q][d]
    <3>1. CASE Declare(p, c)
      BY <3>1 DEF Declare, TInv, TypeOK
    <3>2. CASE Refuse(p, c) \/ AcceptFails(p, c)
      <4>1. call' = [call EXCEPT ![p] = [call[p] EXCEPT ![c] = NotCalling]]
        BY <3>2 DEF Refuse, AcceptFails, TInv, TypeOK
      <4> QED
        BY <4>1 DEF NotCalling, TInv, TypeOK
    <3>3. CASE Admit(p, c)
      <4> DEFINE k == [call[p][c] EXCEPT !.at = "admitted"]
      <4>1. k.at = "admitted"
        BY DEF TInv, TypeOK, Calls
      <4>2. call' = [call EXCEPT ![p] = [call[p] EXCEPT ![c] = k]]
        BY <3>3 DEF Admit
      <4> HIDE DEF k
      <4> QED
        BY <4>1, <4>2 DEF TInv, TypeOK
    <3> QED
      BY <1>4, <3>1, <3>2, <3>3
  <2>3. NothingNew /\ RecordsStay /\ RecordsMove
    BY <2>1, <2>2 DEF NothingNew, RecordsStay, RecordsMove
  <2> QED
    BY <2>1, <2>3, StillTrails
<1>5. ASSUME NEW p \in Procs, NEW c \in Callers, Accept(p, c) PROVE TrailInv' /\ EntriesStay
  <2>1. UNCHANGED runs
    BY <1>5 DEF Accept
  <2> QED
    BY <1>5, <2>1, TrailAccept, BehindItself DEF EntriesStay, TInv, TypeOK
<1>6. ASSUME NEW p \in Procs, NEW c \in Callers, Insert(p, c) PROVE TrailInv' /\ EntriesStay
  BY <1>6, TrailInsert, BehindItself DEF EntriesStay, TInv, TypeOK
<1>7. ASSUME NEW p \in Procs, NEW r \in Runs, WorkerEnds(p, r) \/ LaneFails(p, r) PROVE TrailStep
  BY <1>7, FinishTrails DEF WorkerEnds, LaneFails, Terminal
<1>8. ASSUME NEW p \in Procs, NEW r \in Runs, NEW s \in Sessions,
             \/ Annotate(p, r) \/ ClaimLive(p, r, s) \/ DeliverLive(p, r, s)
             \/ ClaimInHistory(p, r, s) \/ DeliverInHistory(p, r, s)
      PROVE  TrailStep
  BY <1>8, VoiceTrails, HistoryTrails
<1>9. ASSUME NEW t \in tees, AppendTee(t) \/ TeeFails(t) PROVE TrailStep
  <2>1. /\ t.run \in Runs /\ t.rec \in Records
        /\ UNCHANGED <<runs, call>> /\ tees' \subseteq tees
    BY <1>9 DEF AppendTee, TeeFails, TInv, TypeOK, Tees
  <2>2. disk' = [disk EXCEPT ![t.run] = t.rec] \/ disk' = disk
    BY <1>9 DEF AppendTee, TeeFails
  <2>3. RecordsMove /\ NothingNew
    BY <2>1, <2>2 DEF RecordsMove, NothingNew, TInv, TypeOK
  <2>4. RecordsStay
    <3>1. t.rec # None /\ t.rec.ticket = disk[t.run].ticket
      BY <2>1, NoneAssumption DEF IdInv, TeesRouted
    <3> QED
      BY <2>1, <2>2, <3>1 DEF RecordsStay, TInv, TypeOK
  <2> QED
    BY <2>1, <2>3, <2>4, StillTrails
<1>10. CASE UNCHANGED regVars
  BY <1>2, <1>10 DEF regVars
<1>11. CASE \E p \in Procs, r \in Runs : Annotate(p, r)
  <2>1. PICK p \in Procs, r \in Runs : Annotate(p, r)
    BY <1>11
  <2>2. \E s : s \in Sessions
    BY <2>1 DEF Annotate, TInv, TypeOK, Entries
  <2> QED
    BY <1>1, <1>8, <2>1, <2>2
<1>12. CASE \E p \in Procs : DetachOwner(p) \/ SetTrust(p)
  BY <1>2, <1>12 DEF DetachOwner, SetTrust
<1>13. CASE \E s \in Sessions : AttachOwner(s)
  BY <1>2, <1>13 DEF AttachOwner
<1> QED
  BY <1>1, <1>3, <1>4, <1>5, <1>6, <1>7, <1>8, <1>9, <1>10, <1>11, <1>12, <1>13,
     HomeAssumption DEF RegNext, ClaimantsOf

\* Nothing is recorded at the start.
LEMMA TrailInit == RegInit => TrailInv
BY DEF RegInit, TrailInv, JournalTrails, IdsAreFresh, NotCalling

\* Whatever order the snapshots are appended in, which of them are lost, and
\* what other processes claim: no record is ever ahead of the entry its process
\* holds, so a landing or a receipt the journal loses (stale_tee) is one the
\* registry still has.
THEOREM JournalTrailsTheEntry == RegSpec => []JournalTrails
<1> DEFINE Inv == TInv /\ IdInv /\ TrailInv
<1>1. Inv /\ [RegNext]_regVars => Inv'
  BY TypeStep, IdStep, TrailSteps
<1> QED
  BY <1>1, TypeInit, IdInit, TrailInit, PTL DEF RegSpec, TrailInv

\* "First writer wins" of finish_run, and the two-phase delivery, hold of the
\* entry itself: once landed it keeps its status and its delivery only advances.
THEOREM LandedRunsStick == RegSpec => LandedRunSticks
<1> DEFINE Inv == TInv /\ IdInv /\ TrailInv
           Sticks == \A p \in Procs, r \in Runs :
             /\ runs[p][r] # None /\ runs'[p][r] # None
             /\ runs[p][r].status \in Terminal
             => /\ runs'[p][r].status = runs[p][r].status
                /\ Rank(runs'[p][r].delivery) >= Rank(runs[p][r].delivery)
<1>1. Inv /\ [RegNext]_regVars => Inv'
  BY TypeStep, IdStep, TrailSteps
<1>2. Inv /\ [RegNext]_regVars => [Sticks]_regVars
  <2> SUFFICES ASSUME Inv, [RegNext]_regVars PROVE Sticks
    OBVIOUS
  <2>1. EntriesStay /\ TInv'
    BY TypeStep, IdStep, TrailSteps
  <2>2. ASSUME NEW d \in Entries, NEW e \in Entries, Behind(d, e), d.status \in Terminal
        PROVE  e.status = d.status /\ Rank(e.delivery) >= Rank(d.delivery)
    <3>1. Rank(d.delivery) \in 0 .. 2 /\ Rank(e.delivery) \in 0 .. 2
      BY RankValues DEF Entries
    <3> QED
      BY <2>2, <3>1 DEF Behind, Trails
  <2> QED
    BY <2>1, <2>2 DEF EntriesStay, TInv, TypeOK
<1> QED
  BY <1>1, <1>2, TypeInit, IdInit, TrailInit, PTL DEF RegSpec, LandedRunSticks, Sticks

\* A history write that fails in the session's own thread changes nothing else.
OnlyFaults ==
  /\ faults < MaxFaults /\ faults' = faults + 1
  /\ UNCHANGED <<runs, call, reserved, seq, owner, trust, work, disk, tees>>

\* Run r of p has delivery d by s from now on, and no other entry changes.
MovedTo(p, r, d, s) ==
  /\ runs[p][r] # None
  /\ runs'[p][r] # None /\ runs'[p][r].delivery = d /\ runs'[p][r].claimant = s
  /\ runs'[p][r].ticket = runs[p][r].ticket
  /\ \A q \in Procs, x \in Runs : q # p \/ x # r => runs'[q][x] = runs[q][x]

\* The tee a change by session s leaves behind.
TeedAs(p, r, d, s) ==
  /\ \A t \in tees' : t \in tees \/ ( /\ t.proc = p /\ t.run = r /\ t.by = "voice"
                                    /\ t.rec.delivery = d /\ t.rec.claimant = s)
  /\ \E t \in tees' : t.run = r /\ t.by = "voice" /\ t.rec.delivery = d

\* A claim or a flip in the registry changes one entry and leaves its tee.
LEMMA VoiceChange ==
  ASSUME TInv, NEW p \in Procs, NEW r \in Runs, NEW s \in Sessions,
         ClaimLive(p, r, s) \/ DeliverLive(p, r, s)
  PROVE  /\ UNCHANGED <<call, owner, disk, faults>>
         /\ ClaimLive(p, r, s) => MovedTo(p, r, "claimed", s) /\ TeedAs(p, r, "claimed", s)
         /\ DeliverLive(p, r, s) => MovedTo(p, r, "delivered", s) /\ TeedAs(p, r, "delivered", s)
<1>1. CASE ClaimLive(p, r, s)
  <2> DEFINE e == [runs[p][r] EXCEPT !.delivery = "claimed", !.claimant = s]
  <2>1. runs[p][r] # None /\ runs[p][r] \in Entries
    BY <1>1 DEF ClaimLive, CanClaimLive, TInv, TypeOK
  <2>2. e.delivery = "claimed" /\ e.claimant = s /\ e.ticket = runs[p][r].ticket
    BY <2>1 DEF Entries
  <2>3. e \in Entries
    BY <2>1, EntryClaimed
  <2>4. Change(p, r, "voice", e) /\ UNCHANGED <<call, owner, disk, faults>>
    BY <1>1 DEF ClaimLive
  <2>5. ~DeliverLive(p, r, s)
    BY <1>1 DEF ClaimLive, CanClaimLive, DeliverLive, CanDeliverLive
  <2> HIDE DEF e
  <2>6. e # None
    BY <2>3, NoneAssumption
  <2>7. MovedTo(p, r, "claimed", s)
    BY <2>1, <2>2, <2>4, <2>6 DEF MovedTo, Change, TInv, TypeOK
  <2>8. /\ Tee(p, r, "voice", e).proc = p /\ Tee(p, r, "voice", e).run = r
        /\ Tee(p, r, "voice", e).by = "voice"
        /\ Tee(p, r, "voice", e).rec.delivery = "claimed"
        /\ Tee(p, r, "voice", e).rec.claimant = s
    BY <2>2 DEF Tee, RecordOf
  <2>9. TeedAs(p, r, "claimed", s)
    BY <2>4, <2>8 DEF TeedAs, Change
  <2> QED
    BY <2>4, <2>5, <2>7, <2>9
<1>2. CASE DeliverLive(p, r, s)
  <2> DEFINE e == [runs[p][r] EXCEPT !.delivery = "delivered"]
  <2>1. runs[p][r] # None /\ runs[p][r] \in Entries /\ runs[p][r].claimant = s
    BY <1>2 DEF DeliverLive, CanDeliverLive, TInv, TypeOK
  <2>2. e.delivery = "delivered" /\ e.claimant = s /\ e.ticket = runs[p][r].ticket
    BY <2>1 DEF Entries
  <2>3. e \in Entries
    BY <2>1, EntryDelivered
  <2>4. Change(p, r, "voice", e) /\ UNCHANGED <<call, owner, disk, faults>>
    BY <1>2 DEF DeliverLive
  <2>5. ~ClaimLive(p, r, s)
    BY <1>2 DEF ClaimLive, CanClaimLive, DeliverLive, CanDeliverLive
  <2> HIDE DEF e
  <2>6. e # None
    BY <2>3, NoneAssumption
  <2>7. MovedTo(p, r, "delivered", s)
    BY <2>1, <2>2, <2>4, <2>6 DEF MovedTo, Change, TInv, TypeOK
  <2>8. /\ Tee(p, r, "voice", e).proc = p /\ Tee(p, r, "voice", e).run = r
        /\ Tee(p, r, "voice", e).by = "voice"
        /\ Tee(p, r, "voice", e).rec.delivery = "delivered"
        /\ Tee(p, r, "voice", e).rec.claimant = s
    BY <2>2 DEF Tee, RecordOf
  <2>9. TeedAs(p, r, "delivered", s)
    BY <2>4, <2>8 DEF TeedAs, Change
  <2> QED
    BY <2>4, <2>5, <2>7, <2>9
<1> QED
  BY <1>1, <1>2

\* Record r of the history has delivery d by s from now on, and no other changes.
RecordedAs(r, d, s) ==
  /\ UNCHANGED <<runs, call, owner, tees, faults>>
  /\ disk[r] # None /\ disk'[r] # None
  /\ disk'[r].delivery = d /\ disk'[r].claimant = s
  /\ disk'[r].ticket = disk[r].ticket /\ disk'[r].status = disk[r].status
  /\ \A x \in Runs : x # r => disk'[x] = disk[x]

\* A claim or a flip in the history changes the delivery columns of one record.
LEMMA VoiceRecord ==
  ASSUME TInv, NEW p \in Procs, NEW r \in Runs, NEW s \in Sessions
  PROVE  /\ ClaimInHistory(p, r, s) => RecordedAs(r, "claimed", s)
         /\ DeliverInHistory(p, r, s) => RecordedAs(r, "delivered", s)
<1>1. ASSUME ClaimInHistory(p, r, s) PROVE RecordedAs(r, "claimed", s)
  <2> DEFINE d == [disk[r] EXCEPT !.delivery = "claimed", !.claimant = s]
  <2>1. disk[r] # None /\ disk[r] \in Records
    BY <1>1 DEF ClaimInHistory, CanClaimInHistory, TInv, TypeOK
  <2>2. /\ d \in Records /\ d.delivery = "claimed" /\ d.claimant = s
        /\ d.ticket = disk[r].ticket /\ d.status = disk[r].status
    BY <2>1 DEF Records
  <2>3. disk' = [disk EXCEPT ![r] = d] /\ UNCHANGED <<runs, call, owner, tees, faults>>
    BY <1>1 DEF ClaimInHistory, TInv, TypeOK
  <2> HIDE DEF d
  <2>4. d # None
    BY <2>2, NoneAssumption
  <2> QED
    BY <2>1, <2>2, <2>3, <2>4 DEF RecordedAs, TInv, TypeOK
<1>2. ASSUME DeliverInHistory(p, r, s) PROVE RecordedAs(r, "delivered", s)
  <2> DEFINE d == [disk[r] EXCEPT !.delivery = "delivered"]
  <2>1. disk[r] # None /\ disk[r] \in Records /\ disk[r].claimant = s
    BY <1>2 DEF DeliverInHistory, CanDeliverInHistory, TInv, TypeOK
  <2>2. /\ d \in Records /\ d.delivery = "delivered" /\ d.claimant = s
        /\ d.ticket = disk[r].ticket /\ d.status = disk[r].status
    BY <2>1 DEF Records
  <2>3. disk' = [disk EXCEPT ![r] = d] /\ UNCHANGED <<runs, call, owner, tees, faults>>
    BY <1>2 DEF DeliverInHistory, TInv, TypeOK
  <2> HIDE DEF d
  <2>4. d # None
    BY <2>2, NoneAssumption
  <2> QED
    BY <2>1, <2>2, <2>3, <2>4 DEF RecordedAs, TInv, TypeOK
<1> QED
  BY <1>1, <1>2

\* What the threads of the process do behind a session's back: entries keep
\* their delivery, the history only grows, a tee carries an entry's delivery
\* and an id handed to start_run is new to the history.
SameDelivery ==
  \A q \in Procs, x \in Runs :
    /\ runs'[q][x] # None <=> runs[q][x] # None
    /\ runs'[q][x] # None => /\ runs'[q][x].delivery = runs[q][x].delivery
                            /\ runs'[q][x].claimant = runs[q][x].claimant
                            /\ runs'[q][x].ticket = runs[q][x].ticket

TeesFollow ==
  /\ \A t \in tees' : \/ t \in tees
                     \/ /\ t.by # "voice" /\ runs[t.proc][t.run] # None
                        /\ t.rec.delivery = runs[t.proc][t.run].delivery
  /\ \A t \in tees : t \in tees'
  /\ \A q \in Procs, x \in Runs : runs'[q][x] = runs[q][x] \/ \E t \in tees' : t.run = x

HistoryGrows ==
  \A x \in Runs : \/ disk'[x] = disk[x]
                  \/ /\ disk[x] = None /\ disk'[x] # None /\ disk'[x].delivery = "pending"
                     /\ \E q \in Procs, c \in Callers : /\ call[q][c].at # "idle"
                                                       /\ disk'[x].ticket = call[q][c].owner

CallsMove ==
  \A q \in Procs, c \in Callers :
    /\ call'[q][c].at = "accepted" =>
         \/ call[q][c].at = "accepted" /\ call'[q][c].id = call[q][c].id
         \/ call'[q][c].id \in Runs /\ disk[call'[q][c].id] = None
    /\ call'[q][c].owner \in {None, call[q][c].owner, owner[q]}

Behindhand == SameDelivery /\ TeesFollow /\ HistoryGrows /\ CallsMove
              /\ UNCHANGED owner /\ faults' \in {faults, faults + 1}

\* A change of an entry that leaves its delivery alone.
LEMMA ChangeBehind ==
  ASSUME TInv, NEW p \in Procs, NEW r \in Runs, NEW by \in {"worker", "tool"}, NEW e \in Entries,
         Change(p, r, by, e), runs[p][r] # None,
         e.delivery = runs[p][r].delivery, e.claimant = runs[p][r].claimant,
         e.ticket = runs[p][r].ticket,
         UNCHANGED <<call, owner, disk, faults>>
  PROVE  Behindhand
<1>1. e # None
  BY NoneAssumption
<1>2. SameDelivery
  BY <1>1 DEF SameDelivery, Change, TInv, TypeOK
<1>3. /\ Tee(p, r, by, e).proc = p /\ Tee(p, r, by, e).run = r
      /\ Tee(p, r, by, e).by = by /\ Tee(p, r, by, e).rec.delivery = e.delivery
  BY DEF Tee, RecordOf
<1>4. tees' = tees \union {Tee(p, r, by, e)} /\ \A q \in Procs, x \in Runs :
        q # p \/ x # r => runs'[q][x] = runs[q][x]
  BY DEF Change, TInv, TypeOK
<1>5. TeesFollow
  BY <1>3, <1>4 DEF TeesFollow
<1>6. HistoryGrows /\ CallsMove
  BY DEF HistoryGrows, CallsMove
<1> QED
  BY <1>2, <1>5, <1>6 DEF Behindhand

\* finish_run leaves delivery alone, whether it is first or late.
LEMMA FinishBehind ==
  ASSUME TInv, NEW p \in Procs, NEW r \in Runs, NEW status \in Terminal,
         FinishRun(p, r, status), UNCHANGED <<call, owner, disk, faults>>
  PROVE  Behindhand
<1>1. CASE runs[p][r] # None /\ runs[p][r].status \notin Terminal
  <2> DEFINE e == [runs[p][r] EXCEPT !.status = status]
  <2>1. runs[p][r] \in Entries
    BY <1>1 DEF TInv, TypeOK
  <2>2. /\ e \in Entries /\ e.delivery = runs[p][r].delivery
        /\ e.claimant = runs[p][r].claimant /\ e.ticket = runs[p][r].ticket
    BY <2>1 DEF Entries
  <2>3. Change(p, r, "worker", e)
    BY <1>1 DEF FinishRun
  <2> HIDE DEF e
  <2> QED
    BY <1>1, <2>2, <2>3, ChangeBehind
<1>2. CASE ~(runs[p][r] # None /\ runs[p][r].status \notin Terminal)
  BY <1>2 DEF FinishRun, Behindhand, SameDelivery, TeesFollow, HistoryGrows, CallsMove
<1> QED
  BY <1>1, <1>2

\* Every step a tool thread or a worker takes is one of those.
LEMMA BackgroundBehind ==
  ASSUME TInv, NEW p \in Procs, Background(p)
  PROVE  Behindhand
<1>0. ASSUME UNCHANGED <<runs, tees, owner>>, HistoryGrows, CallsMove, faults' \in {faults, faults + 1}
      PROVE  Behindhand
  BY <1>0 DEF Behindhand, SameDelivery, TeesFollow
<1>1. ASSUME NEW c \in Callers, Declare(p, c) PROVE Behindhand
  <2>1. PICK mode \in Modes, keys \in SUBSET Keys :
          call' = [call EXCEPT ![p][c] =
                     [at |-> "declared", owner |-> owner[p],
                      mode |-> ResolveMode(p, mode), keys |-> keys, id |-> 0]]
    BY <1>1 DEF Declare
  <2> DEFINE k == [at |-> "declared", owner |-> owner[p], mode |-> ResolveMode(p, mode),
                   keys |-> keys, id |-> 0]
  <2>3. call' = [call EXCEPT ![p][c] = k] /\ k.at = "declared" /\ k.owner = owner[p]
    BY <2>1
  <2> HIDE DEF k
  <2>2. CallsMove
    BY <2>3 DEF CallsMove, TInv, TypeOK
  <2> QED
    BY <1>0, <1>1, <2>2 DEF Declare, HistoryGrows
<1>2. ASSUME NEW c \in Callers, Admit(p, c) PROVE Behindhand
  <2>1. PICK k : k = [call[p][c] EXCEPT !.at = "admitted"]
    OBVIOUS
  <2>2. call[p][c] \in Calls
    BY DEF TInv, TypeOK
  <2>3. call' = [call EXCEPT ![p] = [call[p] EXCEPT ![c] = k]]
        /\ k.at = "admitted" /\ k.owner = call[p][c].owner
    BY <1>2, <2>1, <2>2 DEF Admit, Calls
  <2>4. CallsMove
    BY <2>3 DEF CallsMove, TInv, TypeOK
  <2> QED
    BY <1>0, <1>2, <2>4 DEF Admit, HistoryGrows
<1>3. ASSUME NEW c \in Callers, Refuse(p, c) \/ AcceptFails(p, c) PROVE Behindhand
  <2>1. call' = [call EXCEPT ![p] = [call[p] EXCEPT ![c] = NotCalling]]
    BY <1>3 DEF Refuse, AcceptFails, TInv, TypeOK
  <2>2. NotCalling.at = "idle" /\ NotCalling.owner = None
    BY DEF NotCalling
  <2>3. CallsMove
    BY <2>1, <2>2 DEF CallsMove, TInv, TypeOK
  <2> QED
    BY <1>0, <1>3, <2>3 DEF Refuse, AcceptFails, HistoryGrows
<1>4. ASSUME NEW c \in Callers, Accept(p, c) PROVE Behindhand
  <2>1. PICK id \in Runs :
          /\ NextId(p, id)
          /\ disk' = [disk EXCEPT ![id] = Accepted(call[p][c].owner)]
          /\ call' = [call EXCEPT ![p][c].at = "accepted", ![p][c].id = id]
    BY <1>4 DEF Accept
  <2>2. disk[id] = None
    BY <2>1 DEF NextId, Runs
  <2>3. PICK k : k = [call[p][c] EXCEPT !.at = "accepted", !.id = id]
    OBVIOUS
  <2>4. call[p][c] \in Calls
    BY DEF TInv, TypeOK
  <2>5. k.id = id /\ k.owner = call[p][c].owner
    BY <2>3, <2>4, CallAcceptedFields
  <2>6. call' = [call EXCEPT ![p] = [call[p] EXCEPT ![c] = k]]
    BY <2>1, <2>3 DEF TInv, TypeOK
  <2>7. CallsMove
    BY <2>2, <2>5, <2>6 DEF CallsMove, TInv, TypeOK
  <2>8. call[p][c].at # "idle" /\ call[p][c].owner \in Sessions
    BY <1>4 DEF Accept, TInv, CallsOK
  <2>9. PICK d : d = Accepted(call[p][c].owner)
    OBVIOUS
  <2>10. d \in Records /\ d.delivery = "pending" /\ d.ticket = call[p][c].owner
    BY <2>8, <2>9, BoundsAssumption DEF Accepted, Records
  <2>11. d # None
    BY <2>10, NoneAssumption
  <2>12. HistoryGrows
    BY <2>1, <2>2, <2>8, <2>9, <2>10, <2>11 DEF HistoryGrows, TInv, TypeOK
  <2> QED
    BY <1>0, <1>4, <2>7, <2>12 DEF Accept
<1>5. ASSUME NEW r \in Runs, WorkerEnds(p, r) \/ LaneFails(p, r) PROVE Behindhand
  BY <1>5, FinishBehind DEF WorkerEnds, LaneFails, Terminal
<1>6. ASSUME NEW r \in Runs, Annotate(p, r) PROVE Behindhand
  <2> DEFINE e == [runs[p][r] EXCEPT !.notes = runs[p][r].notes + 1]
  <2>1. runs[p][r] # None /\ runs[p][r] \in Entries
    BY <1>6 DEF Annotate, TInv, TypeOK
  <2>2. /\ e \in Entries /\ e.delivery = runs[p][r].delivery
        /\ e.claimant = runs[p][r].claimant /\ e.ticket = runs[p][r].ticket
    BY <1>6, <2>1, EntryNoted DEF Annotate, Entries
  <2>3. Change(p, r, "tool", e) /\ UNCHANGED <<call, owner, disk, faults>>
    BY <1>6 DEF Annotate
  <2> HIDE DEF e
  <2> QED
    BY <2>1, <2>2, <2>3, ChangeBehind
<1>7. CASE SetTrust(p)
  BY <1>0, <1>7 DEF SetTrust, HistoryGrows, CallsMove
<1> QED
  BY <1>1, <1>2, <1>3, <1>4, <1>5, <1>6, <1>7 DEF Background

-----------------------------------------------------------------------------
(* The registry under the sessions keeps its invariants.                   *)

\* VoiceTypeOK without the bound on the queue, which is not inductive.
VoiceTypes ==
  /\ phase \in [Sessions -> {"new", "adopting", "live", "closed"}]
  /\ bound \in [Sessions -> (UNION {MayBind[s] : s \in Sessions}) \union {Standalone}]
  /\ \A s \in Sessions : bound[s] \in MayBind[s] \union {Standalone}
  /\ listing \in [Sessions -> SUBSET Runs]
  /\ receipts \subseteq Runs
  /\ watch \in [Sessions -> SUBSET Runs]
  /\ queue \in [Sessions -> Seq(Runs)]
  /\ sending \in [Sessions -> Runs \union {None}]
  /\ said \in [Sessions -> SUBSET Runs]
  /\ lost \subseteq Runs

RegInv == TInv /\ IdInv

\* Every step of a session is a step of the registry, a stutter of it, or a
\* history write that failed.
LEMMA RegistrySteps ==
  ASSUME TInv, VoiceTypes, [Next]_vars
  PROVE  [RegNext]_regVars \/ OnlyFaults
<1>0. \A s \in Sessions : Home[s] \in Procs /\ s \in ClaimantsOf(Home[s])
  BY HomeAssumption, CollectAssumption DEF ClaimantsOf
<1>1. ASSUME NEW p \in Procs, ProcessDies(p) PROVE RegNext
  BY <1>1 DEF ProcessDies, RegNext
<1>2. ASSUME NEW t \in tees, TeeLands(t) \/ TeeIsLost(t) PROVE RegNext
  BY <1>2 DEF TeeLands, TeeIsLost, RegNext
<1>3. ASSUME Prompt, NEW s \in Sessions, Connect(s) PROVE RegNext
  BY <1>3 DEF Connect, RegNext
<1>4. ASSUME Prompt, NEW s \in Sessions, NEW r \in Runs, Claim(s, r) PROVE RegNext
  BY <1>0, <1>4 DEF Claim, RegNext
<1>5. ASSUME NEW s \in Sessions, NEW r \in Runs, NoClaim(s, r) PROVE UNCHANGED regVars \/ OnlyFaults
  BY <1>5 DEF NoClaim, OnlyFaults
<1>6. ASSUME Prompt, NEW s \in Sessions, NEW r \in Runs, Adopt(s, r) \/ WatchTick(s, r)
      PROVE  [RegNext]_regVars \/ OnlyFaults
  BY <1>4, <1>5, <1>6 DEF Adopt, WatchTick, QueueIfClaimed
<1>7. ASSUME Prompt, NEW s \in Sessions, Flip(s)
      PROVE  [RegNext]_regVars \/ OnlyFaults
  <2>1. sending[s] \in Runs
    BY <1>7 DEF Flip, VoiceTypes
  <2>2. CASE DeliverLive(Home[s], sending[s], s) \/ DeliverInHistory(Home[s], sending[s], s)
    BY <1>0, <1>7, <2>1, <2>2 DEF RegNext
  <2> QED
    BY <1>7, <2>2 DEF Flip, OnlyFaults
<1>8. ASSUME NEW s \in Sessions, NEW r \in Runs,
             StartWatch(s, r) \/ GoLive(s) \/ Send(s) \/ WatchExpires(s, r)
      PROVE  UNCHANGED regVars
  BY <1>8 DEF StartWatch, GoLive, Send, WatchExpires
<1>9. ASSUME Prompt, NEW s \in Sessions, Close(s) PROVE RegNext
  BY <1>0, <1>9 DEF Close, RegNext
<1>10. ASSUME Prompt, NEW p \in Procs, Background(p) PROVE RegNext
  BY <1>10 DEF Background, RegNext
<1>11. ASSUME Prompt, NEW p \in Procs, NEW c \in Callers, StartReturns(p, c) PROVE RegNext
  BY <1>11 DEF StartReturns, RegNext
<1>12. ASSUME NEW s \in Sessions, GoLive(s) \/ Send(s) PROVE UNCHANGED regVars
  BY <1>12 DEF GoLive, Send
<1>13. ASSUME Prompt, NEW s \in Sessions, SessionStep(s) PROVE [RegNext]_regVars \/ OnlyFaults
  BY <1>6, <1>7, <1>8, <1>12, <1>13 DEF SessionStep
<1>14. CASE UNCHANGED vars
  BY <1>14 DEF vars
<1> QED
  BY <1>1, <1>2, <1>3, <1>8, <1>9, <1>10, <1>11, <1>13, <1>14 DEF Next

\* A history write that only fails keeps what the registry keeps.
LEMMA FaultKeeps ==
  ASSUME TInv, OnlyFaults
  PROVE  TInv' /\ (IdInv => IdInv')
<1>1. TInv'
  BY BoundsAssumption DEF OnlyFaults, TInv, TypeOK, CallsOK
<1>2. IdInv => IdInv'
  BY DEF OnlyFaults, IdInv, RouteDurable, IdsUnique, TeesRouted
<1> QED
  BY <1>1, <1>2

\* The registry's types, ids and routes survive every step of a session.
LEMMA RegKept ==
  ASSUME RegInv, VoiceTypes, [Next]_vars
  PROVE  RegInv'
BY RegistrySteps, FaultKeeps, TypeStep, IdStep DEF RegInv

Elements(q) == {q[i] : i \in 1 .. Len(q)}
Queued(s)   == Elements(queue[s])

NoRepeats(q) == \A i, j \in 1 .. Len(q) : q[i] = q[j] => i = j

\* What appending does to the elements of a queue.
LEMMA AppendElements ==
  ASSUME NEW q \in Seq(Runs), NEW r \in Runs
  PROVE  /\ Append(q, r) \in Seq(Runs)
         /\ Elements(Append(q, r)) = Elements(q) \union {r}
         /\ NoRepeats(q) /\ r \notin Elements(q) => NoRepeats(Append(q, r))
<1>1. /\ Append(q, r) \in Seq(Runs) /\ Len(Append(q, r)) = Len(q) + 1 /\ Len(q) \in Nat
      /\ \A i \in 1 .. Len(q) : Append(q, r)[i] = q[i]
      /\ Append(q, r)[Len(q) + 1] = r
  OBVIOUS
<1>2. PICK a : a = Append(q, r)
  OBVIOUS
<1>3. \A i \in 1 .. Len(a) : i \in 1 .. Len(q) \/ i = Len(q) + 1
  BY <1>1, <1>2
<1>4. Elements(a) = Elements(q) \union {r}
  BY <1>1, <1>2, <1>3 DEF Elements
<1>5. NoRepeats(q) /\ r \notin Elements(q) => NoRepeats(a)
  BY <1>1, <1>2, <1>3 DEF Elements, NoRepeats
<1> QED
  BY <1>1, <1>2, <1>4, <1>5

\* What taking the head does to the elements of a queue.
LEMMA TailElements ==
  ASSUME NEW q \in Seq(Runs), q # <<>>
  PROVE  /\ Tail(q) \in Seq(Runs) /\ Head(q) \in Runs /\ Head(q) \in Elements(q)
         /\ Elements(Tail(q)) \subseteq Elements(q)
         /\ NoRepeats(q) => NoRepeats(Tail(q)) /\ Head(q) \notin Elements(Tail(q))
<1>1. /\ Tail(q) \in Seq(Runs) /\ Len(q) \in Nat /\ Len(q) > 0 /\ Len(Tail(q)) = Len(q) - 1
      /\ \A i \in 1 .. Len(q) - 1 : Tail(q)[i] = q[i + 1]
      /\ Head(q) = q[1] /\ q[1] \in Runs
  OBVIOUS
<1>2. PICK t : t = Tail(q)
  OBVIOUS
<1>3. \A i \in 1 .. Len(t) : i + 1 \in 1 .. Len(q) /\ t[i] = q[i + 1] /\ i + 1 # 1
  BY <1>1, <1>2
<1>4. Elements(t) \subseteq Elements(q)
  BY <1>3 DEF Elements
<1>5. Head(q) \in Elements(q)
  BY <1>1 DEF Elements
<1>6. NoRepeats(q) => NoRepeats(t) /\ Head(q) \notin Elements(t)
  BY <1>1, <1>3 DEF NoRepeats, Elements
<1> QED
  BY <1>1, <1>2, <1>4, <1>5, <1>6

\* A queue grows by the claimed run or stays.
QueueMay(s, r) == queue' = queue \/ queue' = [queue EXCEPT ![s] = Append(@, r)]

\* A queue gains at most the claimed run, the other queues nothing.
LEMMA QueueGrows ==
  ASSUME NEW s \in Sessions, NEW r \in Runs, VoiceTypes, QueueMay(s, r)
  PROVE  /\ queue' \in [Sessions -> Seq(Runs)]
         /\ \A t \in Sessions : t # s => queue'[t] = queue[t]
         /\ Elements(queue'[s]) \subseteq Elements(queue[s]) \union {r}
         /\ NoRepeats(queue[s]) /\ r \notin Elements(queue[s]) => NoRepeats(queue'[s])
<1>1. queue \in [Sessions -> Seq(Runs)] /\ queue[s] \in Seq(Runs)
  BY DEF VoiceTypes
<1>2. CASE queue' = queue
  BY <1>1, <1>2
<1>3. CASE queue' = [queue EXCEPT ![s] = Append(queue[s], r)]
  <2> DEFINE a == Append(queue[s], r)
  <2>1. /\ a \in Seq(Runs) /\ Elements(a) = Elements(queue[s]) \union {r}
        /\ NoRepeats(queue[s]) /\ r \notin Elements(queue[s]) => NoRepeats(a)
    BY <1>1, AppendElements
  <2>2. queue' = [queue EXCEPT ![s] = a]
    BY <1>3
  <2> HIDE DEF a
  <2> QED
    BY <1>1, <2>1, <2>2
<1> QED
  BY <1>2, <1>3 DEF QueueMay

\* A fresh system is well typed.
LEMMA TypesInit == Init => VoiceTypes
<1>1. <<>> \in Seq(Runs)
  OBVIOUS
<1> SUFFICES ASSUME Init PROVE VoiceTypes
  OBVIOUS
<1>2. bound \in [Sessions -> (UNION {MayBind[s] : s \in Sessions}) \union {Standalone}]
      /\ \A s \in Sessions : bound[s] \in MayBind[s] \union {Standalone}
  BY DEF Init
<1>3. queue \in [Sessions -> Seq(Runs)]
  BY <1>1 DEF Init
<1>4. /\ phase \in [Sessions -> {"new", "adopting", "live", "closed"}]
      /\ listing \in [Sessions -> SUBSET Runs] /\ watch \in [Sessions -> SUBSET Runs]
      /\ sending \in [Sessions -> Runs \union {None}] /\ said \in [Sessions -> SUBSET Runs]
  BY DEF Init
<1> QED
  BY <1>2, <1>3, <1>4 DEF Init, VoiceTypes

\* Teardown keeps the types.
LEMMA ForgetTyped ==
  ASSUME NEW gone \in SUBSET Sessions, VoiceTypes, Forgotten(gone)
  PROVE  /\ phase' \in [Sessions -> {"new", "adopting", "live", "closed"}]
         /\ listing' \in [Sessions -> SUBSET Runs] /\ watch' \in [Sessions -> SUBSET Runs]
         /\ queue' \in [Sessions -> Seq(Runs)] /\ sending' \in [Sessions -> Runs \union {None}]
<1>1. <<>> \in Seq(Runs)
  OBVIOUS
<1>2. queue' \in [Sessions -> Seq(Runs)]
  BY <1>1 DEF Forgotten, VoiceTypes
<1> QED
  BY <1>2 DEF Forgotten, VoiceTypes

\* The sessions' variables keep their types.
LEMMA TypesStep == VoiceTypes /\ TInv /\ [Next]_vars => VoiceTypes'
<1> SUFFICES ASSUME VoiceTypes /\ TInv, [Next]_vars PROVE VoiceTypes'
  OBVIOUS
<1>1. ASSUME NEW p \in Procs, ProcessDies(p) PROVE VoiceTypes'
  <2>1. Connected(p) \in SUBSET Sessions
    BY DEF Connected
  <2>2. Forgotten(Connected(p)) /\ bound' = bound /\ said' = said
    BY <1>1 DEF ProcessDies, Forgotten
  <2>3. receipts' \subseteq Runs /\ lost' \subseteq Runs
    BY <1>1 DEF ProcessDies, VoiceTypes, Unrecorded
  <2> QED
    BY <2>1, <2>2, <2>3, ForgetTyped DEF VoiceTypes
<1>2. ASSUME NEW t \in tees, TeeLands(t) PROVE VoiceTypes'
  BY <1>2 DEF TeeLands, voiceVars, VoiceTypes
<1>3. ASSUME NEW t \in tees, TeeIsLost(t) PROVE VoiceTypes'
  <2>1. t.run \in Runs
    BY DEF TInv, TypeOK, Tees
  <2>2. lost' \subseteq Runs
    BY <1>3, <2>1 DEF TeeIsLost, VoiceTypes
  <2> QED
    BY <1>3, <2>2 DEF TeeIsLost, VoiceTypes
<1>4. ASSUME NEW s \in Sessions, Connect(s) PROVE VoiceTypes'
  <2>1. PICK b \in MayBind[s] : bound' = [bound EXCEPT ![s] = b]
    BY <1>4 DEF Connect
  <2>2. /\ bound' \in [Sessions -> (UNION {MayBind[x] : x \in Sessions})
           \union {Standalone}]
        /\ \A x \in Sessions : bound'[x] \in MayBind[x] \union {Standalone}
    BY <2>1 DEF VoiceTypes
  <2>3. listing' \in [Sessions -> SUBSET Runs]
    BY <1>4 DEF Connect, Owed, VoiceTypes
  <2>4. phase' \in [Sessions -> {"new", "adopting", "live", "closed"}]
    BY <1>4 DEF Connect, VoiceTypes
  <2> QED
    BY <1>4, <2>2, <2>3, <2>4 DEF Connect, VoiceTypes
<1>5. ASSUME NEW s \in Sessions, NEW r \in Runs, Adopt(s, r) PROVE VoiceTypes'
  <2>1. QueueMay(s, r)
    BY <1>5 DEF Adopt, QueueIfClaimed, QueueMay
  <2>2. queue' \in [Sessions -> Seq(Runs)]
    BY <2>1, QueueGrows
  <2> QED
    BY <1>5, <2>2 DEF Adopt, VoiceTypes
<1>6. ASSUME NEW s \in Sessions, NEW r \in Runs, WatchTick(s, r)
      PROVE  VoiceTypes'
  <2>1. QueueMay(s, r)
    BY <1>6 DEF WatchTick, QueueIfClaimed, QueueMay
  <2>2. queue' \in [Sessions -> Seq(Runs)]
    BY <2>1, QueueGrows
  <2> QED
    BY <1>6, <2>2 DEF WatchTick, VoiceTypes
<1>7. ASSUME NEW s \in Sessions, NEW r \in Runs, StartWatch(s, r)
      PROVE  VoiceTypes'
  BY <1>7 DEF StartWatch, VoiceTypes
<1>8. ASSUME NEW s \in Sessions, GoLive(s) PROVE VoiceTypes'
  BY <1>8 DEF GoLive, VoiceTypes
<1>9. ASSUME NEW s \in Sessions, Send(s) PROVE VoiceTypes'
  <2>1. queue[s] \in Seq(Runs) /\ queue[s] # <<>>
    BY <1>9 DEF Send, VoiceTypes
  <2>2. Tail(queue[s]) \in Seq(Runs) /\ Head(queue[s]) \in Runs
    BY <2>1, TailElements
  <2> QED
    BY <1>9, <2>2 DEF Send, VoiceTypes
<1>10. ASSUME NEW s \in Sessions, Flip(s) PROVE VoiceTypes'
  <2>1. sending[s] \in Runs
    BY <1>10 DEF Flip, VoiceTypes
  <2>2. lost' \subseteq Runs
    BY <1>10, <2>1 DEF Flip, VoiceTypes
  <2> QED
    BY <1>10, <2>2 DEF Flip, VoiceTypes
<1>11. ASSUME NEW s \in Sessions, Close(s) PROVE VoiceTypes'
  <2>1. Forgotten({s}) /\ bound' = bound /\ receipts' \subseteq receipts
    BY <1>11 DEF Close, Forgotten
  <2>2. said' \in [Sessions -> SUBSET Runs] /\ lost' \subseteq Runs
    <3>1. queue[s] \in Seq(Runs)
      BY DEF VoiceTypes
    <3>2. queue[s] # <<>> => Head(queue[s]) \in Runs
      BY <3>1, TailElements
    <3>3. said \in [Sessions -> SUBSET Runs] /\ lost \subseteq Runs
      BY DEF VoiceTypes
    <3>4. CASE UNCHANGED <<said, lost>>
      BY <3>3, <3>4
    <3>5. CASE /\ queue[s] # <<>>
               /\ said' = [said EXCEPT ![s] = @ \union {Head(queue[s])}]
               /\ lost' = lost \union {Head(queue[s])}
      BY <3>2, <3>3, <3>5
    <3> QED
      BY <1>11, <3>4, <3>5 DEF Close
  <2> QED
    BY <2>1, <2>2, ForgetTyped DEF VoiceTypes
<1>12. ASSUME NEW s \in Sessions, NEW r \in Runs, WatchExpires(s, r)
       PROVE  VoiceTypes'
  BY <1>12 DEF WatchExpires, VoiceTypes
<1>13. ASSUME NEW p \in Procs, Background(p) PROVE VoiceTypes'
  BY <1>13 DEF Background, voiceVars, VoiceTypes
<1>14. ASSUME NEW p \in Procs, NEW c \in Callers, StartReturns(p, c)
       PROVE  VoiceTypes'
  <2>1. call[p][c].id \in Runs
    BY <1>14 DEF StartReturns, Insert, TInv, CallsOK
  <2> QED
    BY <1>14, <2>1 DEF StartReturns, VoiceTypes
<1>15. CASE UNCHANGED vars
  BY <1>15 DEF vars, voiceVars, VoiceTypes
<1> QED
  BY <1>1, <1>2, <1>3, <1>4, <1>5, <1>6, <1>7, <1>8, <1>9, <1>10, <1>11,
     <1>12, <1>13, <1>14, <1>15 DEF Next, SessionStep

-----------------------------------------------------------------------------
(* Whose results a session has in its hands, and what was said of them.    *)
(* Nothing is assumed here of the tees, the claims or the other processes. *)

Hands(s) == listing[s] \union watch[s] \union Queued(s) \union said[s]
Said(r)  == \E s \in Sessions : r \in said[s]

\* Run r was accepted under session s itself or under its binding.
OwedTo(s, r) ==
  /\ disk[r] # None
  /\ disk[r].ticket = s \/ (bound[s] # Standalone /\ bound[disk[r].ticket] = bound[s])

\* Something in memory, in the history or on its way there calls r delivered.
DeliveredAt(r) ==
  \/ disk[r] # None /\ disk[r].delivery = "delivered"
  \/ \E p \in Procs : runs[p][r] # None /\ runs[p][r].delivery = "delivered"
  \/ \E t \in tees : t.run = r /\ t.rec.delivery = "delivered"

Bindings == \A s \in Sessions : phase[s] = "new" => bound[s] = Standalone

Routed ==
  /\ \A s \in Sessions : \A r \in Hands(s) : OwedTo(s, r)
  /\ \A r \in receipts : disk[r] # None

HandedOff ==
  /\ \A s \in Sessions : sending[s] # None => sending[s] \in said[s]
  /\ \A r \in Runs : DeliveredAt(r) => Said(r)

SaidInv == Bindings /\ Routed /\ HandedOff

BoundsStay == \A s \in Sessions : bound[s] # Standalone => bound'[s] = bound[s]

\* Where a run in a session's hands, or in a receipt, comes from.
HandsFrom ==
  \A s \in Sessions : \A r \in Hands(s)' :
    \/ r \in Hands(s)
    \/ r \in receipts /\ disk[r].ticket = s
    \/ /\ phase[s] = "new" /\ bound'[s] # Standalone /\ UNCHANGED <<runs, call, disk>>
       /\ r \in Owed(Home[s], s, bound'[s])

ReceiptsFrom ==
  \A r \in receipts' : \/ r \in receipts
                      \/ \E p \in Procs, c \in Callers :
                           call[p][c].id = r /\ StartReturns(p, c)

\* A claim, won or lost, leaves the tickets alone.
LEMMA ClaimRecords ==
  ASSUME RegInv, VoiceTypes, NEW s \in Sessions, NEW r \in Runs, QueueIfClaimed(s, r)
  PROVE  RecordsStay
<1>0. Home[s] \in Procs
  BY HomeAssumption
<1>1. ASSUME ClaimLive(Home[s], r, s) PROVE RecordsStay
  BY <1>1 DEF ClaimLive, RecordsStay
<1>2. ASSUME ClaimInHistory(Home[s], r, s) PROVE RecordsStay
  BY <1>0, <1>2, VoiceRecord DEF RegInv, RecordedAs, RecordsStay
<1>3. ASSUME NoClaim(s, r) PROVE RecordsStay
  BY <1>3 DEF NoClaim, regVars, RecordsStay
<1> QED
  BY <1>1, <1>2, <1>3 DEF QueueIfClaimed, Claim

\* A claim makes nothing delivered.
LEMMA ClaimDelivers ==
  ASSUME RegInv, VoiceTypes, NEW s \in Sessions, NEW r \in Runs, QueueIfClaimed(s, r),
         NEW x \in Runs, DeliveredAt(x)'
  PROVE  DeliveredAt(x)
<1>0. Home[s] \in Procs
  BY HomeAssumption
<1>1. CASE ClaimLive(Home[s], r, s)
  BY <1>0, <1>1, VoiceChange DEF RegInv, DeliveredAt, MovedTo, TeedAs
<1>2. CASE ClaimInHistory(Home[s], r, s)
  BY <1>0, <1>2, VoiceRecord DEF RegInv, DeliveredAt, RecordedAs
<1>3. CASE NoClaim(s, r)
  BY <1>3 DEF NoClaim, regVars, DeliveredAt
<1> QED
  BY <1>1, <1>2, <1>3 DEF QueueIfClaimed, Claim

\* A record of the history stays, with its ticket.
LEMMA RecordsKept == RegInv /\ VoiceTypes /\ [Next]_vars => RecordsStay
<1> SUFFICES ASSUME RegInv /\ VoiceTypes, [Next]_vars PROVE RecordsStay
  OBVIOUS
<1>1. ASSUME NEW p \in Procs, ProcessDies(p) PROVE RecordsStay
  BY <1>1 DEF ProcessDies, Crash, RecordsStay
<1>2. ASSUME NEW t \in tees, TeeLands(t) PROVE RecordsStay
  <2>1. t.run \in Runs /\ t.rec \in Records /\ disk[t.run] # None /\
     t.rec.ticket = disk[t.run].ticket
    BY DEF RegInv, TInv, TypeOK, Tees, IdInv, TeesRouted
  <2>2. t.rec # None
    BY <2>1, NoneAssumption
  <2>3. disk' = [disk EXCEPT ![t.run] = t.rec]
    BY <1>2 DEF TeeLands, AppendTee
  <2> QED
    BY <2>1, <2>2, <2>3 DEF RecordsStay, RegInv, TInv, TypeOK
<1>3. ASSUME NEW t \in tees, TeeIsLost(t) PROVE RecordsStay
  BY <1>3 DEF TeeIsLost, TeeFails, RecordsStay
<1>4. ASSUME NEW s \in Sessions, Connect(s) PROVE RecordsStay
  BY <1>4 DEF Connect, AttachOwner, RecordsStay
<1>5. ASSUME NEW s \in Sessions, NEW r \in Runs, Adopt(s, r) PROVE RecordsStay
  BY <1>5, ClaimRecords DEF Adopt
<1>6. ASSUME NEW s \in Sessions, NEW r \in Runs, WatchTick(s, r)
      PROVE  RecordsStay
  BY <1>6, ClaimRecords DEF WatchTick, regVars, RecordsStay
<1>7. ASSUME NEW s \in Sessions, NEW r \in Runs, StartWatch(s, r)
      PROVE  RecordsStay
  BY <1>7 DEF StartWatch, regVars, RecordsStay
<1>8. ASSUME NEW s \in Sessions, GoLive(s) PROVE RecordsStay
  BY <1>8 DEF GoLive, regVars, RecordsStay
<1>9. ASSUME NEW s \in Sessions, Send(s) PROVE RecordsStay
  BY <1>9 DEF Send, regVars, RecordsStay
<1>10. ASSUME NEW s \in Sessions, Flip(s) PROVE RecordsStay
  <2>1. sending[s] \in Runs /\ Home[s] \in Procs
    BY <1>10, HomeAssumption DEF Flip, VoiceTypes
  <2>2. ASSUME DeliverLive(Home[s], sending[s], s) PROVE RecordsStay
    BY <2>2 DEF DeliverLive, RecordsStay
  <2>3. ASSUME DeliverInHistory(Home[s], sending[s], s) PROVE RecordsStay
    BY <2>1, <2>3, VoiceRecord DEF RegInv, RecordedAs, RecordsStay
  <2> QED
    BY <1>10, <2>2, <2>3 DEF Flip, regVars, RecordsStay
<1>11. ASSUME NEW s \in Sessions, Close(s) PROVE RecordsStay
  BY <1>11 DEF Close, DetachOwner, RecordsStay
<1>12. ASSUME NEW s \in Sessions, NEW r \in Runs, WatchExpires(s, r)
       PROVE  RecordsStay
  BY <1>12 DEF WatchExpires, regVars, RecordsStay
<1>13. ASSUME NEW p \in Procs, Background(p) PROVE RecordsStay
  BY <1>13, BackgroundBehind DEF RegInv, Behindhand, HistoryGrows, RecordsStay
<1>14. ASSUME NEW p \in Procs, NEW c \in Callers, StartReturns(p, c)
       PROVE  RecordsStay
  BY <1>14 DEF StartReturns, Insert, RecordsStay
<1>15. CASE UNCHANGED vars
  BY <1>15 DEF vars, regVars, RecordsStay
<1> QED
  BY <1>1, <1>2, <1>3, <1>4, <1>5, <1>6, <1>7, <1>8, <1>9, <1>10, <1>11,
     <1>12, <1>13, <1>14, <1>15 DEF Next, SessionStep

\* Only the flip of a session makes something delivered, and only what it
\* sent.
LEMMA DeliveredKept ==
  RegInv /\ VoiceTypes /\ [Next]_vars => \A x \in Runs : DeliveredAt(x)' =>
    DeliveredAt(x) \/ \E y \in Sessions : sending[y] = x
<1> SUFFICES ASSUME RegInv /\ VoiceTypes, [Next]_vars
             PROVE  \A x \in Runs : DeliveredAt(x)' => DeliveredAt(x) \/ \E y \in
                      Sessions : sending[y] = x
  OBVIOUS
<1>1. ASSUME NEW p \in Procs, ProcessDies(p)
      PROVE  \A x \in Runs : DeliveredAt(x)' => DeliveredAt(x) \/ \E y \in Sessions :
               sending[y] = x
  <2>1. /\ disk' = disk /\ tees' \subseteq tees
        /\ \A q \in Procs, x \in Runs : runs'[q][x] # None => runs'[q][x] =
           runs[q][x]
    BY <1>1 DEF ProcessDies, Crash, RegInv, TInv, TypeOK
  <2> QED
    BY <2>1 DEF DeliveredAt
<1>2. ASSUME NEW t \in tees, TeeLands(t)
      PROVE  \A x \in Runs : DeliveredAt(x)' => DeliveredAt(x) \/ \E y \in Sessions :
               sending[y] = x
  <2>1. t.run \in Runs
    BY DEF RegInv, TInv, TypeOK, Tees
  <2>2. disk' = [disk EXCEPT ![t.run] = t.rec] /\ tees' \subseteq tees /\
     runs' = runs
    BY <1>2 DEF TeeLands, AppendTee
  <2> QED
    BY <2>1, <2>2 DEF DeliveredAt, RegInv, TInv, TypeOK
<1>3. ASSUME NEW t \in tees, TeeIsLost(t)
      PROVE  \A x \in Runs : DeliveredAt(x)' => DeliveredAt(x) \/ \E y \in Sessions :
               sending[y] = x
  BY <1>3 DEF TeeIsLost, TeeFails, DeliveredAt
<1>4. ASSUME NEW s \in Sessions, Connect(s)
      PROVE  \A x \in Runs : DeliveredAt(x)' => DeliveredAt(x) \/ \E y \in Sessions :
               sending[y] = x
  BY <1>4 DEF Connect, AttachOwner, DeliveredAt
<1>5. ASSUME NEW s \in Sessions, NEW r \in Runs, Adopt(s, r)
      PROVE  \A x \in Runs : DeliveredAt(x)' => DeliveredAt(x) \/ \E y \in Sessions :
               sending[y] = x
  BY <1>5, ClaimDelivers DEF Adopt
<1>6. ASSUME NEW s \in Sessions, NEW r \in Runs, WatchTick(s, r)
      PROVE  \A x \in Runs : DeliveredAt(x)' => DeliveredAt(x) \/ \E y \in Sessions :
               sending[y] = x
  <2>1. CASE UNCHANGED regVars
    BY <2>1 DEF regVars, DeliveredAt
  <2> QED
    BY <1>6, <2>1, ClaimDelivers DEF WatchTick
<1>7. ASSUME NEW s \in Sessions, NEW r \in Runs, StartWatch(s, r)
      PROVE  \A x \in Runs : DeliveredAt(x)' => DeliveredAt(x) \/ \E y \in Sessions :
               sending[y] = x
  BY <1>7 DEF StartWatch, regVars, DeliveredAt
<1>8. ASSUME NEW s \in Sessions, GoLive(s)
      PROVE  \A x \in Runs : DeliveredAt(x)' => DeliveredAt(x) \/ \E y \in Sessions :
               sending[y] = x
  BY <1>8 DEF GoLive, regVars, DeliveredAt
<1>9. ASSUME NEW s \in Sessions, Send(s)
      PROVE  \A x \in Runs : DeliveredAt(x)' => DeliveredAt(x) \/ \E y \in Sessions :
               sending[y] = x
  BY <1>9 DEF Send, regVars, DeliveredAt
<1>10. ASSUME NEW s \in Sessions, Flip(s)
       PROVE  \A x \in Runs : DeliveredAt(x)' => DeliveredAt(x) \/ \E y \in Sessions :
                sending[y] = x
  <2>1. sending[s] \in Runs /\ Home[s] \in Procs
    BY <1>10, HomeAssumption DEF Flip, VoiceTypes
  <2>2. CASE DeliverLive(Home[s], sending[s], s)
    BY <2>1, <2>2, VoiceChange DEF RegInv, DeliveredAt, MovedTo, TeedAs
  <2>3. CASE DeliverInHistory(Home[s], sending[s], s)
    BY <2>1, <2>3, VoiceRecord DEF RegInv, DeliveredAt, RecordedAs
  <2>4. CASE UNCHANGED <<runs, disk, tees>>
    BY <2>4 DEF DeliveredAt
  <2> QED
    BY <1>10, <2>2, <2>3, <2>4 DEF Flip, regVars
<1>11. ASSUME NEW s \in Sessions, Close(s)
       PROVE  \A x \in Runs : DeliveredAt(x)' => DeliveredAt(x) \/ \E y \in Sessions :
                sending[y] = x
  BY <1>11 DEF Close, DetachOwner, DeliveredAt
<1>12. ASSUME NEW s \in Sessions, NEW r \in Runs, WatchExpires(s, r)
       PROVE  \A x \in Runs : DeliveredAt(x)' => DeliveredAt(x) \/ \E y \in Sessions :
                sending[y] = x
  BY <1>12 DEF WatchExpires, regVars, DeliveredAt
<1>13. ASSUME NEW p \in Procs, Background(p)
       PROVE  \A x \in Runs : DeliveredAt(x)' => DeliveredAt(x) \/ \E y \in Sessions :
                sending[y] = x
  <2>1. Behindhand
    BY <1>13, BackgroundBehind DEF RegInv
  <2> SUFFICES ASSUME NEW x \in Runs, DeliveredAt(x)' PROVE DeliveredAt(x)
    OBVIOUS
  <2>2. CASE disk'[x] # None /\ disk'[x].delivery = "delivered"
    BY <2>1, <2>2 DEF Behindhand, HistoryGrows, DeliveredAt
  <2>3. CASE \E q \in Procs : runs'[q][x] # None /\ runs'[q][x].delivery =
     "delivered"
    BY <2>1, <2>3 DEF Behindhand, SameDelivery, DeliveredAt
  <2>4. ASSUME NEW t \in tees', t.run = x, t.rec.delivery = "delivered"
        PROVE  DeliveredAt(x)
    <3>1. t \in tees \/ (t.proc \in Procs /\ runs[t.proc][x] # None /\
       runs[t.proc][x].delivery = "delivered")
      <4>1. t \in tees \/ (runs[t.proc][t.run] # None /\ t.rec.delivery =
         runs[t.proc][t.run].delivery)
        BY <2>1, <2>4 DEF Behindhand, TeesFollow
      <4>2. t.proc \in Procs
        BY RegKept DEF RegInv, TInv, TypeOK, Tees
      <4> QED
        BY <2>4, <4>1, <4>2
    <3> QED
      BY <2>4, <3>1 DEF DeliveredAt
  <2> QED
    BY <2>2, <2>3, <2>4 DEF DeliveredAt
<1>14. ASSUME NEW p \in Procs, NEW c \in Callers, StartReturns(p, c)
       PROVE  \A x \in Runs : DeliveredAt(x)' => DeliveredAt(x) \/ \E y \in Sessions :
                sending[y] = x
  <2> DEFINE id == call[p][c].id
             e  == Entry(p, c)
  <2>1. id \in Runs /\ e.delivery = "pending"
    BY <1>14 DEF StartReturns, Insert, RegInv, TInv, CallsOK, Entry, NewEntry
  <2>2. PICK gone \in SUBSET Runs :
          runs' = [runs EXCEPT ![p] = Evicted([runs[p] EXCEPT ![id] = e],
             gone)]
    BY <1>14 DEF StartReturns, Insert
  <2>3. disk' = disk /\ tees' = tees
    BY <1>14 DEF StartReturns, Insert
  <2> HIDE DEF id, e
  <2>4. \A q \in Procs, x \in Runs : runs'[q][x] # None =>
          runs'[q][x] = runs[q][x] \/ runs'[q][x] = e
    BY <2>1, <2>2 DEF Evicted, RegInv, TInv, TypeOK
  <2> QED
    BY <2>1, <2>3, <2>4 DEF DeliveredAt
<1>15. CASE UNCHANGED vars
  BY <1>15 DEF vars, regVars, DeliveredAt
<1> QED
  BY <1>1, <1>2, <1>3, <1>4, <1>5, <1>6, <1>7, <1>8, <1>9, <1>10, <1>11,
     <1>12, <1>13, <1>14, <1>15 DEF Next, SessionStep

\* A session connects once, and keeps the binding it connects under.
LEMMA BoundsKept ==
  Bindings /\ VoiceTypes /\ [Next]_vars => BoundsStay /\ Bindings'
<1> SUFFICES ASSUME Bindings /\ VoiceTypes, [Next]_vars
             PROVE  BoundsStay /\ Bindings'
  OBVIOUS
<1>1. ASSUME NEW p \in Procs, ProcessDies(p) PROVE BoundsStay /\ Bindings'
  BY <1>1 DEF ProcessDies, Forgotten, BoundsStay, Bindings, VoiceTypes
<1>2. ASSUME NEW t \in tees, TeeLands(t) PROVE BoundsStay /\ Bindings'
  BY <1>2 DEF TeeLands, voiceVars, BoundsStay, Bindings
<1>3. ASSUME NEW t \in tees, TeeIsLost(t) PROVE BoundsStay /\ Bindings'
  BY <1>3 DEF TeeIsLost, BoundsStay, Bindings
<1>4. ASSUME NEW s \in Sessions, Connect(s) PROVE BoundsStay /\ Bindings'
  <2>1. phase[s] = "new" /\ phase' = [phase EXCEPT ![s] = "adopting"]
    BY <1>4 DEF Connect
  <2>2. \A x \in Sessions : x # s => bound'[x] = bound[x] /\ phase'[x] =
     phase[x]
    BY <1>4 DEF Connect, VoiceTypes
  <2>3. phase'[s] = "adopting"
    BY <2>1 DEF VoiceTypes
  <2> QED
    BY <2>1, <2>2, <2>3 DEF BoundsStay, Bindings
<1>5. ASSUME NEW s \in Sessions, NEW r \in Runs, Adopt(s, r) PROVE BoundsStay
   /\ Bindings'
  BY <1>5 DEF Adopt, BoundsStay, Bindings
<1>6. ASSUME NEW s \in Sessions, NEW r \in Runs, WatchTick(s, r)
      PROVE  BoundsStay /\ Bindings'
  BY <1>6 DEF WatchTick, BoundsStay, Bindings
<1>7. ASSUME NEW s \in Sessions, NEW r \in Runs, StartWatch(s, r)
      PROVE  BoundsStay /\ Bindings'
  BY <1>7 DEF StartWatch, BoundsStay, Bindings
<1>8. ASSUME NEW s \in Sessions, GoLive(s) PROVE BoundsStay /\ Bindings'
  BY <1>8 DEF GoLive, BoundsStay, Bindings, VoiceTypes
<1>9. ASSUME NEW s \in Sessions, Send(s) PROVE BoundsStay /\ Bindings'
  BY <1>9 DEF Send, BoundsStay, Bindings
<1>10. ASSUME NEW s \in Sessions, Flip(s) PROVE BoundsStay /\ Bindings'
  BY <1>10 DEF Flip, BoundsStay, Bindings
<1>11. ASSUME NEW s \in Sessions, Close(s) PROVE BoundsStay /\ Bindings'
  BY <1>11 DEF Close, Forgotten, BoundsStay, Bindings, VoiceTypes
<1>12. ASSUME NEW s \in Sessions, NEW r \in Runs, WatchExpires(s, r)
       PROVE  BoundsStay /\ Bindings'
  BY <1>12 DEF WatchExpires, BoundsStay, Bindings
<1>13. ASSUME NEW p \in Procs, Background(p) PROVE BoundsStay /\ Bindings'
  BY <1>13 DEF Background, voiceVars, BoundsStay, Bindings
<1>14. ASSUME NEW p \in Procs, NEW c \in Callers, StartReturns(p, c)
       PROVE  BoundsStay /\ Bindings'
  BY <1>14 DEF StartReturns, BoundsStay, Bindings
<1>15. CASE UNCHANGED vars
  BY <1>15 DEF vars, voiceVars, BoundsStay, Bindings
<1> QED
  BY <1>1, <1>2, <1>3, <1>4, <1>5, <1>6, <1>7, <1>8, <1>9, <1>10, <1>11,
     <1>12, <1>13, <1>14, <1>15 DEF Next, SessionStep

\* A session takes in hand what it lists when it connects and the runs of its
\* receipts.
LEMMA HandsMove ==
  RegInv /\ Bindings /\ VoiceTypes /\ [Next]_vars => HandsFrom
<1> SUFFICES ASSUME RegInv /\ Bindings /\ VoiceTypes, [Next]_vars
             PROVE  HandsFrom
  OBVIOUS
<1>1. ASSUME NEW p \in Procs, ProcessDies(p) PROVE HandsFrom
  <2>1. \A s \in Sessions : Hands(s)' \subseteq Hands(s)
    <3>1. \A s \in Sessions : Elements(queue'[s]) \subseteq Elements(queue[s])
      BY <1>1 DEF ProcessDies, Forgotten, Elements
    <3> QED
      BY <1>1, <3>1 DEF ProcessDies, Forgotten, Hands, Queued
  <2> QED
    BY <2>1 DEF HandsFrom
<1>2. ASSUME NEW t \in tees, TeeLands(t) PROVE HandsFrom
  BY <1>2 DEF TeeLands, voiceVars, HandsFrom, Hands, Queued
<1>3. ASSUME NEW t \in tees, TeeIsLost(t) PROVE HandsFrom
  BY <1>3 DEF TeeIsLost, HandsFrom, Hands, Queued
<1>4. ASSUME NEW s \in Sessions, Connect(s) PROVE HandsFrom
  <2> SUFFICES ASSUME NEW x \in Sessions, NEW r \in Hands(x)', r \notin
     Hands(x)
               PROVE  /\ phase[x] = "new" /\ bound'[x] # Standalone /\
                         UNCHANGED <<runs, call, disk>>
                      /\ r \in Owed(Home[x], x, bound'[x])
    BY DEF HandsFrom
  <2>1. /\ phase[s] = "new" /\ UNCHANGED <<watch, queue, said>>
        /\ listing' = [listing EXCEPT ![s] = Owed(Home[s], s, bound'[s])]
        /\ UNCHANGED <<runs, call, disk>>
    BY <1>4 DEF Connect, AttachOwner
  <2>2. x = s /\ r \in Owed(Home[s], s, bound'[s])
    BY <2>1 DEF Hands, Queued, VoiceTypes
  <2> QED
    BY <2>1, <2>2 DEF Owed
<1>5. ASSUME NEW s \in Sessions, NEW r \in Runs, Adopt(s, r) PROVE HandsFrom
  <2>1. QueueMay(s, r) /\ r \in listing[s] /\ UNCHANGED <<watch, said>>
        /\ listing' = [listing EXCEPT ![s] = @ \ {r}]
    BY <1>5 DEF Adopt, QueueIfClaimed, QueueMay
  <2>2. /\ \A x \in Sessions : x # s => queue'[x] = queue[x]
        /\ Elements(queue'[s]) \subseteq Elements(queue[s]) \union {r}
    BY <2>1, QueueGrows
  <2>3. \A x \in Sessions : Hands(x)' \subseteq Hands(x)
    BY <2>1, <2>2 DEF Hands, Queued, VoiceTypes
  <2> QED
    BY <2>3 DEF HandsFrom
<1>6. ASSUME NEW s \in Sessions, NEW r \in Runs, WatchTick(s, r)
      PROVE  HandsFrom
  <2>1. QueueMay(s, r) /\ r \in watch[s] /\ UNCHANGED <<listing, said>>
        /\ watch' = [watch EXCEPT ![s] = @ \ {r}]
    BY <1>6 DEF WatchTick, QueueIfClaimed, QueueMay
  <2>2. /\ \A x \in Sessions : x # s => queue'[x] = queue[x]
        /\ Elements(queue'[s]) \subseteq Elements(queue[s]) \union {r}
    BY <2>1, QueueGrows
  <2>3. \A x \in Sessions : Hands(x)' \subseteq Hands(x)
    BY <2>1, <2>2 DEF Hands, Queued, VoiceTypes
  <2> QED
    BY <2>3 DEF HandsFrom
<1>7. ASSUME NEW s \in Sessions, NEW r \in Runs, StartWatch(s, r)
      PROVE  HandsFrom
  <2>1. /\ UNCHANGED <<listing, queue, said>> /\ watch' = [watch EXCEPT ![s] =
           @ \union {r}]
        /\ r \in receipts /\ disk[r].ticket = s
    BY <1>7 DEF StartWatch
  <2>2. \A x \in Sessions : watch'[x] \subseteq IF x = s THEN watch[x] \union
     {r} ELSE watch[x]
    BY <2>1 DEF VoiceTypes
  <2> QED
    BY <2>1, <2>2 DEF HandsFrom, Hands, Queued
<1>8. ASSUME NEW s \in Sessions, GoLive(s) PROVE HandsFrom
  BY <1>8 DEF GoLive, HandsFrom, Hands, Queued
<1>9. ASSUME NEW s \in Sessions, Send(s) PROVE HandsFrom
  <2>1. /\ UNCHANGED <<listing, watch>> /\ queue[s] # <<>>
        /\ said' = [said EXCEPT ![s] = @ \union {Head(queue[s])}]
        /\ queue' = [queue EXCEPT ![s] = Tail(@)]
    BY <1>9 DEF Send
  <2>2. queue[s] \in Seq(Runs)
    BY DEF VoiceTypes
  <2>3. Elements(Tail(queue[s])) \subseteq Elements(queue[s]) /\
     Head(queue[s]) \in Elements(queue[s])
    BY <2>1, <2>2, TailElements
  <2>4. \A x \in Sessions : Elements(queue'[x]) \subseteq Elements(queue[x])
    BY <2>1, <2>3 DEF VoiceTypes
  <2>5. \A x \in Sessions : said'[x] \subseteq said[x] \union
     Elements(queue[x])
    BY <2>1, <2>3 DEF VoiceTypes
  <2> QED
    BY <2>1, <2>4, <2>5 DEF HandsFrom, Hands, Queued
<1>10. ASSUME NEW s \in Sessions, Flip(s) PROVE HandsFrom
  BY <1>10 DEF Flip, HandsFrom, Hands, Queued
<1>11. ASSUME NEW s \in Sessions, Close(s) PROVE HandsFrom
  <2>1. Forgotten({s}) /\ (UNCHANGED said \/ (queue[s] # <<>> /\ said' = [said
     EXCEPT ![s] = @ \union {Head(queue[s])}]))
    BY <1>11 DEF Close
  <2>2. queue[s] \in Seq(Runs)
    BY DEF VoiceTypes
  <2>3. queue[s] # <<>> => Head(queue[s]) \in Elements(queue[s])
    BY <2>2, TailElements
  <2>4. \A x \in Sessions : said'[x] \subseteq said[x] \union
     Elements(queue[x])
    <3>1. CASE UNCHANGED said
      BY <3>1
    <3>2. CASE queue[s] # <<>> /\ said' = [said EXCEPT ![s] = @ \union
       {Head(queue[s])}]
      <4> DEFINE h == Head(queue[s])
      <4>1. h \in Elements(queue[s]) /\ said' = [said EXCEPT ![s] = @ \union
         {h}]
        BY <2>3, <3>2
      <4> HIDE DEF h
      <4> QED
        BY <4>1 DEF VoiceTypes
    <3> QED
      BY <2>1, <3>1, <3>2
  <2>5. \A x \in Sessions :
          /\ Elements(queue'[x]) \subseteq Elements(queue[x])
          /\ listing'[x] \subseteq listing[x] /\ watch'[x] \subseteq watch[x]
    BY <2>1 DEF Forgotten, Elements
  <2> QED
    BY <2>4, <2>5 DEF HandsFrom, Hands, Queued
<1>12. ASSUME NEW s \in Sessions, NEW r \in Runs, WatchExpires(s, r)
       PROVE  HandsFrom
  <2>1. UNCHANGED <<listing, queue, said>> /\ \A x \in Sessions : watch'[x]
     \subseteq watch[x]
    BY <1>12 DEF WatchExpires, VoiceTypes
  <2> QED
    BY <2>1 DEF HandsFrom, Hands, Queued
<1>13. ASSUME NEW p \in Procs, Background(p) PROVE HandsFrom
  BY <1>13 DEF Background, voiceVars, HandsFrom, Hands, Queued
<1>14. ASSUME NEW p \in Procs, NEW c \in Callers, StartReturns(p, c)
       PROVE  HandsFrom
  BY <1>14 DEF StartReturns, HandsFrom, Hands, Queued
<1>15. CASE UNCHANGED vars
  BY <1>15 DEF vars, voiceVars, HandsFrom, Hands, Queued
<1> QED
  BY <1>1, <1>2, <1>3, <1>4, <1>5, <1>6, <1>7, <1>8, <1>9, <1>10, <1>11,
     <1>12, <1>13, <1>14, <1>15 DEF Next, SessionStep

\* A receipt is of a start_run that returns.
LEMMA ReceiptsMove == VoiceTypes /\ [Next]_vars => ReceiptsFrom
<1> SUFFICES ASSUME VoiceTypes, [Next]_vars PROVE ReceiptsFrom
  OBVIOUS
<1>1. ASSUME NEW p \in Procs, ProcessDies(p) PROVE ReceiptsFrom
  BY <1>1 DEF ProcessDies, ReceiptsFrom
<1>2. ASSUME NEW t \in tees, TeeLands(t) PROVE ReceiptsFrom
  BY <1>2 DEF TeeLands, voiceVars, ReceiptsFrom
<1>3. ASSUME NEW t \in tees, TeeIsLost(t) PROVE ReceiptsFrom
  BY <1>3 DEF TeeIsLost, ReceiptsFrom
<1>4. ASSUME NEW s \in Sessions, Connect(s) PROVE ReceiptsFrom
  BY <1>4 DEF Connect, ReceiptsFrom
<1>5. ASSUME NEW s \in Sessions, NEW r \in Runs, Adopt(s, r)
      PROVE  ReceiptsFrom
  BY <1>5 DEF Adopt, ReceiptsFrom
<1>6. ASSUME NEW s \in Sessions, NEW r \in Runs, WatchTick(s, r)
      PROVE  ReceiptsFrom
  BY <1>6 DEF WatchTick, ReceiptsFrom
<1>7. ASSUME NEW s \in Sessions, NEW r \in Runs, StartWatch(s, r)
      PROVE  ReceiptsFrom
  BY <1>7 DEF StartWatch, ReceiptsFrom
<1>8. ASSUME NEW s \in Sessions, GoLive(s) PROVE ReceiptsFrom
  BY <1>8 DEF GoLive, ReceiptsFrom
<1>9. ASSUME NEW s \in Sessions, Send(s) PROVE ReceiptsFrom
  BY <1>9 DEF Send, ReceiptsFrom
<1>10. ASSUME NEW s \in Sessions, Flip(s) PROVE ReceiptsFrom
  BY <1>10 DEF Flip, ReceiptsFrom
<1>11. ASSUME NEW s \in Sessions, Close(s) PROVE ReceiptsFrom
  BY <1>11 DEF Close, ReceiptsFrom
<1>12. ASSUME NEW s \in Sessions, NEW r \in Runs, WatchExpires(s, r)
       PROVE  ReceiptsFrom
  BY <1>12 DEF WatchExpires, ReceiptsFrom
<1>13. ASSUME NEW p \in Procs, Background(p) PROVE ReceiptsFrom
  BY <1>13 DEF Background, voiceVars, ReceiptsFrom
<1>14. ASSUME NEW p \in Procs, NEW c \in Callers, StartReturns(p, c)
       PROVE  ReceiptsFrom
  BY <1>14 DEF StartReturns, ReceiptsFrom
<1>15. CASE UNCHANGED vars
  BY <1>15 DEF vars, voiceVars, ReceiptsFrom
<1> QED
  BY <1>1, <1>2, <1>3, <1>4, <1>5, <1>6, <1>7, <1>8, <1>9, <1>10, <1>11,
     <1>12, <1>13, <1>14, <1>15 DEF Next, SessionStep

\* What was said was said.
LEMMA SaidStays ==
  VoiceTypes /\ [Next]_vars => \A x \in Sessions : said[x] \subseteq said'[x]
<1> SUFFICES ASSUME VoiceTypes, [Next]_vars
             PROVE  \A x \in Sessions : said[x] \subseteq said'[x]
  OBVIOUS
<1>1. ASSUME NEW p \in Procs, ProcessDies(p)
      PROVE  \A x \in Sessions : said[x] \subseteq said'[x]
  BY <1>1 DEF ProcessDies, VoiceTypes
<1>2. ASSUME NEW t \in tees, TeeLands(t)
      PROVE  \A x \in Sessions : said[x] \subseteq said'[x]
  BY <1>2 DEF TeeLands, voiceVars
<1>3. ASSUME NEW t \in tees, TeeIsLost(t)
      PROVE  \A x \in Sessions : said[x] \subseteq said'[x]
  BY <1>3 DEF TeeIsLost, VoiceTypes
<1>4. ASSUME NEW s \in Sessions, Connect(s)
      PROVE  \A x \in Sessions : said[x] \subseteq said'[x]
  BY <1>4 DEF Connect, VoiceTypes
<1>5. ASSUME NEW s \in Sessions, NEW r \in Runs, Adopt(s, r)
      PROVE  \A x \in Sessions : said[x] \subseteq said'[x]
  BY <1>5 DEF Adopt, VoiceTypes
<1>6. ASSUME NEW s \in Sessions, NEW r \in Runs, WatchTick(s, r)
      PROVE  \A x \in Sessions : said[x] \subseteq said'[x]
  BY <1>6 DEF WatchTick, VoiceTypes
<1>7. ASSUME NEW s \in Sessions, NEW r \in Runs, StartWatch(s, r)
      PROVE  \A x \in Sessions : said[x] \subseteq said'[x]
  BY <1>7 DEF StartWatch, VoiceTypes
<1>8. ASSUME NEW s \in Sessions, GoLive(s)
      PROVE  \A x \in Sessions : said[x] \subseteq said'[x]
  BY <1>8 DEF GoLive, VoiceTypes
<1>9. ASSUME NEW s \in Sessions, Send(s)
      PROVE  \A x \in Sessions : said[x] \subseteq said'[x]
  BY <1>9 DEF Send, VoiceTypes
<1>10. ASSUME NEW s \in Sessions, Flip(s)
       PROVE  \A x \in Sessions : said[x] \subseteq said'[x]
  BY <1>10 DEF Flip, VoiceTypes
<1>11. ASSUME NEW s \in Sessions, Close(s)
       PROVE  \A x \in Sessions : said[x] \subseteq said'[x]
  BY <1>11 DEF Close, VoiceTypes
<1>12. ASSUME NEW s \in Sessions, NEW r \in Runs, WatchExpires(s, r)
       PROVE  \A x \in Sessions : said[x] \subseteq said'[x]
  BY <1>12 DEF WatchExpires, VoiceTypes
<1>13. ASSUME NEW p \in Procs, Background(p)
       PROVE  \A x \in Sessions : said[x] \subseteq said'[x]
  BY <1>13 DEF Background, voiceVars
<1>14. ASSUME NEW p \in Procs, NEW c \in Callers, StartReturns(p, c)
       PROVE  \A x \in Sessions : said[x] \subseteq said'[x]
  BY <1>14 DEF StartReturns, VoiceTypes
<1>15. CASE UNCHANGED vars
  BY <1>15 DEF vars, voiceVars
<1> QED
  BY <1>1, <1>2, <1>3, <1>4, <1>5, <1>6, <1>7, <1>8, <1>9, <1>10, <1>11,
     <1>12, <1>13, <1>14, <1>15 DEF Next, SessionStep

\* What is on the wire was said.
LEMMA SendingKept ==
  VoiceTypes /\ HandedOff /\ [Next]_vars => \A x \in Sessions : sending'[x] # None =>
    sending'[x] \in said'[x]
<1> SUFFICES ASSUME VoiceTypes /\ HandedOff, [Next]_vars
             PROVE  \A x \in Sessions : sending'[x] # None => sending'[x] \in said'[x]
  OBVIOUS
<1>1. ASSUME NEW p \in Procs, ProcessDies(p)
      PROVE  \A x \in Sessions : sending'[x] # None => sending'[x] \in said'[x]
  BY <1>1, SaidStays DEF ProcessDies, Forgotten, HandedOff
<1>2. ASSUME NEW t \in tees, TeeLands(t)
      PROVE  \A x \in Sessions : sending'[x] # None => sending'[x] \in said'[x]
  BY <1>2 DEF TeeLands, voiceVars, HandedOff
<1>3. ASSUME NEW t \in tees, TeeIsLost(t)
      PROVE  \A x \in Sessions : sending'[x] # None => sending'[x] \in said'[x]
  BY <1>3, SaidStays DEF TeeIsLost, HandedOff
<1>4. ASSUME NEW s \in Sessions, Connect(s)
      PROVE  \A x \in Sessions : sending'[x] # None => sending'[x] \in said'[x]
  BY <1>4, SaidStays DEF Connect, HandedOff
<1>5. ASSUME NEW s \in Sessions, NEW r \in Runs, Adopt(s, r)
      PROVE  \A x \in Sessions : sending'[x] # None => sending'[x] \in said'[x]
  BY <1>5, SaidStays DEF Adopt, HandedOff
<1>6. ASSUME NEW s \in Sessions, NEW r \in Runs, WatchTick(s, r)
      PROVE  \A x \in Sessions : sending'[x] # None => sending'[x] \in said'[x]
  BY <1>6, SaidStays DEF WatchTick, HandedOff
<1>7. ASSUME NEW s \in Sessions, NEW r \in Runs, StartWatch(s, r)
      PROVE  \A x \in Sessions : sending'[x] # None => sending'[x] \in said'[x]
  BY <1>7, SaidStays DEF StartWatch, HandedOff
<1>8. ASSUME NEW s \in Sessions, GoLive(s)
      PROVE  \A x \in Sessions : sending'[x] # None => sending'[x] \in said'[x]
  BY <1>8, SaidStays DEF GoLive, HandedOff
<1>9. ASSUME NEW s \in Sessions, Send(s)
      PROVE  \A x \in Sessions : sending'[x] # None => sending'[x] \in said'[x]
  BY <1>9 DEF Send, HandedOff, VoiceTypes
<1>10. ASSUME NEW s \in Sessions, Flip(s)
       PROVE  \A x \in Sessions : sending'[x] # None => sending'[x] \in said'[x]
  BY <1>10 DEF Flip, HandedOff, VoiceTypes
<1>11. ASSUME NEW s \in Sessions, Close(s)
       PROVE  \A x \in Sessions : sending'[x] # None => sending'[x] \in said'[x]
  BY <1>11, SaidStays DEF Close, Forgotten, HandedOff
<1>12. ASSUME NEW s \in Sessions, NEW r \in Runs, WatchExpires(s, r)
       PROVE  \A x \in Sessions : sending'[x] # None => sending'[x] \in said'[x]
  BY <1>12, SaidStays DEF WatchExpires, HandedOff
<1>13. ASSUME NEW p \in Procs, Background(p)
       PROVE  \A x \in Sessions : sending'[x] # None => sending'[x] \in said'[x]
  BY <1>13 DEF Background, voiceVars, HandedOff
<1>14. ASSUME NEW p \in Procs, NEW c \in Callers, StartReturns(p, c)
       PROVE  \A x \in Sessions : sending'[x] # None => sending'[x] \in said'[x]
  BY <1>14, SaidStays DEF StartReturns, HandedOff
<1>15. CASE UNCHANGED vars
  BY <1>15 DEF vars, voiceVars, HandedOff
<1> QED
  BY <1>1, <1>2, <1>3, <1>4, <1>5, <1>6, <1>7, <1>8, <1>9, <1>10, <1>11,
     <1>12, <1>13, <1>14, <1>15 DEF Next, SessionStep

\* A session has only what it is owed, whoever else runs.
LEMMA RoutedKept ==
  ASSUME RegInv, RegInv', VoiceTypes, VoiceTypes', Bindings, Routed, [Next]_vars
  PROVE  Routed'
<1>1. RecordsStay /\ BoundsStay /\ HandsFrom /\ ReceiptsFrom
  BY RecordsKept, BoundsKept, HandsMove, ReceiptsMove
<1>2. \A x \in Runs : disk[x] # None => disk[x].ticket \in Sessions
  BY DEF RegInv, TInv, TypeOK, Records
<1>3. ASSUME NEW s \in Sessions, NEW r \in Runs, OwedTo(s, r) PROVE OwedTo(s, r)'
  BY <1>1, <1>2, <1>3 DEF OwedTo, RecordsStay, BoundsStay
<1>4. \A s \in Sessions : Hands(s)' \subseteq Runs
  <2>1. \A s \in Sessions : queue'[s] \in Seq(Runs)
    BY DEF VoiceTypes
  <2>2. \A s \in Sessions : Elements(queue'[s]) \subseteq Runs
    BY <2>1 DEF Elements
  <2> QED
    BY <2>2 DEF Hands, Queued, VoiceTypes
<1>5. ASSUME NEW s \in Sessions, NEW r \in Hands(s)' PROVE OwedTo(s, r)'
  <2>1. r \in Runs
    BY <1>4
  <2>2. CASE r \in Hands(s)
    BY <1>3, <2>1, <2>2 DEF Routed
  <2>3. CASE r \in receipts /\ disk[r].ticket = s
    BY <1>3, <2>1, <2>3 DEF Routed, OwedTo
  <2>4. CASE /\ bound'[s] # Standalone /\ r \in Owed(Home[s], s, bound'[s])
             /\ UNCHANGED <<runs, call, disk>>
    <3>1. Merged(Home[s], r) # None /\ bound[Merged(Home[s], r).ticket] = bound'[s]
      BY <2>4 DEF Owed
    <3>2. disk[r] # None /\ disk[r].ticket = Merged(Home[s], r).ticket
      BY <2>1, <3>1, HomeAssumption DEF Merged, RegInv, IdInv, RouteDurable
    <3>3. bound'[disk[r].ticket] = bound'[s]
      BY <1>1, <1>2, <2>1, <2>4, <3>1, <3>2 DEF BoundsStay
    <3> QED
      BY <2>4, <3>2, <3>3 DEF OwedTo
  <2> QED
    BY <1>1, <2>2, <2>3, <2>4 DEF HandsFrom
<1>6. ASSUME NEW r \in receipts' PROVE disk'[r] # None
  <2>1. r \in Runs
    BY DEF VoiceTypes
  <2>2. disk[r] # None
    <3>1. CASE r \in receipts
      BY <3>1 DEF Routed
    <3>2. ASSUME NEW p \in Procs, NEW c \in Callers, call[p][c].id = r, StartReturns(p, c)
          PROVE  disk[r] # None
      <4>1. call[p][c].at = "accepted"
        BY <3>2 DEF StartReturns, Insert
      <4> QED
        BY <3>2, <4>1 DEF RegInv, IdInv, RouteDurable
    <3> QED
      BY <1>1, <1>6, <3>1, <3>2 DEF ReceiptsFrom
  <2> QED
    BY <1>1, <2>1, <2>2 DEF RecordsStay
<1> QED
  BY <1>5, <1>6 DEF Routed

\* Nothing is recorded as delivered that was not handed to the wire.
LEMMA HandedOffKept ==
  ASSUME RegInv, VoiceTypes, HandedOff, [Next]_vars
  PROVE  HandedOff'
<1>1. ASSUME NEW r \in Runs, DeliveredAt(r)' PROVE Said(r)'
  <2>1. DeliveredAt(r) \/ \E s \in Sessions : sending[s] = r
    BY <1>1, DeliveredKept
  <2>2. \A s \in Sessions : sending[s] = r => r # None
    BY CollectAssumption
  <2>3. Said(r)
    BY <2>1, <2>2 DEF HandedOff, Said
  <2> QED
    BY <2>3, SaidStays DEF Said
<1> QED
  BY <1>1, SendingKept DEF HandedOff

\* Nothing was said or routed yet.
LEMMA SaidInit == Init => SaidInv
<1> SUFFICES ASSUME Init PROVE SaidInv
  OBVIOUS
<1>1. \A s \in Sessions : Hands(s) = {}
  BY DEF Init, Hands, Queued, Elements
<1> QED
  BY <1>1 DEF Init, RegInit, SaidInv, Bindings, Routed, HandedOff, DeliveredAt

\* Every step keeps the bindings, the routes and the hand-offs.
LEMMA SaidStep ==
  RegInv /\ VoiceTypes /\ SaidInv /\ [Next]_vars => RegInv' /\ VoiceTypes' /\ SaidInv'
<1> SUFFICES ASSUME RegInv, VoiceTypes, SaidInv, [Next]_vars
             PROVE  RegInv' /\ VoiceTypes' /\ SaidInv'
  OBVIOUS
<1>1. RegInv' /\ VoiceTypes'
  BY RegKept, TypesStep DEF RegInv
<1> QED
  BY <1>1, BoundsKept, RoutedKept, HandedOffKept DEF SaidInv

\* What SaidInv says of consumed and of spoken results.
LEMMA SaidIsSafe == VoiceTypes /\ SaidInv => DeliveredWasSaid /\ SpokenWhereOwed
BY DEF VoiceTypes, SaidInv, HandedOff, Said, DeliveredAt, DeliveredWasSaid, Routed, Hands, Queued,
       Elements, OwedTo, SpokenWhereOwed

\* A result is consumed only after it was said, and a session says and claims
\* only what was accepted under its own ticket or binding: whatever the tees,
\* stolen claims, failed writes, crashes and other processes do.
THEOREM SaidWhereOwed == Spec => [](DeliveredWasSaid /\ SpokenWhereOwed)
<1>1. Init => RegInv /\ VoiceTypes /\ SaidInv
  BY TypeInit, IdInit, TypesInit, SaidInit DEF Init, RegInv
<1> QED
  BY <1>1, SaidIsSafe, SaidStep, PTL DEF Spec
==============================================================================
