------------------------------ MODULE TalkRuns ------------------------------
(***************************************************************************)
(* The async-run registry of hermes-talk (talk_runs.py).                   *)
(*                                                                         *)
(* Every process that imports the module keeps its own registry of runs,   *)
(* its own admission reservations and its own bound Talk connection; all   *)
(* processes share one JSONL history.  Here the history is the newest      *)
(* record of each run id (RunHistory models the file itself).  A write to  *)
(* the history that the code makes after it has released _RUN_LOCK is a    *)
(* tee: it is in flight from the step that built it until it is appended,  *)
(* and other threads may run in between.                                   *)
(***************************************************************************)
EXTENDS Integers, FiniteSets

CONSTANTS
  Procs,                \* processes that import talk_runs (CLI lane, dashboard lane)
  Callers,              \* tool-pool threads of a process that may be in start_run
  Sessions,             \* Talk sessions: ticket owners and delivery claimants
  Claimants,            \* the sessions that collect results (the dashboard lane never does)
  Home,                 \* Home[s]: the process session s connects in
  Keys,                 \* resource keys, already normalised
  TrustSettings,        \* the settings of the trust knob the operator may choose
  None,                 \* no entry, no record, no owner, no claimant
  MaxRuns,              \* bound on run ids
  MaxLive,              \* _MAX_RUNS: the registry cap eviction enforces
  MaxNotes,             \* bound on receipts annotated on one run
  MaxFaults,            \* bound on failed history writes
  PromptTees,           \* TRUE: no other thread runs while a tee is in flight
  ClaimantGone,         \* TRUE: a history claim is only tried on a run no process holds
  ThreadStartMayFail    \* TRUE: thread.start() of a worker may raise

ASSUME HomeAssumption == Home \in [Sessions -> Procs] /\ Claimants \subseteq Sessions
ASSUME TrustAssumption == TrustSettings \in SUBSET BOOLEAN
ASSUME BoundsAssumption ==
  /\ MaxRuns \in Nat /\ MaxLive \in Nat /\ MaxNotes \in Nat /\ MaxFaults \in Nat
  /\ PromptTees \in BOOLEAN /\ ClaimantGone \in BOOLEAN
  /\ ThreadStartMayFail \in BOOLEAN

VARIABLES
  runs,      \* runs[p][r]: the entry of run r in _RUNS of p, or None
  call,      \* call[p][c]: how far thread c of p is inside start_run
  reserved,  \* reserved[p]: callers of p whose keys are in _RESERVATIONS
  seq,       \* seq[p]: _RUN_SEQ
  owner,     \* owner[p]: the session bound by attach_owner, or None
  trust,     \* trust[p]: TALK_TRUST_DECLARED_READ_ONLY
  work,      \* work[p]: runs whose worker thread is alive
  disk,      \* disk[r]: the newest history record of run r, or None
  tees,      \* history writes in flight
  faults     \* failed history writes so far

regVars == <<runs, call, reserved, seq, owner, trust, work, disk, tees, faults>>

Runs     == 1 .. MaxRuns
Modes    == {"exclusive", "parallel_read_only"}
Terminal == {"done", "failed"}

Entries == [status: {"running"} \union Terminal,
            delivery: {"pending", "claimed", "delivered"},
            claimant: Sessions \union {None}, ticket: Sessions,
            notes: 0 .. MaxNotes, mode: Modes, keys: SUBSET Keys]

Records == [status: {"running"} \union Terminal,
            delivery: {"pending", "claimed", "delivered"},
            claimant: Sessions \union {None}, ticket: Sessions,
            notes: 0 .. MaxNotes]

Calls == [at: {"idle", "declared", "admitted", "accepted"},
          owner: Sessions \union {None}, mode: Modes, keys: SUBSET Keys,
          id: 0 .. MaxRuns]

Tees == [proc: Procs, run: Runs, by: {"worker", "tool", "voice"}, rec: Records]

ASSUME NoneAssumption == None \notin Sessions /\ None \notin Entries /\ None \notin Records

TypeOK ==
  /\ runs \in [Procs -> [Runs -> Entries \union {None}]]
  /\ call \in [Procs -> [Callers -> Calls]]
  /\ reserved \in [Procs -> SUBSET Callers]
  /\ seq \in [Procs -> 0 .. MaxRuns]
  /\ owner \in [Procs -> Sessions \union {None}]
  /\ trust \in [Procs -> BOOLEAN]
  /\ work \in [Procs -> SUBSET Runs]
  /\ disk \in [Runs -> Records \union {None}]
  /\ tees \in SUBSET Tees
  /\ faults \in 0 .. MaxFaults

NotCalling == [at |-> "idle", owner |-> None, mode |-> "exclusive",
               keys |-> {}, id |-> 0]

RegInit ==
  /\ runs = [p \in Procs |-> [r \in Runs |-> None]]
  /\ call = [p \in Procs |-> [c \in Callers |-> NotCalling]]
  /\ reserved = [p \in Procs |-> {}]
  /\ seq = [p \in Procs |-> 0]
  /\ owner = [p \in Procs |-> None]
  /\ trust = [p \in Procs |-> FALSE]
  /\ work = [p \in Procs |-> {}]
  /\ disk = [r \in Runs |-> None]
  /\ tees = {}
  /\ faults = 0

-----------------------------------------------------------------------------
(* The bound connection and the trust knob.                                *)

AttachOwner(s) ==
  /\ owner' = [owner EXCEPT ![Home[s]] = s]
  /\ UNCHANGED <<runs, call, reserved, seq, trust, work, disk, tees, faults>>

DetachOwner(p) ==
  /\ owner' = [owner EXCEPT ![p] = None]
  /\ UNCHANGED <<runs, call, reserved, seq, trust, work, disk, tees, faults>>

\* The operator changes the environment; the code reads it at call time.
SetTrust(p) ==
  /\ \E on \in TrustSettings \ {trust[p]} : trust' = [trust EXCEPT ![p] = on]
  /\ UNCHANGED <<runs, call, reserved, seq, owner, work, disk, tees, faults>>

-----------------------------------------------------------------------------
(* start_run: declaration, admission, acceptance, insertion.               *)

ResolveMode(p, mode) == IF trust[p] THEN mode ELSE "exclusive"

Running(p) == {r \in Runs : runs[p][r] # None /\ runs[p][r].status = "running"}

\* Variant: the holder is judged by the knob as it was at its admission.
ReadOnlyAtAdmission(p, holder) == holder.mode = "parallel_read_only"

ReadOnlyNow(p, holder) == holder.mode = "parallel_read_only" /\ trust[p]

\* Variant: a sibling between its admission and its insert holds nothing.
RunningHolders(p) == {runs[p][r] : r \in Running(p)}

\* The live holders of p: running entries and reservations.
Holders(p) == {runs[p][r] : r \in Running(p)} \union {call[p][c] : c \in reserved[p]}

Conflict(p, mode, keys) ==
  \E h \in Holders(p) :
    /\ h.keys \intersect keys # {}
    /\ ~(mode = "parallel_read_only" /\ ReadOnlyNow(p, h))

\* Without a bound connection the declaration is refused and nothing changes.
Declare(p, c) ==
  /\ call[p][c].at = "idle"
  /\ owner[p] # None
  /\ \E mode \in Modes, keys \in SUBSET Keys :
       call' = [call EXCEPT ![p][c] =
                  [at |-> "declared", owner |-> owner[p],
                   mode |-> ResolveMode(p, mode), keys |-> keys, id |-> 0]]
  /\ UNCHANGED <<runs, reserved, seq, owner, trust, work, disk, tees, faults>>

Admit(p, c) ==
  /\ call[p][c].at = "declared"
  /\ ~Conflict(p, call[p][c].mode, call[p][c].keys)
  /\ call' = [call EXCEPT ![p][c].at = "admitted"]
  /\ reserved' = [reserved EXCEPT ![p] =
                    IF call[p][c].keys = {} THEN @ ELSE @ \union {c}]
  /\ UNCHANGED <<runs, seq, owner, trust, work, disk, tees, faults>>

Refuse(p, c) ==
  /\ call[p][c].at = "declared"
  /\ Conflict(p, call[p][c].mode, call[p][c].keys)
  /\ call' = [call EXCEPT ![p][c] = NotCalling]
  /\ UNCHANGED <<runs, reserved, seq, owner, trust, work, disk, tees, faults>>

\* Variant: the id is taken from the process's own counter alone.
NextIdNoFloor(p, id) == id = seq[p] + 1

\* id = max(_RUN_SEQ, highest id in the history) + 1
NextId(p, id) ==
  /\ seq[p] < id
  /\ \A r \in Runs : disk[r] # None => r < id
  /\ id = seq[p] + 1 \/ (id - 1 \in Runs /\ disk[id - 1] # None)

Accepted(s) == [status |-> "running", delivery |-> "pending", claimant |-> None,
                ticket |-> s, notes |-> 0]

\* The id is minted and its record appended under the file lock.
Accept(p, c) ==
  /\ call[p][c].at = "admitted"
  /\ \E id \in Runs :
       /\ NextId(p, id)
       /\ seq' = [seq EXCEPT ![p] = id]
       /\ disk' = [disk EXCEPT ![id] = Accepted(call[p][c].owner)]
       /\ call' = [call EXCEPT ![p][c].at = "accepted", ![p][c].id = id]
  /\ UNCHANGED <<runs, reserved, owner, trust, work, tees, faults>>

\* Variant: the refusal leaves the reservation behind.
AcceptFailsLeaking(p, c) ==
  /\ call[p][c].at = "admitted"
  /\ faults < MaxFaults
  /\ faults' = faults + 1
  /\ call' = [call EXCEPT ![p][c] = NotCalling]
  /\ UNCHANGED <<runs, reserved, seq, owner, trust, work, disk, tees>>

\* The write raised: the id is burned, or the lock timed out before one was
\* minted.  The reservation is released and the caller is refused.
AcceptFails(p, c) ==
  /\ call[p][c].at = "admitted"
  /\ faults < MaxFaults
  /\ faults' = faults + 1
  /\ \/ \E id \in Runs : NextId(p, id) /\ seq' = [seq EXCEPT ![p] = id]
     \/ UNCHANGED seq
  /\ reserved' = [reserved EXCEPT ![p] = @ \ {c}]
  /\ call' = [call EXCEPT ![p][c] = NotCalling]
  /\ UNCHANGED <<runs, owner, trust, work, disk, tees>>

Landed(reg) == {r \in Runs : reg[r] # None /\ reg[r].status \in Terminal}

\* _evict_locked: landed runs past the TTL go, then the oldest landed ones
\* until the cap holds.  Ages are not modelled: any set of landed runs may go
\* that leaves the registry within the cap or without a landed run.
Evicted(reg, gone) == [r \in Runs |-> IF r \in gone THEN None ELSE reg[r]]

MayEvict(reg, gone) ==
  /\ gone \subseteq Landed(reg)
  /\ \/ Cardinality({r \in Runs : Evicted(reg, gone)[r] # None}) <= MaxLive
     \/ gone = Landed(reg)

NewEntry(s, mode, keys) ==
  [status |-> "running", delivery |-> "pending", claimant |-> None, ticket |-> s,
   notes |-> 0, mode |-> mode, keys |-> keys]

\* Variant: the entry is owned by whoever is bound when it is inserted.
EntryLateOwner(p, c) == NewEntry(owner[p], call[p][c].mode, call[p][c].keys)

Entry(p, c) == NewEntry(call[p][c].owner, call[p][c].mode, call[p][c].keys)

Insert(p, c) ==
  LET id  == call[p][c].id
      reg == [runs[p] EXCEPT ![id] = Entry(p, c)]
  IN  /\ call[p][c].at = "accepted"
      /\ \E gone \in SUBSET Runs :
           /\ MayEvict(reg, gone)
           /\ runs' = [runs EXCEPT ![p] = Evicted(reg, gone)]
      /\ reserved' = [reserved EXCEPT ![p] = @ \ {c}]
      /\ call' = [call EXCEPT ![p][c] = NotCalling]
      /\ \/ work' = [work EXCEPT ![p] = @ \union {id}]
         \/ ThreadStartMayFail /\ UNCHANGED work
      /\ UNCHANGED <<seq, owner, trust, disk, tees, faults>>

-----------------------------------------------------------------------------
(* The worker, the receipts and the two-phase delivery claim.              *)

\* Variant: the record leaves the delivery columns behind.
RecordWithoutDelivery(e) ==
  [status |-> e.status, delivery |-> "pending", claimant |-> None,
   ticket |-> e.ticket, notes |-> e.notes]

RecordOf(e) == [status |-> e.status, delivery |-> e.delivery,
                claimant |-> e.claimant, ticket |-> e.ticket, notes |-> e.notes]

Tee(p, r, by, e) == [proc |-> p, run |-> r, by |-> by, rec |-> RecordOf(e)]

\* The worker thread is blocked in the append of a tee it built.
WorkerBusy(p, r) == \E t \in tees : t.proc = p /\ t.run = r /\ t.by = "worker"

\* The session's event loop is blocked in the append of a tee it built.
VoiceBusy(s) == \E t \in tees : t.by = "voice" /\ t.rec.claimant = s

\* A change of an entry under _RUN_LOCK, with the tee it leaves behind.
Change(p, r, by, e) ==
  /\ runs' = [runs EXCEPT ![p][r] = e]
  /\ tees' = tees \union {Tee(p, r, by, e)}

\* Variant: the last finish wins.
FinishRunLastWins(p, r, status) ==
  IF runs[p][r] # None
  THEN Change(p, r, "worker", [runs[p][r] EXCEPT !.status = status])
  ELSE UNCHANGED <<runs, tees>>

\* finish_run: first writer wins, a second finish is a no-op.
FinishRun(p, r, status) ==
  IF runs[p][r] # None /\ runs[p][r].status \notin Terminal
  THEN Change(p, r, "worker", [runs[p][r] EXCEPT !.status = status])
  ELSE UNCHANGED <<runs, tees>>

\* _run_worker: the worker returned or raised; its thread ends.
WorkerEnds(p, r) ==
  /\ r \in work[p] /\ ~WorkerBusy(p, r)
  /\ \E status \in Terminal : FinishRun(p, r, status)
  /\ work' = [work EXCEPT ![p] = @ \ {r}]
  /\ UNCHANGED <<call, reserved, seq, owner, trust, disk, faults>>

\* A lane marks its run failed from inside the worker, which still returns.
LaneFails(p, r) ==
  /\ r \in work[p] /\ ~WorkerBusy(p, r)
  /\ FinishRun(p, r, "failed")
  /\ UNCHANGED <<call, reserved, seq, owner, trust, work, disk, faults>>

Annotate(p, r) ==
  /\ runs[p][r] # None
  /\ runs[p][r].notes < MaxNotes
  /\ Change(p, r, "tool", [runs[p][r] EXCEPT !.notes = @ + 1])
  /\ UNCHANGED <<call, reserved, seq, owner, trust, work, disk, faults>>

CanClaimLive(p, r) ==
  /\ runs[p][r] # None
  /\ runs[p][r].status \in Terminal
  /\ runs[p][r].delivery = "pending"

ClaimLive(p, r, s) ==
  /\ CanClaimLive(p, r) /\ ~VoiceBusy(s)
  /\ Change(p, r, "voice", [runs[p][r] EXCEPT !.delivery = "claimed", !.claimant = s])
  /\ UNCHANGED <<call, reserved, seq, owner, trust, work, disk, faults>>

\* Variant: a claim is never stolen.
CanClaimPendingInHistory(p, r, s) ==
  /\ runs[p][r] = None
  /\ disk[r] # None
  /\ disk[r].status \in Terminal
  /\ disk[r].delivery = "pending"

\* Only a run this process does not hold is claimed in the history, and a
\* claim of another session is stolen.
CanClaimInHistory(p, r, s) ==
  /\ runs[p][r] = None
  /\ disk[r] # None
  /\ disk[r].status \in Terminal
  /\ disk[r].delivery # "delivered"
  /\ ~(disk[r].delivery = "claimed" /\ disk[r].claimant = s)

ClaimInHistory(p, r, s) ==
  /\ CanClaimInHistory(p, r, s) /\ ~VoiceBusy(s)
  /\ ClaimantGone => \A q \in Procs : runs[q][r] = None
  /\ disk' = [disk EXCEPT ![r].delivery = "claimed", ![r].claimant = s]
  /\ UNCHANGED <<runs, call, reserved, seq, owner, trust, work, tees, faults>>

CanDeliverLive(p, r, s) ==
  /\ runs[p][r] # None
  /\ runs[p][r].status \in Terminal
  /\ runs[p][r].delivery = "claimed"
  /\ runs[p][r].claimant = s

DeliverLive(p, r, s) ==
  /\ CanDeliverLive(p, r, s) /\ ~VoiceBusy(s)
  /\ Change(p, r, "voice", [runs[p][r] EXCEPT !.delivery = "delivered"])
  /\ UNCHANGED <<call, reserved, seq, owner, trust, work, disk, faults>>

CanDeliverInHistory(p, r, s) ==
  /\ runs[p][r] = None
  /\ disk[r] # None
  /\ disk[r].delivery = "claimed"
  /\ disk[r].claimant = s

DeliverInHistory(p, r, s) ==
  /\ CanDeliverInHistory(p, r, s) /\ ~VoiceBusy(s)
  /\ disk' = [disk EXCEPT ![r].delivery = "delivered"]
  /\ UNCHANGED <<runs, call, reserved, seq, owner, trust, work, tees, faults>>

-----------------------------------------------------------------------------
(* Tees reach the history, fail open, or die with their process.           *)

AppendTee(t) ==
  /\ t \in tees
  /\ tees' = tees \ {t}
  /\ disk' = [disk EXCEPT ![t.run] = t.rec]
  /\ UNCHANGED <<runs, call, reserved, seq, owner, trust, work, faults>>

TeeFails(t) ==
  /\ t \in tees
  /\ faults < MaxFaults
  /\ faults' = faults + 1
  /\ tees' = tees \ {t}
  /\ UNCHANGED <<runs, call, reserved, seq, owner, trust, work, disk>>

\* The process dies: only the history survives it.
Crash(p) ==
  /\ runs' = [runs EXCEPT ![p] = [r \in Runs |-> None]]
  /\ call' = [call EXCEPT ![p] = [c \in Callers |-> NotCalling]]
  /\ reserved' = [reserved EXCEPT ![p] = {}]
  /\ seq' = [seq EXCEPT ![p] = 0]
  /\ owner' = [owner EXCEPT ![p] = None]
  /\ work' = [work EXCEPT ![p] = {}]
  /\ tees' = {t \in tees : t.proc # p}
  /\ UNCHANGED <<trust, disk, faults>>

ClaimantsOf(p) == {s \in Claimants : Home[s] = p}

Prompt == PromptTees => tees = {}

RegNext ==
  \/ \E p \in Procs : Crash(p)
  \/ \E t \in tees : AppendTee(t) \/ TeeFails(t)
  \/ Prompt /\ \E s \in Sessions : AttachOwner(s)
  \/ /\ Prompt
     /\ \E p \in Procs :
          \/ DetachOwner(p)
          \/ SetTrust(p)
          \/ \E c \in Callers : \/ Declare(p, c) \/ Admit(p, c) \/ Refuse(p, c)
                                \/ Accept(p, c) \/ AcceptFails(p, c) \/ Insert(p, c)
          \/ \E r \in Runs : \/ WorkerEnds(p, r) \/ LaneFails(p, r) \/ Annotate(p, r)
                             \/ \E s \in ClaimantsOf(p) :
                                  \/ ClaimLive(p, r, s) \/ ClaimInHistory(p, r, s)
                                  \/ DeliverLive(p, r, s) \/ DeliverInHistory(p, r, s)

RegSpec == RegInit /\ [][RegNext]_regVars

-----------------------------------------------------------------------------
(* Properties.                                                             *)

MayShare(a, b) ==
  \/ a.keys \intersect b.keys = {}
  \/ a.mode = "parallel_read_only" /\ b.mode = "parallel_read_only"

\* Two live holders of a process - running entries, or reservations between
\* the admission check and the insert - share a key only when both were
\* admitted read-only, whatever the interleaving of concurrent start_run calls.
Fence ==
  \A p \in Procs :
    /\ \A q, r \in Running(p) : q # r => MayShare(runs[p][q], runs[p][r])
    /\ \A r \in Running(p), c \in reserved[p] : MayShare(runs[p][r], call[p][c])
    /\ \A c, d \in reserved[p] : c # d => MayShare(call[p][c], call[p][d])

\* A reservation lives exactly from admission to insertion or refusal: none
\* outlives the start_run that took it, and none is missing in between.
ReservationsMatchCalls ==
  \A p \in Procs : reserved[p] =
    {c \in Callers : call[p][c].at \in {"admitted", "accepted"} /\ call[p][c].keys # {}}

HolderCount(p, k) ==
  Cardinality({r \in Running(p) : k \in runs[p][r].keys})
    + Cardinality({c \in reserved[p] : k \in call[p][c].keys})

\* No step makes a second holder of a key while the operator's trust knob is
\* off, even for a declaration that was resolved while the knob was on.
OverlapGrowsOnlyUnderTrust ==
  [][\A p \in Procs, k \in Keys :
       HolderCount(p, k)' > HolderCount(p, k) /\ HolderCount(p, k) > 0 => trust[p]]_regVars

\* An id names one run: it is in the registry of at most one process, and an id
\* minted but not yet inserted is in no registry and in no other call.
IdsUnique ==
  /\ \A p, q \in Procs, r \in Runs :
       runs[p][r] # None /\ runs[q][r] # None => p = q
  /\ \A p, q \in Procs, c \in Callers :
       call[p][c].at = "accepted" =>
         /\ runs[q][call[p][c].id] = None
         /\ \A d \in Callers :
              call[q][d].at = "accepted" /\ call[q][d].id = call[p][c].id
                => p = q /\ c = d

\* Acceptance before work: a run that has an entry, a worker or an id handed to
\* start_run has a history record, and the record names the session the entry
\* names - the one bound when the run was declared, however often the
\* connection was rebound since.
RouteDurable ==
  /\ \A p \in Procs, r \in Runs : runs[p][r] # None =>
       disk[r] # None /\ disk[r].ticket = runs[p][r].ticket
  /\ \A p \in Procs, c \in Callers : call[p][c].at = "accepted" =>
       disk[call[p][c].id] # None /\ disk[call[p][c].id].ticket = call[p][c].owner

Rank(delivery) == CASE delivery = "pending" -> 0
                    [] delivery = "claimed" -> 1
                    [] delivery = "delivered" -> 2

\* In the registry the first finish wins and delivery only advances.
LandedRunSticks ==
  [][\A p \in Procs, r \in Runs :
       /\ runs[p][r] # None /\ runs'[p][r] # None
       /\ runs[p][r].status \in Terminal
       => /\ runs'[p][r].status = runs[p][r].status
          /\ Rank(runs'[p][r].delivery) >= Rank(runs[p][r].delivery)]_regVars

\* A record or a snapshot d is not ahead of the entry e of the same run.
Trails(d, e) == (d.status \in Terminal => e.status = d.status) /\ d.notes <= e.notes

\* The entry of a run is never behind a record of it or a snapshot on its way:
\* what an append out of order takes from the journal, the registry still holds.
JournalTrails ==
  \A p \in Procs, r \in Runs : runs[p][r] # None =>
    /\ Trails(disk[r], runs[p][r])
    /\ \A t \in tees : t.run = r => Trails(t.rec, runs[p][r])

\* The newest record of a run never loses a landing, a delivery step or a
\* receipt that an earlier record of it carried.
JournalNeverRegresses ==
  [][\A r \in Runs : disk[r] # None =>
       /\ disk'[r] # None
       /\ disk[r].status \in Terminal => disk'[r].status = disk[r].status
       /\ Rank(disk'[r].delivery) >= Rank(disk[r].delivery)
       /\ disk'[r].notes >= disk[r].notes]_regVars

\* A run that holds resource keys has a live worker or has landed.  (Refuted
\* with ThreadStartMayFail: start_run leaves the entry running.)
KeysHeldByWorkers ==
  \A p \in Procs : \A r \in Running(p) : runs[p][r].keys # {} => r \in work[p]
=============================================================================
