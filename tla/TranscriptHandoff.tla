------------------------- MODULE TranscriptHandoff -------------------------
(***************************************************************************)
(* talk_transcript.py: one transcript file, the capture that writes it and *)
(* the sweeps of several processes that claim it by renaming, hand it to   *)
(* Hermes's memory and remove it.  A lease, an flock on a file beside the  *)
(* transcript, keeps them apart; the lease file is unlinked after use, so  *)
(* the model tells the path from the inodes that were found there.         *)
(* Processes are killed between any two steps; the system then drops their *)
(* locks.                                                                  *)
(***************************************************************************)
EXTENDS Naturals, FiniteSets

CONSTANTS Processes,   \* the writer's process is one of them
          Sweepers,    \* threads that sweep or hand off
          Home,        \* [Sweepers -> Processes]
          Author,      \* the process of the capture
          MinTurns,    \* MIN_TURNS
          MaxTurns,    \* bound: turns appended
          MaxClaims,   \* bound: claims, each a name of its own
          MaxInodes,   \* bound: lease files created
          MaxKills     \* bound: processes killed

ASSUME HandoffAssumption == Author \in Processes /\ Home \in [Sweepers -> Processes]

VARIABLES name,    \* the transcript's name: Unborn, Removed, Original or a claim's number
          turns,   \* rows in it, and whether they hold MIN_CHARS
          long,
          path,    \* the inode at the lease path, 0 when there is none
          inodes,
          locks,   \* inode -> who holds its lock
          capture, \* TranscriptCapture: new, writing (with its lease), finished, killed
          sweep,   \* Sweepers -> how far it is
          active,  \* Processes -> _ACTIVE_TRANSCRIPTS
          claims,
          handed,  \* the turns of the handoffs that were accepted
          kills

handVars == <<name, turns, long, path, inodes, locks, capture, sweep, active, claims, handed, kills>>

Unborn == 100
Removed == 101
Original == 0
NoOne == "none"
Writer == "writer"

Resting == [at |-> "rests", source |-> Unborn, lease |-> 0, claim |-> Unborn, answer |-> "none"]

HandInit ==
  /\ name = Unborn /\ turns = 0 /\ long = FALSE /\ path = 0 /\ inodes = 0
  /\ locks = [i \in 1..MaxInodes |-> NoOne]
  /\ capture = [at |-> "new", lease |-> 0]
  /\ sweep = [s \in Sweepers |-> Resting]
  /\ active = [p \in Processes |-> IF p = Author THEN {Original} ELSE {}]
  /\ claims = 0 /\ handed = {} /\ kills = 0

\* os.open with O_CREAT: the inode at the path, a new one when there is none.
OpenLease == IF path # 0 THEN path ELSE inodes + 1
Opened == path' = OpenLease /\ inodes' = (IF path # 0 THEN inodes ELSE inodes + 1)
\* Variant: a lease that another holds is taken all the same.
FreeAny(inode) == inode # 0
\* flock with LOCK_NB succeeds.
Free(inode) == locks[inode] = NoOne

------------------------------------------------------------------------------
(* TranscriptCapture *)

\* append_turn: the first turn takes the lease, before the file exists.
AppendTurn ==
  /\ capture.at \in {"new", "writing"} /\ turns < MaxTurns
  /\ IF capture.lease # 0 THEN UNCHANGED <<path, inodes, locks, capture>>
     ELSE /\ inodes < MaxInodes /\ Opened /\ Free(OpenLease)
          /\ capture' = [at |-> "writing", lease |-> OpenLease]
          /\ locks' = [locks EXCEPT ![OpenLease] = Writer]
  /\ turns' = turns + 1 /\ long' \in {long, TRUE} /\ name' = (IF name \in {Unborn, Removed} THEN Original ELSE name)
  /\ UNCHANGED <<sweep, active, claims, handed, kills>>

\* finish: no turn is taken from here on.
Finish ==
  /\ capture.at \in {"new", "writing"}
  /\ capture' = [at |-> "finished", lease |-> 0]
  /\ locks' = [i \in DOMAIN locks |-> IF i = capture.lease THEN NoOne ELSE locks[i]]
  /\ active' = [active EXCEPT ![Author] = @ \ {Original}]
  /\ UNCHANGED <<name, turns, long, path, inodes, sweep, claims, handed, kills>>

------------------------------------------------------------------------------
(* _sweep_transcripts and the handoff *)

SweepGoes(s, fields) ==
  sweep' = [sweep EXCEPT ![s] = [f \in DOMAIN @ |-> IF f \in DOMAIN fields THEN fields[f] ELSE @[f]]]

\* The candidates are listed: whatever name the transcript has now.
Lists(s) ==
  /\ sweep[s].at = "rests" /\ name \in 0..MaxClaims
  /\ SweepGoes(s, [at |-> "listed", source |-> name])
  /\ UNCHANGED <<name, turns, long, path, inodes, locks, capture, active, claims, handed, kills>>

\* One that this process has in hand is left alone; else the lease file is opened.
Considers(s) ==
  /\ sweep[s].at = "listed"
  /\ IF sweep[s].source \in active[Home[s]]
     THEN SweepGoes(s, Resting) /\ UNCHANGED <<path, inodes>>
     ELSE (path # 0 \/ inodes < MaxInodes) /\ Opened /\ SweepGoes(s, [at |-> "leasing", lease |-> OpenLease])
  /\ UNCHANGED <<name, turns, long, locks, capture, active, claims, handed, kills>>

\* _Lease.try_acquire goes on: the lock, on the inode that was opened.
Leases(s) ==
  /\ sweep[s].at = "leasing"
  /\ IF Free(sweep[s].lease)
     THEN SweepGoes(s, [at |-> "leased"]) /\ locks' = [locks EXCEPT ![sweep[s].lease] = s]
     ELSE SweepGoes(s, Resting) /\ UNCHANGED locks
  /\ UNCHANGED <<name, turns, long, path, inodes, capture, active, claims, handed, kills>>

Unlocked(s) == [i \in DOMAIN locks |-> IF i = sweep[s].lease /\ locks[i] = s THEN NoOne ELSE locks[i]]

\* _open_verified_regular and the rename to a claim; the file may be gone by now.
Claims(s) ==
  /\ sweep[s].at = "leased"
  /\ IF name = sweep[s].source
     THEN /\ claims < MaxClaims /\ claims' = claims + 1 /\ name' = claims'
          /\ active' = [active EXCEPT ![Home[s]] = @ \union {claims'}]
          /\ SweepGoes(s, [at |-> "claimed", claim |-> claims']) /\ UNCHANGED locks
     ELSE SweepGoes(s, Resting) /\ locks' = Unlocked(s) /\ UNCHANGED <<claims, name, active>>
  /\ UNCHANGED <<turns, long, path, inodes, capture, handed, kills>>

\* Variant: a handoff that fails gives the transcript up.
KeepsNothing(outcome) == outcome = "deferred"
\* _finish_claim: what was refused, deferred or failed is kept for the next sweep.
Keeps(outcome) == outcome \in {"refused", "failed", "deferred"}

\* MIN_TURNS and MIN_CHARS: what is shorter is not worth remembering.
Worthwhile == turns >= MinTurns /\ long

\* The memory agent is asked with the turns the file holds, and answers.
FlushTurns(s) ==
  /\ sweep[s].at = "claimed"
  /\ \E outcome \in IF Worthwhile THEN {"accepted", "refused", "failed", "deferred"} ELSE {"none"} :
       /\ SweepGoes(s, [at |-> "flushed", answer |-> outcome])
       /\ handed' = (IF outcome = "accepted" THEN handed \union {turns} ELSE handed)
  /\ UNCHANGED <<name, turns, long, path, inodes, locks, capture, active, claims, kills>>

\* _start_default_handoff: the thread cannot be started; the claim stays on disk.
NotStarted(s) ==
  /\ sweep[s].at = "claimed" /\ SweepGoes(s, Resting) /\ locks' = Unlocked(s)
  /\ active' = [active EXCEPT ![Home[s]] = @ \ {sweep[s].claim}]
  /\ UNCHANGED <<name, turns, long, path, inodes, capture, claims, handed, kills>>

\* _restore_claim, or the unlink, of the claimed name; it may be gone.
Files(s) ==
  /\ sweep[s].at = "flushed" /\ SweepGoes(s, [at |-> "filed"])
  /\ name' = (IF name # sweep[s].claim THEN name ELSE IF Keeps(sweep[s].answer) THEN Original ELSE Removed)
  /\ UNCHANGED <<turns, long, path, inodes, locks, capture, active, claims, handed, kills>>

\* The claim is let go: first the lock,
Closes(s) ==
  /\ sweep[s].at = "filed" /\ SweepGoes(s, [at |-> "closed"])
  /\ active' = [active EXCEPT ![Home[s]] = @ \ {sweep[s].claim}] /\ locks' = Unlocked(s)
  /\ UNCHANGED <<name, turns, long, path, inodes, capture, claims, handed, kills>>

\* then the lease file, whichever is at its path by now.
Unlinks(s) ==
  /\ sweep[s].at = "closed" /\ SweepGoes(s, Resting) /\ path' = 0
  /\ UNCHANGED <<name, turns, long, inodes, locks, capture, active, claims, handed, kills>>

\* A process is killed: its locks fall, its files stay.
Kill(p) ==
  /\ kills < MaxKills /\ kills' = kills + 1
  /\ LET dead == {s \in Sweepers : Home[s] = p} \union (IF p = Author THEN {Writer} ELSE {})
     IN  locks' = [i \in DOMAIN locks |-> IF locks[i] \in dead THEN NoOne ELSE locks[i]]
  /\ sweep' = [s \in Sweepers |-> IF Home[s] = p THEN Resting ELSE sweep[s]]
  /\ capture' = (IF p = Author THEN [at |-> "killed", lease |-> 0] ELSE capture)
  /\ active' = [active EXCEPT ![p] = {}]
  /\ UNCHANGED <<name, turns, long, path, inodes, claims, handed>>

HandNext ==
  \/ AppendTurn \/ Finish \/ \E p \in Processes : Kill(p)
  \/ \E s \in Sweepers : \/ Lists(s) \/ Considers(s) \/ Leases(s) \/ Claims(s) \/ FlushTurns(s)
                         \/ NotStarted(s) \/ Files(s) \/ Closes(s) \/ Unlinks(s)

HandSpec == HandInit /\ [][HandNext]_handVars

------------------------------------------------------------------------------
HandTypeOK ==
  /\ name \in {Unborn, Removed} \union 0..MaxClaims /\ turns \in 0..MaxTurns
  /\ path \in 0..MaxInodes /\ locks \in [1..MaxInodes -> {NoOne, Writer} \union Sweepers]

(* A transcript of two turns and of the length MIN_CHARS leaves the disk only *)
(* when Hermes has taken all of it: no refusal, kill or lost claim loses a   *)
(* conversation, and no turn is appended behind the back of the sweep that   *)
(* read the file.                                                            *)
RemovedWhenHanded == name = Removed /\ Worthwhile => turns \in handed

(* While the capture lives its file is nobody else's.                        *)
WriterAlone == capture.at = "writing" => name = Original

\* What every state of the hand-off keeps: a transcript is removed once it was handed on,
\* and its writer is alone with it.
HandoffSafe == HandTypeOK /\ RemovedWhenHanded /\ WriterAlone

(* (Refuted: the code keeps what was refused, as _finish_claim says.)  A       *)
(* refusal from a real lane is an answer, and drops the transcript: the      *)
(* words of FlushDeferred.                                                   *)
RefusedIsDropped ==
  \A s \in Sweepers : sweep[s].at = "filed" /\ sweep[s].answer = "refused" => name = Removed

(* (Refuted: between a sweep's close of the lease and its unlink another     *)
(* locks the inode that is about to lose its name; a third finds no lease    *)
(* file, makes one and takes the claim the other is working on.)             *)
(* One handoff of a transcript is under way at a time.                       *)
OneHandoff == Cardinality({s \in Sweepers : sweep[s].at = "claimed"}) <= 1
=============================================================================
