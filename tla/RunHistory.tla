----------------------------- MODULE RunHistory -----------------------------
(***************************************************************************)
(* The shared JSONL history behind the run registry (talk_runs.py): an     *)
(* append-only file of records, compacted in place, that several processes *)
(* read, modify and append under one OS file lock.  A record is one        *)
(* version of one run; what a record says about the run is TalkRuns' part. *)
(*                                                                         *)
(* A write may be cut short by a crash or a full disk.  The next append    *)
(* opens the file in mode "a", and so continues the unfinished line.       *)
(***************************************************************************)
EXTENDS Naturals, FiniteSets, FiniteSetsExt, SequencesExt

CONSTANTS
  Procs,        \* processes that share the file
  NoLine,         \* no section, no lock holder
  Junk,         \* a line json.loads refuses
  TornWrites,   \* TRUE: a write may be cut short
  MaxIds,       \* bound on run ids
  MaxVersions,  \* bound on the records of one run
  MaxLines,     \* _HISTORY_MAX_BYTES, in lines
  Keep,         \* _HISTORY_COMPACT_KEEP
  TailLines,    \* _HISTORY_TAIL_LINES
  MaxCrashes,   \* bound on crashes
  MaxHistFaults     \* bound on failed or torn writes and failed compactions

ASSUME HistoryAssumption ==
  /\ {MaxIds, MaxLines, MaxCrashes, MaxHistFaults} \subseteq Nat
  /\ {MaxVersions, Keep, TailLines} \subseteq Nat \ {0}
  /\ TornWrites \in BOOLEAN

VARIABLES
  lines,    \* the file, line by line
  open,     \* TRUE: the last line lacks its newline
  lock,     \* the process that holds the file lock
  section,  \* section[p]: what p is doing under the lock
  seq,      \* seq[p]: _RUN_SEQ
  saved,    \* saved[id][v]: appends of version v of run id that were reported done
  torn,     \* writes that were cut short and left a part of the line
  crashes, histFaults

histVars == <<lines, open, lock, section, seq, saved, torn, crashes, histFaults>>

Ids     == 1 .. MaxIds
Records == [id: Ids, ver: 1 .. MaxVersions]

Sections == [at: {"read", "written"}, rec: Records]

\* The marks are none of the things they are told apart from.
ASSUME MarkAssumption == NoLine \notin Procs \union Sections /\ Junk \notin Records

HistTypeOK ==
  /\ lines \in Seq(Records \union {Junk})
  /\ Len(lines) <= Max({MaxLines, Keep}) + 1 + MaxHistFaults + MaxCrashes
  /\ open \in BOOLEAN /\ (open => lines # <<>>)
  /\ lock \in Procs \union {NoLine}
  /\ section \in [Procs -> Sections \union {NoLine}]
  /\ seq \in [Procs -> 0 .. MaxIds]
  /\ saved \in [Ids -> [1 .. MaxVersions -> Nat]]
  /\ torn \in 0 .. MaxHistFaults + MaxCrashes
  /\ crashes \in 0 .. MaxCrashes /\ histFaults \in 0 .. MaxHistFaults

HistInit ==
  /\ lines = <<>> /\ open = FALSE
  /\ lock = NoLine
  /\ section = [p \in Procs |-> NoLine]
  /\ seq = [p \in Procs |-> 0]
  /\ saved = [id \in Ids |-> [v \in 1 .. MaxVersions |-> 0]]
  /\ torn = 0 /\ crashes = 0 /\ histFaults = 0

-----------------------------------------------------------------------------
(* Reading the file.                                                       *)

Readable(file) == {file[i] : i \in 1 .. Len(file)} \ {Junk}

Known(file) == {rec.id : rec \in Readable(file)}

\* _seed_floor_locked: the highest id of any line that parses.
Floor(file) == Max({0} \union Known(file))

\* The last line of a run wins.
Newest(file, id) ==
  file[Max({i \in 1 .. Len(file) : file[i] # Junk /\ file[i].id = id})]

\* _tail_records_from_path looks at the last lines only.
TailOf(file) ==
  IF Len(file) <= TailLines THEN file
  ELSE SubSeq(file, Len(file) - TailLines + 1, Len(file))

\* Variant: the lowest ids are kept.
KeptLowest(file) ==
  {id \in Known(file) : Cardinality({j \in Known(file) : j < id}) < Keep}

\* The newest runs survive a compaction.
Kept(file) ==
  {id \in Known(file) : Cardinality({j \in Known(file) : j > id}) < Keep}

\* The i-th of these ids, from the lowest.
Ranked(kept, i) == CHOOSE id \in kept : Cardinality({j \in kept : j <= id}) = i

\* Variant: the first record of a run survives.
CompactedToOldest(file) ==
  [i \in 1 .. Cardinality(Kept(file)) |->
     LET id == Ranked(Kept(file), i)
     IN  file[Min({j \in 1 .. Len(file) : file[j] # Junk /\ file[j].id = id})]]

\* Variant: every line that parses survives.
CompactedToWhole(file) == SelectSeq(file, LAMBDA line : line # Junk)

\* One line per kept run, in id order.
Compacted(file) ==
  [i \in 1 .. Cardinality(Kept(file)) |-> Newest(file, Ranked(Kept(file), i))]

\* A write continues the last line if that one is unfinished.
Appended(file, line) ==
  IF open THEN Append(Front(file), Junk) ELSE Append(file, line)

-----------------------------------------------------------------------------
(* The critical sections.                                                  *)

\* Variant: the file is read before the lock is taken.
EnterUnlocked(p, rec) ==
  /\ section[p] = NoLine
  /\ section' = [section EXCEPT ![p] = [at |-> "read", rec |-> rec]]
  /\ lock' = p

Enter(p, rec) ==
  /\ lock = NoLine
  /\ lock' = p
  /\ section' = [section EXCEPT ![p] = [at |-> "read", rec |-> rec]]

\* _accept_run: an id above the process's own and every persisted one.
Accept(p) ==
  LET id == Max({seq[p], Floor(lines)}) + 1
  IN  /\ section[p] = NoLine
      /\ id \in Ids
      /\ Enter(p, [id |-> id, ver |-> 1])
      /\ seq' = [seq EXCEPT ![p] = id]
      /\ UNCHANGED <<lines, open, saved, torn, crashes, histFaults>>

\* _claim_in_history, _flip_delivered_in_history, note_continuation: the next
\* version of a record the tail still shows.
Modify(p) ==
  /\ section[p] = NoLine
  /\ \E id \in Known(TailOf(lines)) :
       /\ Newest(TailOf(lines), id).ver < MaxVersions
       /\ Enter(p, [id |-> id, ver |-> Newest(TailOf(lines), id).ver + 1])
  /\ UNCHANGED <<lines, open, seq, saved, torn, crashes, histFaults>>

Write(p) ==
  /\ section[p] # NoLine /\ section[p].at = "read"
  /\ lines' = Appended(lines, section[p].rec)
  /\ open' = FALSE
  /\ section' = [section EXCEPT ![p].at = "written"]
  /\ UNCHANGED <<lock, seq, saved, torn, crashes, histFaults>>

Leave(p) ==
  /\ section' = [section EXCEPT ![p] = NoLine]
  /\ lock' = NoLine

\* The tail of _append_line_locked: compact when the file is over its bound.
\* The append is reported done whether or not the compaction works.
Finish(p) ==
  /\ section[p] # NoLine /\ section[p].at = "written"
  /\ \/ Len(lines) > MaxLines /\ lines' = Compacted(lines) /\ UNCHANGED histFaults
     \/ Len(lines) <= MaxLines /\ UNCHANGED <<lines, histFaults>>
     \/ /\ Len(lines) > MaxLines /\ histFaults < MaxHistFaults
        /\ histFaults' = histFaults + 1
        /\ UNCHANGED lines
  /\ saved' = [saved EXCEPT ![section[p].rec.id][section[p].rec.ver] = @ + 1]
  /\ Leave(p)
  /\ UNCHANGED <<open, seq, torn, crashes>>

\* What a write that is cut short leaves behind: a part of the line, or all of
\* it but the newline.
CutShort(p) ==
  \/ UNCHANGED <<lines, open, torn>>
  \/ /\ TornWrites
     /\ torn' = torn + 1
     /\ \E line \in {Junk, section[p].rec} : lines' = Appended(lines, line)
     /\ open' = TRUE

\* The write raised: the caller is refused, or told the change did not persist.
WriteFails(p) ==
  /\ section[p] # NoLine /\ section[p].at = "read"
  /\ histFaults < MaxHistFaults
  /\ histFaults' = histFaults + 1
  /\ CutShort(p)
  /\ Leave(p)
  /\ UNCHANGED <<seq, saved, crashes>>

\* The kernel drops the lock of a process that dies; os.replace is atomic.
Crash(p) ==
  /\ crashes < MaxCrashes
  /\ crashes' = crashes + 1
  /\ seq' = [seq EXCEPT ![p] = 0]
  /\ IF section[p] = NoLine
     THEN UNCHANGED <<lines, open, torn, lock, section>>
     ELSE /\ Leave(p)
          /\ IF section[p].at = "read" THEN CutShort(p) ELSE UNCHANGED <<lines, open, torn>>
  /\ UNCHANGED <<saved, histFaults>>

HistNext == \E p \in Procs : \/ Accept(p) \/ Modify(p) \/ Write(p) \/ Finish(p)
                         \/ WriteFails(p) \/ Crash(p)

HistSpec == HistInit /\ [][HistNext]_histVars

-----------------------------------------------------------------------------
(* Properties.                                                             *)

\* No version of a run is reported written twice: no id is minted by two
\* acceptances and no claim or flip is won by two callers, across processes,
\* restarts and compactions, as long as no write was cut short.
EachVersionOnce ==
  torn = 0 => \A id \in Ids, v \in 1 .. MaxVersions : saved[id][v] <= 1

\* The two lanes never mint the same id.  (Refuted with TornWrites: the record
\* that reserves an id may be glued to a torn line and is then unreadable.)
IdsNeverReused == \A id \in Ids : saved[id][1] <= 1

LastSaved(id) == Max({0} \union {v \in 1 .. MaxVersions : saved[id][v] > 0})

LastInFile(id) == IF id \in Known(lines) THEN Newest(lines, id).ver ELSE 0

\* The runs no compaction may have forgotten yet.
Retained ==
  LET taken == {id \in Ids : LastSaved(id) > 0} \union Known(lines)
  IN  {id \in taken : Cardinality({j \in taken : j > id}) < Keep}

\* The file behaves as the map TalkRuns takes it for - the newest record of
\* each of the newest runs is the last one reported written - except that a
\* write cut short costs one record at most: itself, when it lacked only its
\* newline, or the one that is appended to it.
FileIsAMap ==
  Cardinality({id \in Retained : LastInFile(id) < LastSaved(id)}) <= torn

\* A step moves the newest record of a run forward by one version, or forgets
\* a run that Keep newer ones push out; it never goes back to an older record.
NewestNeverRegresses ==
  [][torn' = 0 => \A id \in Known(lines) :
       \/ id \in Known(lines') /\ Newest(lines', id).ver
                                     \in {Newest(lines, id).ver, Newest(lines, id).ver + 1}
       \/ id \notin Known(lines') /\ Cardinality({j \in Known(lines) : j > id}) >= Keep]_histVars

\* The floor of the next acceptance never falls, so an id stays taken for as
\* long as the file lives and no write is cut short.
FloorNeverFalls == [][torn' = 0 => Floor(lines') >= Floor(lines)]_histVars

\* What every state of the file keeps, torn lines and crashes included.
HistorySafe == HistTypeOK /\ EachVersionOnce /\ FileIsAMap

\* No step takes the newest record of a run or the id floor back.
HistoryNeverFalls == NewestNeverRegresses /\ FloorNeverFalls
=============================================================================
