--------------------------- MODULE RunHistoryProofs ---------------------------
(***************************************************************************)
(* Proofs about the shared history file, for every number of processes,    *)
(* every bound, and every way in which writes fail, are cut short or die.  *)
(*                                                                         *)
(* HistInv is the inductive invariant.  Under the lock, what a process     *)
(* read stays so, and the record to come is the next of its run            *)
(* (SectionInv); as long as no write was cut short, what was reported is   *)
(* in the file or was pushed out by newer runs (SavedInv).  What a torn    *)
(* line costs is an account (LossInv): each run behind what was reported   *)
(* of it, the record written behind a torn line and not yet reported, and  *)
(* a line without its end, the one loss to come, were each paid for by one *)
(* write that was cut short.  The lemmas before it say what the file shows *)
(* after an append, a line that cannot be read, or a compaction.           *)
(***************************************************************************)
EXTENDS RunHistory, FiniteSetTheorems, WellFoundedInduction, TLAPS

-----------------------------------------------------------------------------
(* Sets of numbers.                                                        *)

\* The order of the numbers, as a relation.
Below == {ss \in Nat \X Nat : ss[1] < ss[2]}

\* The order of the numbers has no infinite descent.
LEMMA BelowIsWellFounded == IsWellFoundedOn(Below, Nat)
BY NatLessThanWellFounded DEF OpToRel, Below

\* A set of numbers that is not empty has a least element.
LEMMA LeastElement ==
  ASSUME NEW T \in SUBSET Nat, T # {}
  PROVE  \E x \in T : \A y \in T : x <= y
<1>1. PICK x \in T : \A y \in T : ~(<<y, x>> \in Below)
  BY BelowIsWellFounded, WFMin
<1>2. \A a, b \in Nat : b < a => <<b, a>> \in Below
  BY DEF Below
<1>3. ASSUME NEW y \in T
      PROVE  x <= y
  <2>1. x \in Nat /\ y \in Nat /\ ~(<<y, x>> \in Below)
    BY <1>1, <1>3
  <2>2. ~(y < x)
    BY <1>2, <2>1
  <2> QED
    BY <2>1, <2>2
<1> QED
  BY <1>3

\* A bounded set of numbers that is not empty has a greatest element, and Max is it.
LEMMA GreatestElement ==
  ASSUME NEW S \in SUBSET Nat, S # {}, NEW n \in Nat, \A x \in S : x <= n
  PROVE  Max(S) \in S /\ \A y \in S : Max(S) >= y
<1> DEFINE T == {n - x : x \in S}
<1>1. T \in SUBSET Nat /\ T # {}
  <2>1. \A x \in S : n - x \in Nat
    OBVIOUS
  <2> QED
    BY <2>1
<1>2. PICK d \in T : \A y \in T : d <= y
  BY <1>1, LeastElement
<1>3. PICK m \in S : d = n - m
  OBVIOUS
<1>4. \A y \in S : m >= y
  BY <1>2, <1>3
<1> QED
  BY <1>4 DEF Max

\* What holds of 0 and passes from n to n + 1 holds of every number.
LEMMA InductionOnNumbers ==
  ASSUME NEW S, 0 \in S, \A n \in Nat : n \in S => n + 1 \in S
  PROVE  Nat \subseteq S
<1> SUFFICES ASSUME Nat \ S # {} PROVE FALSE
  OBVIOUS
<1>1. PICK x \in Nat \ S : \A y \in Nat \ S : x <= y
  BY LeastElement
<1> QED
  BY <1>1

\* Finite sets of numbers have an element of each rank.
LEMMA RanksExist ==
  ASSUME NEW S \in SUBSET Nat, IsFiniteSet(S)
  PROVE  \A i \in 1 .. Cardinality(S) : \E n \in S : Cardinality({m \in S : m <= n}) = i
<1> DEFINE P == {k \in Nat : k + 1 <= Cardinality(S) =>
                   \E n \in S : Cardinality({m \in S : m <= n}) = k + 1}
<1>0. Cardinality(S) \in Nat
  BY FS_CardinalityType
<1>1. 0 \in P
  <2> SUFFICES ASSUME 1 <= Cardinality(S) PROVE \E n \in S : Cardinality({m \in S : m <= n}) = 1
    OBVIOUS
  <2>1. S # {}
    BY FS_EmptySet
  <2>2. PICK n \in S : \A m \in S : n <= m
    BY <2>1, LeastElement
  <2>3. {m \in S : m <= n} = {n}
    <3>1. \A m \in S : m \in Nat /\ n \in Nat
      OBVIOUS
    <3>2. \A m \in S : m <= n <=> m = n
      BY <2>2, <3>1
    <3> QED
      BY <3>2
  <2> QED
    BY <2>3, FS_Singleton
<1>2. ASSUME NEW k \in Nat, k \in P
      PROVE  k + 1 \in P
  <2> SUFFICES ASSUME (k + 1) + 1 <= Cardinality(S)
               PROVE  \E n \in S : Cardinality({m \in S : m <= n}) = (k + 1) + 1
    OBVIOUS
  <2>1. PICK n \in S : Cardinality({m \in S : m <= n}) = k + 1
    BY <1>0, <1>2
  <2> DEFINE A == {m \in S : m <= n}
  <2>2. A \in SUBSET S /\ IsFiniteSet(A) /\ Cardinality(A) = k + 1
    BY <2>1, FS_Subset
  <2>3. S \ A # {} /\ S \ A \in SUBSET Nat
    <3>1. A # S
      BY <1>0, <1>2, <2>2
    <3> QED
      BY <2>2, <3>1
  <2>4. PICK x \in S \ A : \A m \in S \ A : x <= m
    BY <2>3, LeastElement
  <2>5. {m \in S : m <= x} = A \cup {x}
    <3>1. n \in Nat /\ x \in Nat /\ ~(x <= n)
      BY <2>4
    <3>2. \A m \in S : m \in Nat /\ (m <= x <=> m <= n \/ m = x)
      <4> TAKE m \in S
      <4>1. CASE m <= n
        BY <3>1, <4>1
      <4>2. CASE ~(m <= n)
        <5>1. x <= m
          BY <2>4, <4>2
        <5> QED
          BY <3>1, <4>2, <5>1
      <4> QED
        BY <4>1, <4>2
    <3> QED
      BY <2>4, <3>2
  <2>6. Cardinality(A \cup {x}) = (k + 1) + 1
    BY <2>2, <2>4, FS_AddElement
  <2> QED
    BY <2>4, <2>5, <2>6
<1>3. Nat \subseteq P
  <2> HIDE DEF P
  <2> QED
    BY <1>1, <1>2, InductionOnNumbers
<1>4. ASSUME NEW i \in 1 .. Cardinality(S)
      PROVE  \E n \in S : Cardinality({m \in S : m <= n}) = i
  <2>1. i - 1 \in Nat /\ i - 1 + 1 = i
    BY <1>0
  <2>2. i - 1 \in P
    BY <1>3, <2>1
  <2> QED
    BY <1>0, <2>1, <2>2
<1> QED
  BY <1>4

\* Each element of a finite set of numbers has a rank, and no other element has the same.
LEMMA RanksDiffer ==
  ASSUME NEW S \in SUBSET Nat, IsFiniteSet(S), NEW x \in S
  PROVE  /\ Cardinality({m \in S : m <= x}) \in 1 .. Cardinality(S)
         /\ \A y \in S : Cardinality({m \in S : m <= y}) = Cardinality({m \in S : m <= x}) => y = x
<1> DEFINE Upto(z) == {m \in S : m <= z}
<1>1. \A z \in S : Upto(z) \in SUBSET S /\ IsFiniteSet(Upto(z)) /\ z \in Upto(z)
                   /\ Cardinality(Upto(z)) \in Nat /\ Cardinality(Upto(z)) <= Cardinality(S)
  BY FS_Subset, FS_CardinalityType
<1>2. Cardinality(S) \in Nat
  BY FS_CardinalityType
<1>3. Cardinality(Upto(x)) >= 1
  <2>1. Upto(x) # {}
    BY <1>1
  <2>2. Cardinality(Upto(x)) # 0
    BY <1>1, <2>1, FS_EmptySet
  <2> QED
    BY <1>1, <2>2
<1>4. \A y, z \in S : y < z => Cardinality(Upto(y)) # Cardinality(Upto(z))
  <2> SUFFICES ASSUME NEW y \in S, NEW z \in S, y < z, Cardinality(Upto(y)) = Cardinality(Upto(z))
               PROVE  FALSE
    OBVIOUS
  <2>0. y \in Nat /\ z \in Nat /\ \A m \in S : m \in Nat
    OBVIOUS
  <2>1. Upto(y) \in SUBSET Upto(z) /\ z \notin Upto(y)
    <3>1. \A m \in S : m <= y => m <= z
      BY <2>0
    <3>2. ~(z <= y)
      BY <2>0
    <3> QED
      BY <3>1, <3>2
  <2>2. Upto(y) = Upto(z)
    BY <1>1, <2>1, FS_Subset
  <2> QED
    BY <1>1, <2>1, <2>2
<1>5. ASSUME NEW y \in S, Cardinality(Upto(y)) = Cardinality(Upto(x)), y # x
      PROVE  FALSE
  <2>1. y < x \/ x < y
    BY <1>5
  <2> QED
    BY <1>4, <1>5, <2>1
<1> QED
  BY <1>1, <1>2, <1>3, <1>5

\* The greatest of two numbers.
LEMMA LargerOfTwo ==
  ASSUME NEW a \in Nat, NEW b \in Nat
  PROVE  Max({a, b}) = IF a >= b THEN a ELSE b
<1> DEFINE S == {a, b}
<1>1. S \in SUBSET Nat /\ S # {} /\ \A x \in S : x <= a + b
  OBVIOUS
<1>2. Max(S) \in S /\ \A y \in S : Max(S) >= y
  <2> HIDE DEF S
  <2>1. a + b \in Nat
    OBVIOUS
  <2> QED
    BY <1>1, <2>1, GreatestElement
<1> QED
  BY <1>2

-----------------------------------------------------------------------------
(* The invariant.                                                          *)

\* The newest version of a run that a file shows, 0 if it shows none.
InFile(file, id) == IF id \in Known(file) THEN Newest(file, id).ver ELSE 0

\* The lines the next append leaves as they are, of a file that lacks its last newline or not.
Whole(file, unended) == IF unended THEN Front(file) ELSE file

\* The runs of a file that are newer than this one.
Above(file, id) == {j \in Known(file) : j > id}

HistTyped ==
  /\ lines \in Seq(Records \union {Junk})
  /\ open \in BOOLEAN /\ (open => lines # <<>>)
  /\ lock \in Procs \union {NoLine}
  /\ section \in [Procs -> Sections \union {NoLine}]
  /\ seq \in [Procs -> 0 .. MaxIds]
  /\ saved \in [Ids -> [1 .. MaxVersions -> Nat]]
  /\ torn \in 0 .. histFaults + crashes /\ (open => torn > 0)
  /\ crashes \in 0 .. MaxCrashes /\ histFaults \in 0 .. MaxHistFaults

\* Who is in a section holds the lock.
LockInv == \A p \in Procs : section[p] # NoLine <=> lock = p

Reading(p) == section[p] # NoLine /\ section[p].at = "read"
Written(p) == section[p] # NoLine /\ section[p].at = "written"

\* Each append that is not compacted away was let in by a bound.
SizeInv ==
  Len(lines) <= Max({MaxLines, Keep}) + histFaults + crashes + (IF \E p \in Procs : Written(p) THEN 1 ELSE 0)

\* Under the lock, what was read stays so: the record to come is the next of its run, or the
\* first of one that is new to the file.
NextOf(file, rec) ==
  rec.ver = InFile(file, rec.id) + 1 /\ (rec.id \in Known(file) \/ rec.id > Floor(file))
SectionInv ==
  \A p \in Procs :
    /\ Reading(p) => NextOf(lines, section[p].rec)
    /\ Written(p) =>
         /\ ~open
         /\ torn = 0 => InFile(lines, section[p].rec.id) = section[p].rec.ver
                        /\ saved[section[p].rec.id][section[p].rec.ver] = 0

\* A line without its end that can be read is the next of its run.
OpenInv ==
  open /\ lines[Len(lines)] # Junk =>
    lines[Len(lines)].ver = InFile(Front(lines), lines[Len(lines)].id) + 1

\* As long as no write was cut short: what was reported is in the file, or was forgotten by it,
\* and once.
SavedInv ==
  torn = 0 =>
    \A id \in Ids, v \in 1 .. MaxVersions :
      /\ saved[id][v] <= 1
      /\ saved[id][v] > 0 => id <= Floor(lines) /\ (id \in Known(lines) => v <= InFile(lines, id))

\* The runs whose last reported record the file does not show, though Keep newer ones do not
\* excuse it; and the one whose record was just written and cannot be read.
LastOf(sv, id) == Max({0} \union {v \in 1 .. MaxVersions : sv[id][v] > 0})
Missed(file, sv) == {id \in Ids : InFile(file, id) < LastOf(sv, id) /\ Cardinality(Above(file, id)) < Keep}
Losing == {id \in Ids : \E p \in Procs : Written(p) /\ section[p].rec.id = id /\ InFile(lines, id) < section[p].rec.ver}

\* Every such run was paid for by a write that was cut short, and a line without its end costs
\* one that is not lost yet.
LossInv == Cardinality(Missed(Whole(lines, open), saved) \union Losing) + (IF open THEN 1 ELSE 0) <= torn

HistInv == HistTyped /\ LockInv /\ SizeInv /\ SectionInv /\ OpenInv /\ SavedInv /\ LossInv

-----------------------------------------------------------------------------
(* Reading the file.                                                       *)

Files == Seq(Records \union {Junk})

\* The i-th line of a file is a record of this run.
Shows(file, i, id) == i \in 1 .. Len(file) /\ file[i] # Junk /\ file[i].id = id

\* A line that can be read is a record, and runs have numbers.
LEMMA LineWell ==
  ASSUME NEW file \in Files, NEW i \in 1 .. Len(file)
  PROVE  /\ file[i] \in Records \union {Junk}
         /\ file[i] # Junk => file[i] \in Records /\ file[i].id \in Ids /\ file[i].ver \in 1 .. MaxVersions
BY DEF Files, Records

\* A run is known if a line shows it.
LEMMA KnownIff ==
  ASSUME NEW file, NEW id
  PROVE  id \in Known(file) <=> \E i \in 1 .. Len(file) : Shows(file, i, id)
BY DEF Known, Readable, Shows

\* The bounds are numbers, and the runs of a file are finitely many.
LEMMA KnownWell ==
  ASSUME NEW file \in Files
  PROVE  /\ MaxIds \in Nat /\ Keep \in Nat /\ Keep >= 1
         /\ Known(file) \in SUBSET Ids /\ Known(file) \in SUBSET Nat /\ \A id \in Known(file) : id >= 1 /\ id <= MaxIds
         /\ \A S \in SUBSET Known(file) : IsFiniteSet(S) /\ Cardinality(S) \in Nat
<1>1. MaxIds \in Nat /\ Keep \in Nat /\ Keep >= 1
  BY HistoryAssumption
<1>2. Known(file) \in SUBSET Ids
  BY LineWell, KnownIff DEF Shows
<1>3. Known(file) \in SUBSET Nat /\ \A id \in Known(file) : id >= 1 /\ id <= MaxIds
  BY <1>1, <1>2 DEF Ids
<1>4. IsFiniteSet(Known(file))
  BY <1>1, <1>3, FS_BoundedSetOfNaturals
<1> QED
  BY <1>1, <1>2, <1>3, <1>4, FS_Subset, FS_CardinalityType

\* The newest record of a run is its last line.
LEMMA NewestIs ==
  ASSUME NEW file \in Files, NEW id \in Known(file)
  PROVE  \E m \in 1 .. Len(file) : /\ Shows(file, m, id) /\ \A i \in 1 .. Len(file) : Shows(file, i, id) => i <= m
                                   /\ Newest(file, id) = file[m]
<1> DEFINE S == {i \in 1 .. Len(file) : file[i] # Junk /\ file[i].id = id}
<1>1. Len(file) \in Nat
  BY DEF Files
<1>2. S \in SUBSET Nat /\ S # {} /\ \A i \in S : i <= Len(file)
  BY <1>1, KnownIff DEF Shows
<1>3. Max(S) \in S /\ \A i \in S : Max(S) >= i
  <2> HIDE DEF S
  <2> QED
    BY <1>1, <1>2, GreatestElement
<1>4. Newest(file, id) = file[Max(S)]
  BY DEF Newest
<1> QED
  BY <1>3, <1>4 DEF Shows

\* The last line of a run is its newest record.
LEMMA NewestAt ==
  ASSUME NEW file \in Files, NEW id, NEW m \in 1 .. Len(file), Shows(file, m, id),
         \A i \in 1 .. Len(file) : Shows(file, i, id) => i <= m
  PROVE  id \in Known(file) /\ Newest(file, id) = file[m]
<1>1. id \in Known(file)
  BY KnownIff
<1>2. PICK n \in 1 .. Len(file) : /\ Shows(file, n, id) /\ \A i \in 1 .. Len(file) : Shows(file, i, id) => i <= n
                                  /\ Newest(file, id) = file[n]
  BY <1>1, NewestIs
<1>3. n <= m /\ m <= n
  BY <1>2
<1>4. n = m
  BY <1>3 DEF Files
<1> QED
  BY <1>1, <1>2, <1>4

\* The newest record of a run is a record of it.
LEMMA NewestWell ==
  ASSUME NEW file \in Files, NEW id \in Known(file)
  PROVE  Newest(file, id) \in Records /\ Newest(file, id).id = id /\ Newest(file, id).ver \in 1 .. MaxVersions
BY NewestIs, LineWell DEF Shows

\* The version a file shows is a number, and not 0 of a run it knows.
LEMMA InFileWell ==
  ASSUME NEW file \in Files, NEW id
  PROVE  /\ InFile(file, id) \in 0 .. MaxVersions /\ InFile(file, id) \in Nat
         /\ id \in Known(file) => InFile(file, id) >= 1 /\ InFile(file, id) = Newest(file, id).ver
         /\ id \notin Known(file) => InFile(file, id) = 0
<1>1. MaxVersions \in Nat
  BY HistoryAssumption
<1>2. CASE id \in Known(file)
  <2>1. Newest(file, id).ver \in 1 .. MaxVersions
    BY <1>2, NewestWell
  <2> QED
    BY <1>1, <1>2, <2>1 DEF InFile
<1>3. CASE id \notin Known(file)
  BY <1>1, <1>3 DEF InFile
<1> QED
  BY <1>2, <1>3

\* The floor is the highest run a file knows, or 0.
LEMMA FloorWell ==
  ASSUME NEW file \in Files
  PROVE  /\ Floor(file) \in Nat /\ Floor(file) \in {0} \union Known(file)
         /\ \A id \in Known(file) : id <= Floor(file)
<1> DEFINE S == {0} \union Known(file)
<1>1. S \in SUBSET Nat /\ S # {} /\ MaxIds \in Nat /\ \A x \in S : x <= MaxIds
  BY KnownWell
<1>2. Max(S) \in S /\ \A y \in S : Max(S) >= y
  <2> HIDE DEF S
  <2> QED
    BY <1>1, GreatestElement
<1>3. Floor(file) = Max(S)
  BY DEF Floor
<1> QED
  BY <1>1, <1>2, <1>3

-----------------------------------------------------------------------------
(* Writing it.                                                             *)

\* A line more: the file is a file, and shows what it showed before the line.
LEMMA OneMore ==
  ASSUME NEW file \in Files, NEW new \in Records \union {Junk}
  PROVE  /\ Append(file, new) \in Files /\ Len(Append(file, new)) = Len(file) + 1 /\ Len(file) \in Nat
         /\ Append(file, new)[Len(file) + 1] = new
         /\ \A i \in 1 .. Len(file) : Append(file, new)[i] = file[i]
         /\ \A i, id : Shows(Append(file, new), i, id) <=>
              Shows(file, i, id) \/ (i = Len(file) + 1 /\ new # Junk /\ new.id = id)
<1>1. /\ Append(file, new) \in Files /\ Len(Append(file, new)) = Len(file) + 1 /\ Len(file) \in Nat
      /\ Append(file, new)[Len(file) + 1] = new
      /\ \A i \in 1 .. Len(file) : Append(file, new)[i] = file[i]
  BY DEF Files
<1>2. 1 .. (Len(file) + 1) = (1 .. Len(file)) \union {Len(file) + 1} /\ Len(file) + 1 \notin 1 .. Len(file)
  BY <1>1
<1> QED
  BY <1>1, <1>2 DEF Shows

\* A line that cannot be read changes nothing of what a file shows.
LEMMA JunkShows ==
  ASSUME NEW file \in Files
  PROVE  /\ Append(file, Junk) \in Files /\ Known(Append(file, Junk)) = Known(file)
         /\ \A id \in Known(file) : Newest(Append(file, Junk), id) = Newest(file, id)
         /\ \A id : InFile(Append(file, Junk), id) = InFile(file, id)
<1> DEFINE g == Append(file, Junk)
<1>1. /\ g \in Files /\ Len(g) = Len(file) + 1 /\ Len(file) \in Nat
      /\ \A i \in 1 .. Len(file) : g[i] = file[i]
      /\ \A i, id : Shows(g, i, id) <=> Shows(file, i, id)
  BY OneMore
<1> HIDE DEF g
<1>2. \A id : id \in Known(g) <=> id \in Known(file)
  BY <1>1, KnownIff DEF Shows
<1>3. ASSUME NEW id \in Known(file)
      PROVE  Newest(g, id) = Newest(file, id)
  <2>1. PICK m \in 1 .. Len(file) : /\ Shows(file, m, id) /\ \A i \in 1 .. Len(file) : Shows(file, i, id) => i <= m
                                    /\ Newest(file, id) = file[m]
    BY NewestIs
  <2>2. m \in 1 .. Len(g) /\ Shows(g, m, id) /\ \A i \in 1 .. Len(g) : Shows(g, i, id) => i <= m
    BY <1>1, <2>1 DEF Shows
  <2>3. Newest(g, id) = g[m]
    BY <1>1, <2>2, NewestAt
  <2> QED
    BY <1>1, <2>1, <2>3
<1>4. \A id : InFile(g, id) = InFile(file, id)
  BY <1>2, <1>3 DEF InFile
<1> QED
  BY <1>1, <1>2, <1>3, <1>4 DEF g

\* A record more is the newest of its run, and changes no other run.
LEMMA RecordShows ==
  ASSUME NEW file \in Files, NEW rec \in Records
  PROVE  /\ Append(file, rec) \in Files /\ Known(Append(file, rec)) = Known(file) \union {rec.id}
         /\ Newest(Append(file, rec), rec.id) = rec
         /\ \A id \in Known(file) : id # rec.id => Newest(Append(file, rec), id) = Newest(file, id)
         /\ \A id : InFile(Append(file, rec), id) = IF id = rec.id THEN rec.ver ELSE InFile(file, id)
<1> DEFINE g == Append(file, rec)
<1>0. rec # Junk
  BY MarkAssumption
<1>1. /\ g \in Files /\ Len(g) = Len(file) + 1 /\ Len(file) \in Nat /\ g[Len(file) + 1] = rec
      /\ \A i \in 1 .. Len(file) : g[i] = file[i]
      /\ \A i, id : Shows(g, i, id) <=> Shows(file, i, id) \/ (i = Len(file) + 1 /\ rec.id = id)
  BY <1>0, OneMore
<1> HIDE DEF g
<1>2. \A id : id \in Known(g) <=> id \in Known(file) \/ id = rec.id
  <2>1. Len(file) + 1 \in 1 .. Len(g) /\ \A i \in 1 .. Len(file) : i \in 1 .. Len(g)
    BY <1>1
  <2> QED
    BY <1>1, <2>1, KnownIff DEF Shows
<1>3. Newest(g, rec.id) = rec
  <2>1. Len(file) + 1 \in 1 .. Len(g) /\ \A i \in 1 .. Len(g) : i <= Len(file) + 1
    BY <1>1
  <2>2. Shows(g, Len(file) + 1, rec.id)
    BY <1>1
  <2> QED
    BY <1>1, <2>1, <2>2, NewestAt
<1>4. ASSUME NEW id \in Known(file), id # rec.id
      PROVE  Newest(g, id) = Newest(file, id)
  <2>1. PICK m \in 1 .. Len(file) : /\ Shows(file, m, id) /\ \A i \in 1 .. Len(file) : Shows(file, i, id) => i <= m
                                    /\ Newest(file, id) = file[m]
    BY NewestIs
  <2>2. m \in 1 .. Len(g) /\ Shows(g, m, id) /\ \A i \in 1 .. Len(g) : Shows(g, i, id) => i <= m
    BY <1>1, <1>4, <2>1 DEF Shows
  <2>3. Newest(g, id) = g[m]
    BY <1>1, <2>2, NewestAt
  <2> QED
    BY <1>1, <2>1, <2>3
<1>5. \A id : InFile(g, id) = IF id = rec.id THEN rec.ver ELSE InFile(file, id)
  BY <1>2, <1>3, <1>4 DEF InFile
<1> QED
  BY <1>1, <1>2, <1>3, <1>4, <1>5 DEF g

\* A file without its last line, and the line, make the file.
LEMMA FrontAndLast ==
  ASSUME NEW file \in Files, file # <<>>
  PROVE  /\ Front(file) \in Files /\ file[Len(file)] \in Records \union {Junk} /\ Len(Front(file)) = Len(file) - 1
         /\ file = Append(Front(file), file[Len(file)])
<1>1. Len(file) \in Nat /\ Len(file) # 0
  BY DEF Files
<1>2. Front(file) \in Files /\ Len(Front(file)) = Len(file) - 1 /\ \A i \in 1 .. Len(file) - 1 : Front(file)[i] = file[i]
  <2> DEFINE k == Len(file) - 1
  <2>1. k \in Nat /\ k <= Len(file) /\ Front(file) = SubSeq(file, 1, k)
    BY <1>1 DEF Front
  <2> HIDE DEF k
  <2>2. Front(file) \in Files /\ Len(Front(file)) = k /\ \A i \in 1 .. k : Front(file)[i] = file[i]
    BY <1>1, <2>1 DEF Files
  <2> QED
    BY <2>2 DEF k
<1>3. file[Len(file)] \in Records \union {Junk}
  BY <1>1, LineWell
<1> DEFINE g == Append(Front(file), file[Len(file)])
<1>4. g \in Files /\ Len(g) = Len(file) /\ g[Len(file)] = file[Len(file)] /\ \A i \in 1 .. Len(file) - 1 : g[i] = file[i]
  BY <1>1, <1>2, <1>3 DEF Files
<1>5. \A i \in 1 .. Len(file) : g[i] = file[i]
  <2>1. \A i \in 1 .. Len(file) : i = Len(file) \/ i \in 1 .. Len(file) - 1
    BY <1>1
  <2> QED
    BY <1>4, <2>1
<1>6. g = file
  <2> HIDE DEF g
  <2> QED
    BY <1>4, <1>5 DEF Files
<1> QED
  BY <1>2, <1>3, <1>6

\* A file without the line it just got is the file.
LEMMA FrontOfAppend ==
  ASSUME NEW file \in Files, NEW new \in Records \union {Junk}
  PROVE  Front(Append(file, new)) = file
<1> DEFINE g == Append(file, new)
           h == Front(g)
<1>1. g \in Files /\ g # <<>> /\ Len(g) = Len(file) + 1 /\ Len(file) \in Nat /\ \A i \in 1 .. Len(file) : g[i] = file[i]
  BY OneMore DEF Files
<1> HIDE DEF g
<1>2. h \in Files /\ Len(h) = Len(g) - 1 /\ g = Append(h, g[Len(g)]) /\ g[Len(g)] \in Records \union {Junk}
  BY <1>1, FrontAndLast
<1>3. Len(h) = Len(file)
  BY <1>1, <1>2
<1> HIDE DEF h
<1>4. \A i \in 1 .. Len(h) : h[i] = g[i]
  BY <1>2 DEF Files
<1>5. h = file
  BY <1>1, <1>2, <1>3, <1>4 DEF Files
<1> QED
  BY <1>5 DEF g, h

\* A file that got one line more.
LEMMA CutFile ==
  ASSUME NEW file \in Files, NEW new \in Records \union {Junk}, NEW g, g = Append(file, new)
  PROVE  /\ g \in Files /\ g # <<>> /\ Len(g) = Len(file) + 1 /\ g[Len(g)] = new
         /\ Front(g) = file
<1>1. /\ Append(file, new) \in Files /\ Len(Append(file, new)) = Len(file) + 1 /\ Len(file) \in Nat
      /\ Append(file, new)[Len(file) + 1] = new /\ Front(Append(file, new)) = file
  BY OneMore, FrontOfAppend
<1>2. g # <<>>
  BY <1>1 DEF Files
<1> QED
  BY <1>1, <1>2

\* What the tail shows of a run is what the file shows.
LEMMA TailShows ==
  ASSUME NEW file \in Files, NEW id \in Known(TailOf(file))
  PROVE  id \in Known(file) /\ Newest(TailOf(file), id) = Newest(file, id)
<1>0. Len(file) \in Nat /\ TailLines \in Nat /\ TailLines >= 1
  BY HistoryAssumption DEF Files
<1>1. CASE Len(file) <= TailLines
  BY <1>1 DEF TailOf
<1>2. CASE ~(Len(file) <= TailLines)
  <2> DEFINE k == Len(file) - TailLines
             g == TailOf(file)
  <2>1. k \in Nat /\ k >= 1 /\ k + TailLines = Len(file)
    BY <1>0, <1>2
  <2>2. g = SubSeq(file, k + 1, Len(file))
    BY <1>2 DEF TailOf
  <2>3. g \in Files /\ Len(g) = TailLines /\ \A i \in 1 .. TailLines : g[i] = file[k + i]
    BY <1>0, <2>1, <2>2 DEF Files
  <2> HIDE DEF g, k
  <2>4. PICK m \in 1 .. Len(g) : /\ Shows(g, m, id) /\ \A i \in 1 .. Len(g) : Shows(g, i, id) => i <= m
                                 /\ Newest(g, id) = g[m]
    BY <2>3, NewestIs DEF g
  <2>5. k + m \in 1 .. Len(file) /\ file[k + m] = g[m] /\ Shows(file, k + m, id)
    BY <1>0, <2>1, <2>3, <2>4 DEF Shows
  <2>6. ASSUME NEW i \in 1 .. Len(file), Shows(file, i, id)
        PROVE  i <= k + m
    <3>1. CASE i <= k
      BY <1>0, <2>1, <2>3, <3>1
    <3>2. CASE ~(i <= k)
      <4>1. i - k \in 1 .. TailLines /\ k + (i - k) = i
        BY <1>0, <2>1, <3>2
      <4>2. Shows(g, i - k, id)
        BY <2>3, <2>6, <4>1 DEF Shows
      <4>3. i - k <= m
        BY <2>3, <2>4, <4>1, <4>2
      <4> QED
        BY <1>0, <2>1, <2>3, <4>1, <4>3
    <3> QED
      BY <3>1, <3>2
  <2>7. id \in Known(file) /\ Newest(file, id) = file[k + m]
    BY <2>5, <2>6, NewestAt
  <2> QED
    BY <2>4, <2>5, <2>7 DEF g
<1> QED
  BY <1>1, <1>2

-----------------------------------------------------------------------------
(* Compacting it.                                                          *)

\* Who is above of a set of runs.
LEMMA AboveWell ==
  ASSUME NEW file \in Files, NEW id
  PROVE  Above(file, id) \in SUBSET Known(file) /\ IsFiniteSet(Above(file, id)) /\ Cardinality(Above(file, id)) \in Nat
<1>1. Above(file, id) \in SUBSET Known(file)
  BY DEF Above
<1> QED
  BY <1>1, KnownWell

\* At most Keep runs are kept, the highest is among them, and a run with Keep known ones above it
\* has Keep kept ones above it.
LEMMA KeptWell ==
  ASSUME NEW file \in Files
  PROVE  /\ Kept(file) \in SUBSET Known(file) /\ IsFiniteSet(Kept(file)) /\ Cardinality(Kept(file)) \in Nat
         /\ Cardinality(Kept(file)) <= Keep
         /\ \A id \in Nat : Cardinality(Above(file, id)) >= Keep =>
              Cardinality({j \in Kept(file) : j > id}) >= Keep
         /\ Known(file) # {} => Floor(file) \in Kept(file)
<1>1. MaxIds \in Nat /\ Keep \in Nat /\ Keep >= 1 /\ Known(file) \in SUBSET Nat /\ \A j \in Known(file) : j <= MaxIds
  BY KnownWell
<1>2. Kept(file) \in SUBSET Known(file) /\ \A id \in Known(file) : id \in Kept(file) <=> Cardinality(Above(file, id)) < Keep
  BY DEF Kept, Above
<1>3. IsFiniteSet(Kept(file)) /\ Cardinality(Kept(file)) \in Nat
  BY <1>2, KnownWell
<1>4. Cardinality(Kept(file)) <= Keep
  <2> SUFFICES ASSUME Cardinality(Kept(file)) > Keep PROVE FALSE
    BY <1>1, <1>3
  <2>1. Kept(file) # {} /\ Kept(file) \in SUBSET Nat
    BY <1>1, <1>2, <1>3, FS_EmptySet
  <2>2. PICK low \in Kept(file) : \A y \in Kept(file) : low <= y
    BY <2>1, LeastElement
  <2>3. Kept(file) \ {low} \in SUBSET Above(file, low)
    BY <1>1, <1>2, <2>1, <2>2 DEF Above
  <2>4. Cardinality(Kept(file) \ {low}) = Cardinality(Kept(file)) - 1 /\ IsFiniteSet(Kept(file) \ {low})
    BY <1>3, FS_RemoveElement
  <2>5. Cardinality(Kept(file) \ {low}) <= Cardinality(Above(file, low)) /\ Cardinality(Above(file, low)) \in Nat
    BY <2>3, AboveWell, FS_Subset
  <2>6. Cardinality(Above(file, low)) < Keep
    BY <1>2, <2>2
  <2> QED
    BY <1>1, <1>3, <2>4, <2>5, <2>6
<1>5. ASSUME NEW id \in Nat, Cardinality(Above(file, id)) >= Keep
      PROVE  Cardinality({j \in Kept(file) : j > id}) >= Keep
  <2> DEFINE B == {j \in Kept(file) : j > id}
             D == Above(file, id) \ B
  <2>1. B \in SUBSET Above(file, id) /\ IsFiniteSet(B) /\ Cardinality(B) \in Nat
    BY <1>2, <1>3, FS_Subset, FS_CardinalityType DEF Above
  <2>2. CASE D = {}
    <3>1. B = Above(file, id)
      BY <2>1, <2>2
    <3> QED
      BY <1>5, <3>1
  <2>3. CASE D # {}
    <3>1. D \in SUBSET Nat /\ \A j \in D : j <= MaxIds
      BY <1>1 DEF Above
    <3>2. Max(D) \in D /\ \A j \in D : Max(D) >= j
      <4> HIDE DEF D
      <4> QED
        BY <1>1, <2>3, <3>1, GreatestElement
    <3> DEFINE top == Max(D)
    <3>3. top \in Known(file) /\ top > id /\ top \notin Kept(file) /\ top \in Nat /\ \A j \in D : top >= j
      BY <1>1, <3>2 DEF Above
    <3> HIDE DEF top
    <3>4. Above(file, top) \in SUBSET B
      <4> SUFFICES ASSUME NEW j \in Above(file, top) PROVE j \in B
        OBVIOUS
      <4>1. j \in Known(file) /\ j > top /\ j \in Nat
        BY <1>1 DEF Above
      <4>2. j > id /\ j \in Above(file, id)
        BY <3>3, <4>1 DEF Above
      <4>3. j \notin D
        BY <3>1, <3>3, <4>1
      <4> QED
        BY <4>2, <4>3
    <3>5. Cardinality(Above(file, top)) <= Cardinality(B)
      BY <2>1, <3>4, FS_Subset
    <3>6. ~(Cardinality(Above(file, top)) < Keep) /\ Cardinality(Above(file, top)) \in Nat
      BY <1>2, <3>3, AboveWell
    <3> QED
      BY <1>1, <2>1, <3>5, <3>6
  <2> QED
    BY <2>2, <2>3
<1>6. ASSUME Known(file) # {}
      PROVE  Floor(file) \in Kept(file)
  <2>1. Floor(file) \in Known(file) /\ \A j \in Known(file) : j <= Floor(file)
    <3>1. PICK k : k \in Known(file)
      BY <1>6
    <3>2. k >= 1 /\ k <= Floor(file) /\ k \in Nat /\ Floor(file) \in Nat
      BY <3>1, FloorWell, KnownWell
    <3> QED
      BY <3>2, FloorWell
  <2>2. Above(file, Floor(file)) = {}
    BY <1>1, <2>1 DEF Above
  <2>3. Cardinality(Above(file, Floor(file))) = 0
    BY <2>2, FS_EmptySet
  <2> QED
    BY <1>1, <1>2, <2>1, <2>3
<1> QED
  BY <1>2, <1>3, <1>4, <1>5, <1>6

\* The compacted file has one line for each run that is kept, its newest record.
LEMMA CompactedShows ==
  ASSUME NEW file \in Files
  PROVE  /\ Compacted(file) \in Files /\ Len(Compacted(file)) <= Keep /\ Known(Compacted(file)) = Kept(file)
         /\ \A id \in Kept(file) : Newest(Compacted(file), id) = Newest(file, id)
<1> DEFINE K == Kept(file)
           n == Cardinality(K)
           g == Compacted(file)
<1>1. K \in SUBSET Known(file) /\ IsFiniteSet(K) /\ n \in Nat /\ n <= Keep /\ K \in SUBSET Nat
  BY KeptWell, KnownWell
<1>2. g = [i \in 1 .. n |-> Newest(file, Ranked(K, i))]
  BY DEF Compacted
<1> HIDE DEF K
<1>3. \A i \in 1 .. n : Ranked(K, i) \in K /\ Cardinality({j \in K : j <= Ranked(K, i)}) = i
  <2>1. \A i \in 1 .. n : \E k \in K : Cardinality({j \in K : j <= k}) = i
    BY <1>1, RanksExist
  <2> QED
    BY <2>1 DEF Ranked
<1>4. \A i \in 1 .. n : Newest(file, Ranked(K, i)) \in Records /\ Newest(file, Ranked(K, i)).id = Ranked(K, i)
  BY <1>1, <1>3, NewestWell
<1>5. g \in Files /\ Len(g) = n
  BY <1>1, <1>2, <1>4 DEF Files
<1>6. \A i \in 1 .. n : g[i] = Newest(file, Ranked(K, i)) /\ g[i] # Junk
  BY <1>2, <1>4, MarkAssumption
<1> HIDE DEF n, g
<1>7. \A i \in 1 .. n : \A id : Shows(g, i, id) <=> Ranked(K, i) = id
  BY <1>4, <1>5, <1>6 DEF Shows
<1>8. ASSUME NEW id \in K
      PROVE  \E i \in 1 .. n : Ranked(K, i) = id
  <2> DEFINE i == Cardinality({j \in K : j <= id})
  <2>1. i \in 1 .. n /\ \A y \in K : Cardinality({j \in K : j <= y}) = i => y = id
    BY <1>1, RanksDiffer DEF n
  <2>2. Ranked(K, i) = id
    <3> HIDE DEF i
    <3> QED
      BY <1>3, <2>1
  <2> QED
    BY <2>1, <2>2
<1>9. Known(g) = K
  <2>1. \A id : id \in Known(g) <=> \E i \in 1 .. n : Ranked(K, i) = id
    BY <1>5, <1>7, KnownIff
  <2> QED
    BY <1>3, <1>8, <2>1
<1>10. ASSUME NEW id \in K
       PROVE  Newest(g, id) = Newest(file, id)
  <2>1. PICK m \in 1 .. Len(g) : Shows(g, m, id) /\ Newest(g, id) = g[m]
    BY <1>5, <1>9, <1>10, NewestIs
  <2> QED
    BY <1>5, <1>6, <1>7, <2>1
<1> QED
  BY <1>1, <1>5, <1>9, <1>10 DEF K, n, g

-----------------------------------------------------------------------------
(* What is missed.                                                         *)

Counts == [Ids -> [1 .. MaxVersions -> Nat]]

\* The last version reported of a run.
LEMMA LastWell ==
  ASSUME NEW sv \in Counts, NEW id \in Ids
  PROVE  /\ LastOf(sv, id) \in Nat
         /\ LastOf(sv, id) = 0 \/ (LastOf(sv, id) \in 1 .. MaxVersions /\ sv[id][LastOf(sv, id)] > 0)
         /\ \A v \in 1 .. MaxVersions : sv[id][v] > 0 => v <= LastOf(sv, id)
<1> DEFINE S == {0} \union {v \in 1 .. MaxVersions : sv[id][v] > 0}
<1>0. MaxVersions \in Nat
  BY HistoryAssumption
<1>1. S \in SUBSET Nat /\ S # {} /\ \A x \in S : x <= MaxVersions
  BY <1>0
<1>2. Max(S) \in S /\ \A y \in S : Max(S) >= y
  <2> HIDE DEF S
  <2> QED
    BY <1>0, <1>1, GreatestElement
<1>3. LastOf(sv, id) = Max(S)
  BY DEF LastOf
<1> QED
  BY <1>1, <1>2, <1>3

\* One report more: the last version of its run is its own, or the one before; of the others it
\* is as it was.
LEMMA LastAfter ==
  ASSUME NEW sv \in Counts, NEW rec \in Records, NEW id \in Ids
  PROVE  LET sv2 == [sv EXCEPT ![rec.id][rec.ver] = @ + 1]
         IN  /\ sv2 \in Counts
             /\ \A v \in 1 .. MaxVersions : sv2[id][v] = IF id = rec.id /\ v = rec.ver THEN sv[id][v] + 1 ELSE sv[id][v]
             /\ LastOf(sv2, id) = LastOf(sv, id) \/ (id = rec.id /\ LastOf(sv2, id) = rec.ver)
<1> DEFINE sv2 == [sv EXCEPT ![rec.id][rec.ver] = @ + 1]
<1>0. rec.id \in Ids /\ rec.ver \in 1 .. MaxVersions /\ MaxVersions \in Nat
  BY HistoryAssumption DEF Records
<1>1. sv2 \in Counts
  BY <1>0 DEF Counts
<1>2. \A v \in 1 .. MaxVersions : sv2[id][v] = IF id = rec.id /\ v = rec.ver THEN sv[id][v] + 1 ELSE sv[id][v]
  BY <1>0 DEF Counts
<1>3. \A v \in 1 .. MaxVersions : sv[id][v] \in Nat
  BY DEF Counts
<1> HIDE DEF sv2
<1>4. LastOf(sv2, id) = LastOf(sv, id) \/ (id = rec.id /\ LastOf(sv2, id) = rec.ver)
  <2> DEFINE a == LastOf(sv, id)
             b == LastOf(sv2, id)
  <2>1. a \in Nat /\ (a = 0 \/ (a \in 1 .. MaxVersions /\ sv[id][a] > 0)) /\ \A v \in 1 .. MaxVersions : sv[id][v] > 0 => v <= a
    BY LastWell
  <2>2. b \in Nat /\ (b = 0 \/ (b \in 1 .. MaxVersions /\ sv2[id][b] > 0)) /\ \A v \in 1 .. MaxVersions : sv2[id][v] > 0 => v <= b
    BY <1>1, LastWell
  <2> HIDE DEF a, b
  <2>3. a <= b
    BY <1>0, <1>2, <1>3, <2>1, <2>2
  <2>4. b <= a \/ (id = rec.id /\ b = rec.ver)
    BY <1>0, <1>2, <1>3, <2>1, <2>2
  <2> QED
    BY <2>1, <2>2, <2>3, <2>4 DEF a, b
<1> QED
  BY <1>1, <1>2, <1>4 DEF sv2

\* Where more runs are known and each at least as well, no more is missed.
LEMMA MissedLess ==
  ASSUME NEW f \in Files, NEW g \in Files, NEW sv \in Counts,
         \A id \in Ids : Cardinality(Above(g, id)) < Keep => Cardinality(Above(f, id)) < Keep,
         \A id \in Ids : Cardinality(Above(g, id)) < Keep => InFile(f, id) <= InFile(g, id)
  PROVE  Missed(g, sv) \in SUBSET Missed(f, sv)
<1> SUFFICES ASSUME NEW id \in Missed(g, sv) PROVE id \in Missed(f, sv)
  OBVIOUS
<1>1. id \in Ids /\ InFile(g, id) < LastOf(sv, id) /\ Cardinality(Above(g, id)) < Keep
  BY DEF Missed
<1>2. InFile(f, id) \in Nat /\ InFile(g, id) \in Nat /\ LastOf(sv, id) \in Nat /\ InFile(f, id) <= InFile(g, id)
  BY <1>1, InFileWell, LastWell
<1>3. InFile(f, id) < LastOf(sv, id)
  BY <1>1, <1>2
<1> QED
  BY <1>1, <1>3 DEF Missed

\* A record more leaves no more missed.
LEMMA MissedRecord ==
  ASSUME NEW f \in Files, NEW rec \in Records, NEW sv \in Counts, rec.ver = InFile(f, rec.id) + 1
  PROVE  Missed(Append(f, rec), sv) \in SUBSET Missed(f, sv)
<1> DEFINE g == Append(f, rec)
<1>1. g \in Files /\ Known(g) = Known(f) \union {rec.id}
      /\ \A id : InFile(g, id) = IF id = rec.id THEN rec.ver ELSE InFile(f, id)
  BY RecordShows
<1> HIDE DEF g
<1>2. \A id : InFile(f, id) \in Nat /\ InFile(f, id) <= InFile(g, id)
  <2>1. \A id : InFile(f, id) \in Nat
    BY InFileWell
  <2> QED
    BY <1>1, <2>1
<1>3. ASSUME NEW id \in Ids, Cardinality(Above(g, id)) < Keep
      PROVE  Cardinality(Above(f, id)) < Keep
  <2>1. Above(f, id) \in SUBSET Above(g, id) /\ IsFiniteSet(Above(g, id))
    BY <1>1, AboveWell DEF Above
  <2>2. Cardinality(Above(f, id)) <= Cardinality(Above(g, id))
    BY <2>1, FS_Subset
  <2> QED
    BY <1>1, <1>3, <2>2, AboveWell, KnownWell
<1>4. Missed(g, sv) \in SUBSET Missed(f, sv)
  BY <1>1, <1>2, <1>3, MissedLess
<1> QED
  BY <1>4 DEF g

\* A line that cannot be read leaves the same missed.
LEMMA MissedJunk ==
  ASSUME NEW f \in Files, NEW sv
  PROVE  Missed(Append(f, Junk), sv) = Missed(f, sv)
<1>1. Known(Append(f, Junk)) = Known(f) /\ \A id : InFile(Append(f, Junk), id) = InFile(f, id)
  BY JunkShows
<1> QED
  BY <1>1 DEF Missed, Above

\* What the compaction shows of a run: all of it, if Keep newer ones do not push it out.
LEMMA CompactedInFile ==
  ASSUME NEW f \in Files
  PROVE  /\ \A id \in Kept(f) : InFile(Compacted(f), id) = InFile(f, id)
         /\ \A id \in Known(f) : id \in Kept(f) <=> Cardinality(Above(f, id)) < Keep
         /\ \A id \in Nat : Cardinality(Above(Compacted(f), id)) < Keep =>
              Cardinality(Above(f, id)) < Keep /\ InFile(Compacted(f), id) = InFile(f, id)
<1> DEFINE g == Compacted(f)
<1>1. g \in Files /\ Known(g) = Kept(f) /\ \A id \in Kept(f) : Newest(g, id) = Newest(f, id)
  BY CompactedShows
<1> HIDE DEF g
<1>2. Kept(f) \in SUBSET Known(f) /\ \A id \in Nat : Cardinality(Above(f, id)) >= Keep => Cardinality(Above(g, id)) >= Keep
  <2>1. \A id : Above(g, id) = {j \in Kept(f) : j > id}
    BY <1>1 DEF Above
  <2> QED
    BY <2>1, KeptWell
<1>3. \A id \in Kept(f) : InFile(g, id) = InFile(f, id)
  BY <1>1, <1>2 DEF InFile
<1>4. \A id \in Known(f) : id \in Kept(f) <=> Cardinality(Above(f, id)) < Keep
  BY DEF Kept, Above
<1>5. ASSUME NEW id \in Nat, Cardinality(Above(g, id)) < Keep
      PROVE  Cardinality(Above(f, id)) < Keep /\ InFile(g, id) = InFile(f, id)
  <2>1. Cardinality(Above(f, id)) \in Nat /\ Cardinality(Above(g, id)) \in Nat /\ Keep \in Nat
    BY <1>1, AboveWell, KnownWell
  <2>2. Cardinality(Above(f, id)) < Keep
    BY <1>2, <1>5, <2>1
  <2>3. CASE id \in Known(f)
    BY <1>3, <1>4, <2>2, <2>3
  <2>4. CASE id \notin Known(f)
    <3>1. id \notin Known(g)
      BY <1>1, <1>2, <2>4
    <3> QED
      BY <2>2, <2>4, <3>1 DEF InFile
  <2> QED
    BY <2>2, <2>3, <2>4
<1> QED
  BY <1>3, <1>4, <1>5 DEF g

\* A compaction leaves no more missed, and the floor where it is.
LEMMA MissedCompacted ==
  ASSUME NEW f \in Files, NEW sv \in Counts
  PROVE  Missed(Compacted(f), sv) \in SUBSET Missed(f, sv) /\ Floor(Compacted(f)) = Floor(f)
<1> DEFINE g == Compacted(f)
<1>1. g \in Files /\ Known(g) = Kept(f)
  BY CompactedShows
<1>2. \A id \in Ids : id \in Nat
  BY HistoryAssumption DEF Ids
<1>3. \A id \in Ids : Cardinality(Above(g, id)) < Keep =>
        Cardinality(Above(f, id)) < Keep /\ InFile(g, id) = InFile(f, id) /\ InFile(f, id) <= InFile(g, id)
  <2>1. \A id : InFile(f, id) \in Nat
    BY InFileWell
  <2> QED
    BY <1>2, <2>1, CompactedInFile
<1> HIDE DEF g
<1>4. Missed(g, sv) \in SUBSET Missed(f, sv)
  BY <1>1, <1>3, MissedLess
<1>5. Floor(g) = Floor(f)
  <2>1. Floor(g) \in {0} \union Known(g) /\ \A id \in Known(g) : id <= Floor(g)
    BY <1>1, FloorWell
  <2>2. Floor(f) \in {0} \union Known(f) /\ \A id \in Known(f) : id <= Floor(f)
    BY FloorWell
  <2>3. Floor(g) \in Nat /\ Floor(f) \in Nat
    BY <1>1, FloorWell
  <2>4. CASE Known(f) = {}
    <3>1. Known(g) = {}
      BY <1>1, <2>4, KeptWell
    <3> QED
      BY <2>1, <2>2, <2>4, <3>1
  <2>5. CASE Known(f) # {}
    <3>1. Floor(f) \in Known(g) /\ Known(g) \in SUBSET Known(f)
      BY <1>1, <2>5, KeptWell
    <3>2. Floor(f) <= Floor(g) /\ (Floor(g) # 0 => Floor(g) <= Floor(f))
      BY <2>1, <2>2, <3>1
    <3> QED
      BY <2>3, <3>2
  <2> QED
    BY <2>4, <2>5
<1> QED
  BY <1>4, <1>5 DEF g

\* A report leaves missed what was, and its own run if its record cannot be read.
LEMMA MissedReported ==
  ASSUME NEW f \in Files, NEW sv \in Counts, NEW rec \in Records
  PROVE  Missed(f, [sv EXCEPT ![rec.id][rec.ver] = @ + 1]) \in
           SUBSET (Missed(f, sv) \union (IF InFile(f, rec.id) < rec.ver THEN {rec.id} ELSE {}))
<1> DEFINE sv2 == [sv EXCEPT ![rec.id][rec.ver] = @ + 1]
<1> SUFFICES ASSUME NEW id \in Missed(f, sv2)
             PROVE  id \in Missed(f, sv) \/ (id = rec.id /\ InFile(f, rec.id) < rec.ver)
  OBVIOUS
<1>1. id \in Ids /\ InFile(f, id) < LastOf(sv2, id) /\ Cardinality(Above(f, id)) < Keep
  BY DEF Missed
<1>2. LastOf(sv2, id) = LastOf(sv, id) \/ (id = rec.id /\ LastOf(sv2, id) = rec.ver)
  BY <1>1, LastAfter
<1> HIDE DEF sv2
<1> QED
  BY <1>1, <1>2 DEF Missed

\* What is missed is finite.
LEMMA MissedFinite ==
  ASSUME NEW f, NEW sv, NEW S \in SUBSET Ids
  PROVE  IsFiniteSet(Missed(f, sv) \union S) /\ Cardinality(Missed(f, sv) \union S) \in Nat
<1>1. IsFiniteSet(Ids)
  BY HistoryAssumption, FS_Interval DEF Ids
<1>2. Missed(f, sv) \union S \in SUBSET Ids
  BY DEF Missed
<1> QED
  BY <1>1, <1>2, FS_Subset, FS_CardinalityType

-----------------------------------------------------------------------------
(* The sections.                                                           *)

\* Whoever is in a section is there alone.
LEMMA Alone ==
  ASSUME LockInv, NEW p \in Procs, section[p] # NoLine
  PROVE  lock = p /\ \A q \in Procs : q # p => section[q] = NoLine
BY DEF LockInv

\* A section has a place and a record.
LEMMA SectionWell ==
  ASSUME HistTyped, NEW p \in Procs, section[p] # NoLine
  PROVE  /\ section[p] \in Sections /\ section[p].at \in {"read", "written"}
         /\ section[p].rec \in Records /\ section[p].rec.id \in Ids /\ section[p].rec.ver \in 1 .. MaxVersions
         /\ section[p].rec # Junk
BY MarkAssumption DEF HistTyped, Sections, Records

\* The lines the next append leaves alone are a file, and show no more than the file.
LEMMA WholeWell ==
  ASSUME HistTyped, OpenInv
  PROVE  /\ lines \in Files /\ Whole(lines, open) \in Files /\ Known(Whole(lines, open)) \in SUBSET Known(lines)
         /\ \A id : InFile(Whole(lines, open), id) <= InFile(lines, id)
         /\ ~open => Whole(lines, open) = lines
         /\ open => lines = Append(Front(lines), lines[Len(lines)]) /\ Whole(lines, open) = Front(lines)
                    /\ Front(lines) \in Files
<1>1. lines \in Files /\ open \in BOOLEAN /\ (open => lines # <<>>)
  BY DEF HistTyped, Files
<1>2. \A f \in Files : \A id : InFile(f, id) \in Nat /\ InFile(f, id) <= InFile(f, id)
  BY InFileWell
<1>3. CASE ~open
  BY <1>1, <1>2, <1>3 DEF Whole
<1>4. CASE open
  <2> DEFINE f == Front(lines)
             last == lines[Len(lines)]
  <2>1. f \in Files /\ last \in Records \union {Junk} /\ lines = Append(f, last)
    BY <1>1, <1>4, FrontAndLast
  <2>2. last # Junk => last.ver = InFile(f, last.id) + 1
    BY <1>4 DEF OpenInv
  <2> HIDE DEF f, last
  <2>3. CASE last = Junk
    <3>1. Known(lines) = Known(f) /\ \A id : InFile(lines, id) = InFile(f, id)
      BY <2>1, <2>3, JunkShows
    <3> QED
      BY <1>1, <1>2, <1>4, <2>1, <3>1 DEF Whole, f, last
  <2>4. CASE last # Junk
    <3>1. last \in Records
      BY <2>1, <2>4
    <3>2. Known(lines) = Known(f) \union {last.id}
          /\ \A id : InFile(lines, id) = IF id = last.id THEN last.ver ELSE InFile(f, id)
      BY <2>1, <3>1, RecordShows
    <3>3. \A id : InFile(f, id) <= InFile(lines, id)
      BY <1>2, <2>1, <2>2, <2>4, <3>2
    <3> QED
      BY <1>1, <1>4, <2>1, <3>2, <3>3 DEF Whole, f, last
  <2> QED
    BY <2>3, <2>4
<1> QED
  BY <1>1, <1>3, <1>4

-----------------------------------------------------------------------------
(* Steps.                                                                  *)

\* A step that enters a section with the next record of a run.
Enters(p, rec) ==
  /\ lock = NoLine /\ section[p] = NoLine
  /\ lock' = p /\ section' = [section EXCEPT ![p] = [at |-> "read", rec |-> rec]]
  /\ UNCHANGED <<lines, open, saved, torn, crashes, histFaults>>

\* Entering a section keeps the invariant.
LEMMA EntersKept ==
  ASSUME HistInv, NEW p \in Procs, NEW rec \in Records, NextOf(lines, rec), Enters(p, rec),
         seq' \in [Procs -> 0 .. MaxIds]
  PROVE  HistInv'
<1> USE DEF HistInv
<1>0. NoLine \notin Procs /\ \A s \in Sections : s # NoLine
  BY MarkAssumption
<1>1. [at |-> "read", rec |-> rec] \in Sections
  BY DEF Sections
<1>2. section \in [Procs -> Sections \union {NoLine}] /\ section' \in [Procs -> Sections \union {NoLine}]
  BY <1>1 DEF Enters, HistTyped
<1>3. \A q \in Procs : section'[q] = IF q = p THEN [at |-> "read", rec |-> rec] ELSE section[q]
  BY <1>2 DEF Enters
<1>4. \A q \in Procs : section[q] = NoLine
  BY <1>0 DEF Enters, LockInv
<1>5. \A q \in Procs : (Reading(q)' <=> q = p) /\ ~Written(q)' /\ ~Written(q)
  BY <1>0, <1>1, <1>3, <1>4 DEF Reading, Written
<1>6. HistTyped'
  BY <1>2 DEF Enters, HistTyped
<1>7. LockInv'
  BY <1>0, <1>1, <1>3, <1>4 DEF LockInv, Enters
<1>8. SizeInv'
  BY <1>5 DEF SizeInv, Enters
<1>9. SectionInv'
  BY <1>3, <1>5 DEF SectionInv, NextOf, Enters
<1>10. OpenInv' /\ SavedInv'
  BY DEF OpenInv, SavedInv, Enters
<1>11. LossInv'
  <2>1. Losing' = {} /\ Losing = {}
    BY <1>5 DEF Losing
  <2> QED
    BY <2>1 DEF LossInv, Enters
<1> QED
  BY <1>6, <1>7, <1>8, <1>9, <1>10, <1>11

\* An acceptance takes an id above the file's floor, which no record has.
LEMMA AcceptEnters ==
  ASSUME HistInv, NEW p \in Procs, Accept(p)
  PROVE  HistInv'
<1> DEFINE id == Max({seq[p], Floor(lines)}) + 1
           rec == [id |-> id, ver |-> 1]
<1>1. lines \in Files /\ seq \in [Procs -> 0 .. MaxIds] /\ MaxIds \in Nat
  BY HistoryAssumption DEF HistInv, HistTyped, Files
<1>2. Floor(lines) \in Nat /\ \A k \in Known(lines) : k <= Floor(lines)
  BY <1>1, FloorWell
<1>3. id \in Nat /\ id > Floor(lines)
  <2>1. seq[p] \in Nat
    BY <1>1
  <2> QED
    BY <1>2, <2>1, LargerOfTwo
<1>4. rec \in Records
  <2>1. id \in Ids
    BY DEF Accept
  <2> QED
    BY <2>1, HistoryAssumption DEF Records
<1> HIDE DEF id
<1>5. NextOf(lines, rec)
  <2>1. id \notin Known(lines)
    BY <1>1, <1>2, <1>3
  <2>2. InFile(lines, id) = 0
    BY <2>1 DEF InFile
  <2> QED
    BY <1>3, <2>2 DEF NextOf
<1>6. section[p] = NoLine /\ Enter(p, rec) /\ UNCHANGED <<lines, open, saved, torn, crashes, histFaults>>
      /\ seq' = [seq EXCEPT ![p] = id]
  BY DEF Accept, id
<1>7. Enters(p, rec)
  BY <1>6 DEF Enters, Enter
<1>8. seq' \in [Procs -> 0 .. MaxIds]
  <2>1. id \in 0 .. MaxIds
    BY <1>1, <1>4 DEF Records, Ids
  <2> QED
    BY <1>1, <1>6, <2>1
<1> QED
  BY <1>4, <1>5, <1>7, <1>8, EntersKept

\* A change of a record takes the next version of what the file shows: the tail it reads ends
\* where the file does.
LEMMA ModifyEnters ==
  ASSUME HistInv, NEW p \in Procs, Modify(p)
  PROVE  HistInv'
<1>1. lines \in Files /\ seq \in [Procs -> 0 .. MaxIds]
  BY DEF HistInv, HistTyped, Files
<1>2. PICK id \in Known(TailOf(lines)) :
        /\ Newest(TailOf(lines), id).ver < MaxVersions
        /\ Enter(p, [id |-> id, ver |-> Newest(TailOf(lines), id).ver + 1])
  BY DEF Modify
<1>3. id \in Known(lines) /\ Newest(TailOf(lines), id) = Newest(lines, id)
  BY <1>1, TailShows
<1> DEFINE rec == [id |-> id, ver |-> Newest(lines, id).ver + 1]
<1>4. Newest(lines, id).ver \in 1 .. MaxVersions /\ id \in Ids /\ InFile(lines, id) = Newest(lines, id).ver
  BY <1>1, <1>3, NewestWell, KnownWell, InFileWell
<1>5. rec \in Records /\ NextOf(lines, rec)
  BY <1>2, <1>3, <1>4, HistoryAssumption DEF Records, NextOf
<1>6. Enters(p, rec)
  BY <1>2, <1>3 DEF Enters, Enter, Modify
<1>7. seq' \in [Procs -> 0 .. MaxIds]
  BY <1>1 DEF Modify
<1> QED
  BY <1>5, <1>6, <1>7, EntersKept

\* Leaving a section: nobody is in one.
LEMMA LeavesWell ==
  ASSUME HistTyped, LockInv, NEW p \in Procs, section[p] # NoLine, Leave(p)
  PROVE  /\ section' \in [Procs -> Sections \union {NoLine}] /\ LockInv' /\ lock' \in Procs \union {NoLine}
         /\ \A q \in Procs : ~Reading(q)' /\ ~Written(q)'
         /\ Losing' = {}
<1>1. section \in [Procs -> Sections \union {NoLine}] /\ section' = [section EXCEPT ![p] = NoLine] /\ lock' = NoLine
  BY DEF HistTyped, Leave
<1>2. \A q \in Procs : section'[q] = NoLine
  BY <1>1, Alone
<1>3. LockInv'
  BY <1>1, <1>2, MarkAssumption DEF LockInv
<1>4. \A q \in Procs : ~Reading(q)' /\ ~Written(q)'
  BY <1>2 DEF Reading, Written
<1> QED
  BY <1>1, <1>3, <1>4 DEF Losing

\* The write of a record keeps the invariant: behind a line without its end it is lost, and
\* that was paid for; else the file shows it.
LEMMA WriteKept ==
  ASSUME HistInv, NEW p \in Procs, Write(p)
  PROVE  HistInv'
<1> DEFINE rec == section[p].rec
           W == Whole(lines, open)
<1>0. section[p] # NoLine /\ section[p].at = "read" /\ lines' = Appended(lines, rec) /\ open' = FALSE
      /\ section' = [section EXCEPT ![p].at = "written"] /\ UNCHANGED <<lock, seq, saved, torn, crashes, histFaults>>
  BY DEF Write
<1>1. HistTyped /\ LockInv /\ SizeInv /\ SectionInv /\ OpenInv /\ SavedInv /\ LossInv
  BY DEF HistInv
<1>2. /\ section[p] \in Sections /\ rec \in Records /\ rec.id \in Ids /\ rec.ver \in 1 .. MaxVersions /\ rec # Junk
  BY <1>0, <1>1, SectionWell
<1>3. /\ lines \in Files /\ W \in Files /\ Known(W) \in SUBSET Known(lines)
      /\ \A id : InFile(W, id) <= InFile(lines, id)
      /\ ~open => W = lines
      /\ open => W = Front(lines) /\ lines = Append(Front(lines), lines[Len(lines)])
  BY <1>1, WholeWell
<1>4. NextOf(lines, rec)
  BY <1>0, <1>1 DEF SectionInv, Reading
<1>5. \A q \in Procs : q # p => section[q] = NoLine
  BY <1>0, <1>1, Alone
<1>6. /\ section' \in [Procs -> Sections \union {NoLine}]
      /\ section'[p] \in Sections /\ section'[p].at = "written" /\ section'[p].rec = rec
      /\ \A q \in Procs : q # p => section'[q] = section[q]
  <2>1. section \in [Procs -> Sections \union {NoLine}]
    BY <1>1 DEF HistTyped
  <2>2. [section[p] EXCEPT !.at = "written"] \in Sections /\ [section[p] EXCEPT !.at = "written"].at = "written"
        /\ [section[p] EXCEPT !.at = "written"].rec = rec
    BY <1>2 DEF Sections
  <2>3. section' = [section EXCEPT ![p] = [section[p] EXCEPT !.at = "written"]]
    BY <1>0
  <2> QED
    BY <2>1, <2>2, <2>3
<1>7. section'[p] # NoLine
  BY <1>6, MarkAssumption
<1>8. \A q \in Procs : /\ Written(q)' <=> q = p
                       /\ ~Reading(q)' /\ ~Written(q)
  BY <1>0, <1>5, <1>6, <1>7 DEF Reading, Written
<1>9. lines' = IF open THEN Append(W, Junk) ELSE Append(W, rec)
  BY <1>0, <1>1, <1>3 DEF Appended, HistTyped
<1>10. lines' \in Files /\ Len(lines') <= Len(lines) + 1 /\ Len(lines) \in Nat /\ Len(lines') \in Nat /\ lines' # <<>>
  <2>1. Len(W) \in Nat /\ Len(lines) \in Nat /\ Len(W) <= Len(lines)
    <3>1. CASE open
      <4>1. lines # <<>> /\ W = Front(lines)
        BY <1>1, <1>3, <3>1 DEF HistTyped
      <4>2. Len(Front(lines)) = Len(lines) - 1 /\ Len(lines) \in Nat /\ Len(Front(lines)) \in Nat
        BY <1>3, <3>1, <4>1, FrontAndLast DEF Files
      <4> QED
        BY <4>1, <4>2
    <3>2. CASE ~open
      BY <1>3, <3>2 DEF Files
    <3> QED
      BY <3>1, <3>2
  <2>2. Len(lines') = Len(W) + 1 /\ lines' \in Files
    BY <1>2, <1>3, <1>9, OneMore
  <2> QED
    BY <2>1, <2>2
<1> HIDE DEF W
<1>11. Whole(lines', open') = lines'
  BY <1>0 DEF Whole
<1>12. HistTyped'
  BY <1>0, <1>1, <1>6, <1>10 DEF HistTyped, Files
<1>13. LockInv'
  BY <1>0, <1>1, <1>6, <1>7 DEF LockInv
<1>14. SizeInv'
  <2> DEFINE size == Max({MaxLines, Keep}) + histFaults + crashes
  <2>1. size \in Nat /\ Len(lines) <= size + 0
    <3>1. Max({MaxLines, Keep}) \in Nat
      BY HistoryAssumption, LargerOfTwo
    <3>2. histFaults \in Nat /\ crashes \in Nat
      BY <1>1, HistoryAssumption DEF HistTyped
    <3> QED
      BY <1>1, <1>8, <3>1, <3>2 DEF SizeInv
  <2>2. Len(lines') <= size + 1 /\ size' = size
    BY <1>0, <1>10, <2>1
  <2> QED
    BY <1>8, <2>2 DEF SizeInv
<1>15. InFile(lines, rec.id) \in Nat /\ rec.ver = InFile(lines, rec.id) + 1 /\ Floor(lines) \in Nat
       /\ (rec.id \in Known(lines) \/ rec.id > Floor(lines))
  BY <1>3, <1>4, InFileWell, FloorWell DEF NextOf
<1>16. torn = 0 => /\ ~open /\ lines' = Append(lines, rec)
                   /\ saved[rec.id][rec.ver] = 0
  <2> SUFFICES ASSUME torn = 0 PROVE ~open /\ lines' = Append(lines, rec) /\ saved[rec.id][rec.ver] = 0
    OBVIOUS
  <2>1. ~open
    BY <1>1 DEF HistTyped
  <2>2. saved[rec.id][rec.ver] \in Nat
    BY <1>1, <1>2 DEF HistTyped
  <2>3. ASSUME saved[rec.id][rec.ver] > 0 PROVE FALSE
    <3>1. rec.id <= Floor(lines) /\ (rec.id \in Known(lines) => rec.ver <= InFile(lines, rec.id))
      BY <1>1, <1>2, <2>3 DEF SavedInv
    <3>2. rec.id \in Nat
      BY <1>2, HistoryAssumption DEF Ids
    <3> QED
      BY <1>2, <1>15, <3>1, <3>2
  <2> QED
    BY <1>3, <1>9, <2>1, <2>2, <2>3
<1>17. SectionInv'
  <2>1. InFile(Append(lines, rec), rec.id) = rec.ver
    BY <1>2, <1>3, RecordShows
  <2>2. torn = 0 => InFile(lines', rec.id) = rec.ver
    BY <1>16, <2>1
  <2> QED
    BY <1>0, <1>6, <1>8, <1>16, <2>2 DEF SectionInv
<1>18. OpenInv'
  BY <1>0 DEF OpenInv
<1>19. SavedInv'
  <2> SUFFICES ASSUME torn = 0, NEW id \in Ids, NEW v \in 1 .. MaxVersions
               PROVE  /\ saved[id][v] <= 1
                      /\ saved[id][v] > 0 => id <= Floor(lines') /\ (id \in Known(lines') => v <= InFile(lines', id))
    BY <1>0 DEF SavedInv
  <2>1. /\ saved[id][v] <= 1
        /\ saved[id][v] > 0 => id <= Floor(lines) /\ (id \in Known(lines) => v <= InFile(lines, id))
    BY <1>1 DEF SavedInv
  <2>2. Known(lines') = Known(lines) \union {rec.id}
        /\ \A k : InFile(lines', k) = IF k = rec.id THEN rec.ver ELSE InFile(lines, k)
    <3> DEFINE g == Append(lines, rec)
    <3>1. Known(g) = Known(lines) \union {rec.id}
          /\ \A k : InFile(g, k) = IF k = rec.id THEN rec.ver ELSE InFile(lines, k)
      BY <1>2, <1>3, RecordShows
    <3>2. lines' = g
      BY <1>16
    <3> HIDE DEF g
    <3> QED
      BY <3>1, <3>2
  <2>3. Floor(lines) <= Floor(lines')
    <3>1. Floor(lines) \in {0} \union Known(lines')
      BY <1>3, <2>2, FloorWell
    <3> QED
      BY <1>10, <3>1, FloorWell
  <2>4. Floor(lines') \in Nat /\ id \in Nat /\ v \in Nat
    BY <1>10, FloorWell, HistoryAssumption DEF Ids
  <2> QED
    BY <1>15, <2>1, <2>2, <2>3, <2>4
<1>20. LossInv'
  <2> DEFINE miss == Missed(W, saved)
  <2>1. Losing \in SUBSET Ids /\ Losing' \in SUBSET Ids /\ Losing = {}
    BY <1>8 DEF Losing
  <2>2. Cardinality(miss) \in Nat /\ IsFiniteSet(miss) /\ Cardinality(miss) + (IF open THEN 1 ELSE 0) <= torn
    <3>1. miss \union Losing = miss
      BY <2>1
    <3> QED
      BY <1>1, <2>1, <3>1, MissedFinite DEF LossInv, W
  <2> HIDE DEF miss
  <2>3. CASE open
    <3>1. Missed(lines', saved) = miss
      BY <1>3, <1>9, <2>3, MissedJunk DEF miss
    <3>2. Losing' \in SUBSET {rec.id}
      BY <1>6, <1>8 DEF Losing
    <3>3. miss \union Losing' \in SUBSET (miss \union {rec.id})
      BY <3>2
    <3>4. IsFiniteSet(miss \union {rec.id}) /\ Cardinality(miss \union {rec.id}) <= Cardinality(miss) + 1
      BY <2>2, FS_AddElement
    <3>5. Cardinality(miss \union Losing') <= Cardinality(miss) + 1
      <4>1. Cardinality(miss \union Losing') <= Cardinality(miss \union {rec.id})
        BY <3>3, <3>4, FS_Subset
      <4>2. Cardinality(miss \union Losing') \in Nat /\ Cardinality(miss \union {rec.id}) \in Nat
        BY <2>1, <3>4, MissedFinite, FS_CardinalityType DEF miss
      <4> QED
        BY <2>2, <3>4, <4>1, <4>2
    <3>6. Cardinality(miss \union Losing') \in Nat /\ torn \in Nat
      <4>1. Cardinality(miss \union Losing') \in Nat
        BY <2>1, MissedFinite DEF miss
      <4>2. torn \in Nat
        BY <1>1, HistoryAssumption DEF HistTyped
      <4> QED
        BY <4>1, <4>2
    <3>7. Missed(Whole(lines', open'), saved') = miss /\ torn' = torn /\ ~open'
      BY <1>0, <1>11, <3>1
    <3>8. Cardinality(miss \union Losing') + 0 <= torn
      BY <2>2, <2>3, <3>5, <3>6
    <3> QED
      BY <3>7, <3>8 DEF LossInv
  <2>4. CASE ~open
    <3>1. lines' = Append(lines, rec) /\ W = lines
      BY <1>3, <1>9, <2>4
    <3>2. Missed(lines', saved) \in SUBSET miss
      <4>1. saved \in Counts
        BY <1>1 DEF HistTyped, Counts
      <4>2. Missed(Append(lines, rec), saved) \in SUBSET Missed(lines, saved)
        BY <1>2, <1>3, <1>15, <4>1, MissedRecord
      <4> QED
        BY <3>1, <4>2 DEF miss
    <3>3. Losing' = {}
      <4>1. InFile(lines', rec.id) = rec.ver
        BY <1>2, <1>3, <3>1, RecordShows
      <4>2. ~(rec.ver < rec.ver)
        BY <1>2
      <4> QED
        BY <1>6, <1>8, <4>1, <4>2 DEF Losing
    <3>4. Cardinality(Missed(lines', saved)) <= Cardinality(miss) /\ Cardinality(Missed(lines', saved)) \in Nat
      BY <2>2, <3>2, FS_Subset, FS_CardinalityType
    <3>5. Missed(Whole(lines', open'), saved') \union Losing' = Missed(lines', saved) /\ torn' = torn /\ ~open' /\ torn \in Nat
      BY <1>0, <1>1, <1>11, <3>3, HistoryAssumption DEF HistTyped
    <3>6. Cardinality(Missed(lines', saved)) + 0 <= torn
      BY <2>2, <2>4, <3>4, <3>5
    <3> QED
      BY <3>5, <3>6 DEF LossInv
  <2> QED
    BY <2>3, <2>4
<1> QED
  BY <1>12, <1>13, <1>14, <1>17, <1>18, <1>19, <1>20 DEF HistInv

\* The report of an append keeps the invariant, whether or not the file was compacted: a record
\* that cannot be read was counted as losing.
LEMMA FinishKept ==
  ASSUME HistInv, NEW p \in Procs, Finish(p)
  PROVE  HistInv'
<1> DEFINE rec == section[p].rec
           sv2 == [saved EXCEPT ![rec.id][rec.ver] = @ + 1]
<1>0. section[p] # NoLine /\ section[p].at = "written" /\ Leave(p) /\ UNCHANGED <<open, seq, torn, crashes>>
      /\ saved' = sv2
  BY DEF Finish
<1>1. HistTyped /\ LockInv /\ SizeInv /\ SectionInv /\ OpenInv /\ SavedInv /\ LossInv
  BY DEF HistInv
<1>2. /\ rec \in Records /\ rec.id \in Ids /\ rec.ver \in 1 .. MaxVersions
  BY <1>0, <1>1, SectionWell
<1>3. Written(p) /\ ~open /\ (torn = 0 => InFile(lines, rec.id) = rec.ver /\ saved[rec.id][rec.ver] = 0)
  BY <1>0, <1>1 DEF SectionInv, Written
<1>4. lines \in Files /\ Whole(lines, open) = lines /\ saved \in Counts /\ torn \in Nat
  BY <1>1, <1>3, WholeWell, HistoryAssumption DEF HistTyped, Counts
<1>5. /\ section' \in [Procs -> Sections \union {NoLine}] /\ LockInv' /\ lock' \in Procs \union {NoLine}
      /\ \A q \in Procs : ~Reading(q)' /\ ~Written(q)'
      /\ Losing' = {}
  BY <1>0, <1>1, LeavesWell
<1>6. sv2 \in Counts /\ \A id \in Ids, v \in 1 .. MaxVersions :
         sv2[id][v] = IF id = rec.id /\ v = rec.ver THEN saved[id][v] + 1 ELSE saved[id][v]
  <2> HIDE DEF rec
  <2>1. \A id \in Ids : sv2 \in Counts /\ \A v \in 1 .. MaxVersions :
          sv2[id][v] = IF id = rec.id /\ v = rec.ver THEN saved[id][v] + 1 ELSE saved[id][v]
    BY <1>2, <1>4, LastAfter
  <2> HIDE DEF sv2
  <2> QED
    BY <1>2, <2>1
<1> HIDE DEF sv2, rec
<1>7. \/ lines' = Compacted(lines) /\ histFaults' = histFaults
      \/ lines' = lines /\ histFaults' = histFaults /\ Len(lines) <= MaxLines
      \/ lines' = lines /\ histFaults' = histFaults + 1 /\ histFaults < MaxHistFaults
  BY DEF Finish
<1>8. /\ lines' \in Files /\ Floor(lines') = Floor(lines) /\ Known(lines') \in SUBSET Known(lines)
      /\ \A id \in Known(lines') : InFile(lines', id) = InFile(lines, id)
      /\ \A sv \in Counts : Missed(lines', sv) \in SUBSET Missed(lines, sv)
  <2>1. CASE lines' = Compacted(lines)
    <3> DEFINE g == Compacted(lines)
    <3>1. /\ g \in Files /\ Floor(g) = Floor(lines) /\ Known(g) \in SUBSET Known(lines)
          /\ \A id \in Known(g) : InFile(g, id) = InFile(lines, id)
          /\ \A sv \in Counts : Missed(g, sv) \in SUBSET Missed(lines, sv)
      BY <1>4, CompactedShows, KeptWell, CompactedInFile, MissedCompacted
    <3>2. lines' = g
      BY <2>1
    <3> HIDE DEF g
    <3>3. lines' \in Files /\ Floor(lines') = Floor(lines) /\ Known(lines') \in SUBSET Known(lines)
      BY <3>1, <3>2, ZenonT(20)
    <3>4. \A id \in Known(lines') : InFile(lines', id) = InFile(lines, id)
      BY <3>1, <3>2, ZenonT(20)
    <3>5. ASSUME NEW sv \in Counts PROVE Missed(lines', sv) \in SUBSET Missed(lines, sv)
      <4>1. Missed(g, sv) \in SUBSET Missed(lines, sv)
        BY <3>1
      <4> QED
        BY <3>2, <4>1
    <3> QED
      BY <3>3, <3>4, <3>5
  <2>2. CASE lines' = lines
    BY <1>4, <2>2
  <2> QED
    BY <1>7, <2>1, <2>2
<1>9. HistTyped'
  <2>1. histFaults' \in 0 .. MaxHistFaults /\ torn \in 0 .. histFaults' + crashes
    BY <1>1, <1>7, HistoryAssumption DEF HistTyped
  <2> QED
    BY <1>0, <1>1, <1>3, <1>5, <1>6, <1>8, <2>1 DEF HistTyped, Files, Counts
<1>10. SizeInv'
  <2> DEFINE M == Max({MaxLines, Keep})
  <2>1. M \in Nat /\ MaxLines <= M /\ Keep <= M /\ MaxLines \in Nat /\ Keep \in Nat
    BY HistoryAssumption, LargerOfTwo
  <2>2. histFaults \in Nat /\ crashes \in Nat /\ Len(lines) \in Nat /\ Len(lines') \in Nat
    BY <1>1, <1>4, <1>8, HistoryAssumption DEF HistTyped, Files
  <2>3. Len(lines) <= M + histFaults + crashes + 1
    BY <1>1, <1>3 DEF SizeInv
  <2> HIDE DEF M
  <2>4. Len(lines') <= M + histFaults' + crashes
    <3>1. CASE lines' = Compacted(lines) /\ histFaults' = histFaults
      <4>1. Len(lines') <= Keep
        BY <1>4, <3>1, CompactedShows
      <4> QED
        BY <2>1, <2>2, <3>1, <4>1
    <3>2. CASE lines' = lines /\ histFaults' = histFaults /\ Len(lines) <= MaxLines
      BY <2>1, <2>2, <3>2
    <3>3. CASE lines' = lines /\ histFaults' = histFaults + 1
      BY <2>1, <2>2, <2>3, <3>3
    <3> QED
      BY <1>7, <3>1, <3>2, <3>3
  <2>5. histFaults' \in Nat /\ ~(\E q \in Procs : Written(q)') /\ crashes' = crashes
    BY <1>0, <1>5, <1>7, <2>2
  <2>6. M + histFaults' + crashes' + 0 = M + histFaults' + crashes
    BY <2>1, <2>2, <2>5
  <2> QED
    BY <2>4, <2>5, <2>6 DEF SizeInv, M
<1>11. SectionInv' /\ OpenInv'
  BY <1>0, <1>3, <1>5 DEF SectionInv, OpenInv
<1>12. SavedInv'
  <2> SUFFICES ASSUME torn = 0, NEW id \in Ids, NEW v \in 1 .. MaxVersions
               PROVE  /\ sv2[id][v] <= 1
                      /\ sv2[id][v] > 0 => id <= Floor(lines) /\ (id \in Known(lines') => v <= InFile(lines', id))
    BY <1>0, <1>8 DEF SavedInv
  <2>1. /\ saved[id][v] <= 1
        /\ saved[id][v] > 0 => id <= Floor(lines) /\ (id \in Known(lines) => v <= InFile(lines, id))
    BY <1>1 DEF SavedInv
  <2>2. id \in Known(lines') => InFile(lines', id) = InFile(lines, id) /\ id \in Known(lines)
    BY <1>8
  <2>3. CASE id = rec.id /\ v = rec.ver
    <3>1. InFile(lines, rec.id) = rec.ver /\ saved[rec.id][rec.ver] = 0 /\ sv2[id][v] = 1
      BY <1>3, <1>6, <2>3
    <3>2. rec.id \in Known(lines)
      <4>1. rec.id \notin Known(lines) => InFile(lines, rec.id) = 0
        BY DEF InFile
      <4> QED
        BY <1>2, <3>1, <4>1
    <3>3. rec.id <= Floor(lines)
      BY <1>4, <3>2, FloorWell
    <3>4. v <= rec.ver
      BY <2>3
    <3> QED
      BY <2>2, <2>3, <3>1, <3>3, <3>4
  <2>4. CASE ~(id = rec.id /\ v = rec.ver)
    BY <1>6, <2>1, <2>2, <2>4
  <2> QED
    BY <2>3, <2>4
<1>13. LossInv'
  <2> DEFINE old == Missed(lines, saved) \union Losing
             new == Missed(lines', sv2)
  <2>1. Losing \in SUBSET Ids
    BY DEF Losing
  <2>2. IsFiniteSet(old) /\ Cardinality(old) \in Nat /\ Cardinality(old) <= torn
    <3>1. IsFiniteSet(old) /\ Cardinality(old) \in Nat
      BY <2>1, MissedFinite
    <3>2. Cardinality(old) + 0 <= torn
      BY <1>1, <1>3, <1>4 DEF LossInv
    <3> HIDE DEF old
    <3> QED
      BY <3>1, <3>2
  <2>3. new \in SUBSET old
    <3>1. new \in SUBSET Missed(lines, sv2)
      BY <1>6, <1>8
    <3>2. Missed(lines, sv2) \in SUBSET (Missed(lines, saved) \union (IF InFile(lines, rec.id) < rec.ver THEN {rec.id} ELSE {}))
      BY <1>2, <1>4, MissedReported DEF sv2
    <3>3. InFile(lines, rec.id) < rec.ver => rec.id \in Losing
      BY <1>2, <1>3 DEF Losing, rec
    <3> QED
      BY <3>1, <3>2, <3>3
  <2>4. Cardinality(new) <= Cardinality(old) /\ Cardinality(new) \in Nat
    <3> HIDE DEF old, new
    <3> QED
      BY <2>2, <2>3, FS_Subset, FS_CardinalityType
  <2>5. Whole(lines', open') = lines' /\ torn' = torn /\ ~open' /\ saved' = sv2
    BY <1>0, <1>3 DEF Whole
  <2>6. Missed(Whole(lines', open'), saved') \union Losing' = new
    BY <1>5, <2>5
  <2> HIDE DEF old, new
  <2>7. Cardinality(new) + 0 <= torn
    BY <1>4, <2>2, <2>4
  <2> QED
    BY <2>5, <2>6, <2>7 DEF LossInv
<1> QED
  BY <1>5, <1>9, <1>10, <1>11, <1>12, <1>13 DEF HistInv

\* A write that is cut short leaves the lines the next append leaves alone as they were.
LEMMA CutWell ==
  ASSUME HistInv, NEW p \in Procs, Reading(p), CutShort(p)
  PROVE  \/ UNCHANGED <<lines, open, torn>>
         \/ /\ torn' = torn + 1 /\ open' = TRUE /\ lines' \in Files /\ lines' # <<>>
            /\ Len(lines') <= Len(lines) + 1 /\ Whole(lines', TRUE) = Whole(lines, open) /\ OpenInv'
<1> SUFFICES ASSUME ~UNCHANGED <<lines, open, torn>>
             PROVE  /\ torn' = torn + 1 /\ open' = TRUE /\ lines' \in Files /\ lines' # <<>>
                    /\ Len(lines') <= Len(lines) + 1 /\ Whole(lines', TRUE) = Whole(lines, open) /\ OpenInv'
  OBVIOUS
<1> DEFINE rec == section[p].rec
           W == Whole(lines, open)
<1>1. torn' = torn + 1 /\ open' = TRUE
  BY DEF CutShort
<1>2. PICK cut \in {Junk, rec} : lines' = Appended(lines, cut)
  BY DEF CutShort
<1>3. HistTyped /\ OpenInv /\ section[p] # NoLine
  BY DEF HistInv, Reading
<1>4. rec \in Records /\ NextOf(lines, rec)
  BY <1>3, SectionWell DEF HistInv, SectionInv
<1>5. lines \in Files /\ W \in Files /\ (~open => W = lines)
  BY <1>3, WholeWell
<1>6. open => (W = Front(lines) /\ lines # <<>>)
  BY <1>3, WholeWell DEF HistTyped
<1> HIDE DEF rec
<1> DEFINE new == IF open THEN Junk ELSE cut
<1>7. lines' = Append(W, new) /\ (new # Junk => ~open /\ new = rec)
  <2>1. CASE open
    BY <1>2, <1>6, <2>1 DEF Appended
  <2>2. CASE ~open
    BY <1>2, <1>5, <2>2 DEF Appended
  <2> QED
    BY <2>1, <2>2
<1>8. new \in Records \union {Junk}
  BY <1>2, <1>4
<1> HIDE DEF new
<1>9. Len(W) \in Nat /\ Len(lines) \in Nat /\ Len(W) <= Len(lines)
  <2>0. Len(lines) \in Nat /\ Len(W) \in Nat
    BY <1>5 DEF Files
  <2>1. CASE open
    <3>1. Len(Front(lines)) = Len(lines) - 1
      BY <1>5, <1>6, <2>1, FrontAndLast
    <3>2. Len(W) = Len(lines) - 1
      BY <1>6, <2>1, <3>1
    <3> HIDE DEF W
    <3> QED
      BY <2>0, <3>2
  <2>2. CASE ~open
    <3>1. W = lines
      BY <1>5, <2>2
    <3> QED
      BY <2>0, <3>1
  <2> QED
    BY <2>1, <2>2
<1> DEFINE V == W
<1>10. V \in Files /\ lines' = Append(V, new) /\ Len(V) <= Len(lines) /\ Len(V) \in Nat /\ Len(lines) \in Nat
  BY <1>5, <1>7, <1>9
<1>11. ~open => V = lines
  BY <1>5
<1> HIDE DEF V, W
<1>12. lines' \in Files /\ lines' # <<>> /\ Len(lines') = Len(V) + 1 /\ lines'[Len(lines')] = new /\ Front(lines') = V
  BY <1>8, <1>10, CutFile
<1>13. Len(lines') <= Len(lines) + 1
  BY <1>10, <1>12
<1>14. Whole(lines', TRUE) = V
  BY <1>12 DEF Whole
<1>15. new # Junk => new.ver = InFile(V, new.id) + 1
  BY <1>4, <1>7, <1>11 DEF NextOf
<1>16. OpenInv'
  BY <1>12, <1>15 DEF OpenInv
<1> QED
  BY <1>1, <1>12, <1>13, <1>14, <1>16 DEF V, W

\* A write that fails or dies keeps the invariant: what it may cost is counted when it is cut
\* short.
LEMMA CutKept ==
  ASSUME HistInv, NEW p \in Procs, Reading(p), CutShort(p), Leave(p), saved' = saved,
         seq' \in [Procs -> 0 .. MaxIds],
         \/ crashes' = crashes + 1 /\ histFaults' = histFaults /\ crashes < MaxCrashes
         \/ crashes' = crashes /\ histFaults' = histFaults + 1 /\ histFaults < MaxHistFaults
  PROVE  HistInv'
<1>1. HistTyped /\ LockInv /\ SizeInv /\ SectionInv /\ OpenInv /\ SavedInv /\ LossInv /\ section[p] # NoLine
  BY DEF HistInv, Reading
<1>2. /\ section' \in [Procs -> Sections \union {NoLine}] /\ LockInv' /\ lock' \in Procs \union {NoLine}
      /\ \A q \in Procs : ~Reading(q)' /\ ~Written(q)'
      /\ Losing' = {}
  BY <1>1, LeavesWell
<1>3. \A q \in Procs : ~Written(q)
  BY <1>1, Alone DEF Written, Reading
<1>4. Losing = {}
  BY <1>3 DEF Losing
<1>5. /\ crashes \in Nat /\ histFaults \in Nat /\ torn \in Nat /\ MaxCrashes \in Nat /\ MaxHistFaults \in Nat
      /\ crashes' \in 0 .. MaxCrashes /\ histFaults' \in 0 .. MaxHistFaults
      /\ histFaults' + crashes' = histFaults + crashes + 1 /\ torn <= histFaults + crashes
  <2>1. /\ crashes \in 0 .. MaxCrashes /\ histFaults \in 0 .. MaxHistFaults /\ torn \in 0 .. histFaults + crashes
        /\ MaxCrashes \in Nat /\ MaxHistFaults \in Nat
    BY <1>1, HistoryAssumption DEF HistTyped
  <2>2. CASE crashes' = crashes + 1 /\ histFaults' = histFaults /\ crashes < MaxCrashes
    BY <2>1, <2>2
  <2>3. CASE crashes' = crashes /\ histFaults' = histFaults + 1 /\ histFaults < MaxHistFaults
    BY <2>1, <2>3
  <2> QED
    BY <2>2, <2>3
<1>6. \/ UNCHANGED <<lines, open, torn>>
      \/ /\ torn' = torn + 1 /\ open' = TRUE /\ lines' \in Files /\ lines' # <<>>
         /\ Len(lines') <= Len(lines) + 1 /\ Whole(lines', TRUE) = Whole(lines, open) /\ OpenInv'
  BY CutWell
<1>7. lines \in Files /\ Len(lines) \in Nat
  BY <1>1 DEF HistTyped, Files
<1>8. HistTyped'
  <2>1. lines' \in Files /\ open' \in BOOLEAN /\ (open' => lines' # <<>>) /\ (open' => torn' > 0)
        /\ torn' \in Nat /\ torn' <= torn + 1
    <3>1. CASE UNCHANGED <<lines, open, torn>>
      <4>1. lines' = lines /\ open' = open /\ torn' = torn
        BY <3>1
      <4> QED
        BY <1>1, <1>5, <1>7, <4>1 DEF HistTyped
    <3>2. CASE torn' = torn + 1 /\ open' = TRUE /\ lines' \in Files /\ lines' # <<>>
      BY <1>5, <3>2
    <3> QED
      BY <1>6, <3>1, <3>2
  <2>2. torn' \in 0 .. histFaults' + crashes'
    <3>1. torn' <= histFaults + crashes + 1
      BY <1>5, <2>1
    <3>2. torn' \in 0 .. (histFaults + crashes + 1)
      BY <1>5, <2>1, <3>1
    <3> QED
      BY <1>5, <3>2
  <2> QED
    BY <1>1, <1>2, <1>5, <2>1, <2>2 DEF HistTyped, Files
<1>9. SizeInv'
  <2> DEFINE M == Max({MaxLines, Keep})
  <2>1. M \in Nat
    BY HistoryAssumption, LargerOfTwo
  <2>2. Len(lines) <= M + histFaults + crashes + 0
    BY <1>1, <1>3 DEF SizeInv
  <2>3. Len(lines') <= Len(lines) + 1 /\ Len(lines') \in Nat
    <3>1. CASE UNCHANGED <<lines, open, torn>>
      <4>1. lines' = lines
        BY <3>1
      <4> QED
        BY <1>7, <4>1
    <3>2. CASE lines' \in Files /\ Len(lines') <= Len(lines) + 1
      BY <3>2 DEF Files
    <3> QED
      BY <1>6, <3>1, <3>2
  <2> HIDE DEF M
  <2>4. Len(lines') <= M + histFaults' + crashes' + 0
    BY <1>5, <1>7, <2>1, <2>2, <2>3
  <2> QED
    BY <1>2, <2>4 DEF SizeInv, M
<1>10. SectionInv'
  BY <1>2 DEF SectionInv
<1>11. OpenInv'
  BY <1>1, <1>6 DEF OpenInv
<1>12. SavedInv'
  <2>1. CASE UNCHANGED <<lines, open, torn>>
    BY <1>1, <2>1 DEF SavedInv
  <2>2. CASE torn' = torn + 1
    BY <1>5, <2>2 DEF SavedInv
  <2> QED
    BY <1>6, <2>1, <2>2
<1>13. LossInv'
  <2> DEFINE miss == Missed(Whole(lines, open), saved)
  <2>1. Cardinality(miss) \in Nat /\ Cardinality(miss) + (IF open THEN 1 ELSE 0) <= torn
    <3>1. miss \union Losing = miss /\ Losing \in SUBSET Ids
      BY <1>4
    <3> QED
      BY <1>1, <3>1, MissedFinite DEF LossInv
  <2>2. Whole(lines', open') = Whole(lines, open)
    BY <1>6
  <2>3. Missed(Whole(lines', open'), saved') \union Losing' = miss
    BY <1>2, <2>2
  <2> HIDE DEF miss
  <2>4. Cardinality(miss) + (IF open' THEN 1 ELSE 0) <= torn'
    <3>1. CASE UNCHANGED <<lines, open, torn>>
      BY <2>1, <3>1
    <3>2. CASE torn' = torn + 1 /\ open' = TRUE
      <4>1. Cardinality(miss) <= torn
        BY <1>5, <2>1
      <4> QED
        BY <1>5, <2>1, <3>2, <4>1
    <3> QED
      BY <1>6, <3>1, <3>2
  <2> QED
    BY <2>3, <2>4 DEF LossInv
<1> QED
  BY <1>2, <1>8, <1>9, <1>10, <1>11, <1>12, <1>13 DEF HistInv

\* A process that dies outside a section, or after its write, leaves the file as it is.
LEMMA DiesKept ==
  ASSUME HistInv, NEW p \in Procs, crashes < MaxCrashes, crashes' = crashes + 1,
         UNCHANGED <<lines, open, torn, saved, histFaults>>, seq' \in [Procs -> 0 .. MaxIds],
         UNCHANGED <<lock, section>> \/ (Written(p) /\ Leave(p))
  PROVE  HistInv'
<1>1. HistTyped /\ LockInv /\ SizeInv /\ SectionInv /\ OpenInv /\ SavedInv /\ LossInv
  BY DEF HistInv
<1>2. crashes \in Nat /\ histFaults \in Nat /\ torn \in Nat /\ MaxCrashes \in Nat /\ torn <= histFaults + crashes
  BY <1>1, HistoryAssumption DEF HistTyped
<1>3. /\ section' \in [Procs -> Sections \union {NoLine}] /\ LockInv' /\ lock' \in Procs \union {NoLine}
      /\ \A q \in Procs : (Reading(q)' => Reading(q) /\ section'[q] = section[q])
                          /\ (Written(q)' => Written(q) /\ section'[q] = section[q])
  <2>1. CASE UNCHANGED <<lock, section>>
    BY <1>1, <2>1 DEF HistTyped, LockInv, Reading, Written
  <2>2. CASE Written(p) /\ Leave(p)
    <3>1. section[p] # NoLine
      BY <2>2 DEF Written
    <3> QED
      BY <1>1, <2>2, <3>1, LeavesWell
  <2> QED
    BY <2>1, <2>2
<1>4. HistTyped'
  BY <1>1, <1>2, <1>3 DEF HistTyped
<1>5. SizeInv'
  <2> DEFINE M == Max({MaxLines, Keep})
  <2>1. M \in Nat /\ Len(lines) \in Nat
    <3>1. M \in Nat
      BY HistoryAssumption, LargerOfTwo
    <3>2. lines \in Files
      BY <1>1 DEF HistTyped, Files
    <3> QED
      BY <3>1, <3>2 DEF Files
  <2>2. Len(lines) <= M + histFaults + crashes + (IF \E q \in Procs : Written(q) THEN 1 ELSE 0)
    BY <1>1 DEF SizeInv
  <2>3. (\E q \in Procs : Written(q)') => (\E q \in Procs : Written(q))
    BY <1>3
  <2> HIDE DEF M
  <2>4. Len(lines) <= M + histFaults + (crashes + 1) + (IF \E q \in Procs : Written(q)' THEN 1 ELSE 0)
    <3>1. CASE \E q \in Procs : Written(q)'
      BY <1>2, <2>1, <2>2, <2>3, <3>1
    <3>2. CASE ~(\E q \in Procs : Written(q)')
      BY <1>2, <2>1, <2>2, <3>2
    <3> QED
      BY <3>1, <3>2
  <2> QED
    BY <2>4 DEF SizeInv, M
<1>6. SectionInv' /\ OpenInv' /\ SavedInv'
  BY <1>1, <1>3 DEF SectionInv, OpenInv, SavedInv
<1>7. LossInv'
  <2> DEFINE old == Missed(Whole(lines, open), saved) \union Losing
             new == Missed(Whole(lines, open), saved) \union Losing'
  <2>1. Losing' \in SUBSET Losing /\ Losing \in SUBSET Ids
    BY <1>3 DEF Losing
  <2>2. new \in SUBSET old /\ IsFiniteSet(old) /\ Cardinality(old) \in Nat
    BY <2>1, MissedFinite
  <2>3. Cardinality(new) <= Cardinality(old) /\ Cardinality(new) \in Nat
    <3> HIDE DEF old, new
    <3> QED
      BY <2>2, FS_Subset, FS_CardinalityType
  <2>4. Cardinality(old) + (IF open THEN 1 ELSE 0) <= torn
    BY <1>1 DEF LossInv
  <2>5. new = Missed(Whole(lines', open'), saved') \union Losing' /\ open' = open /\ torn' = torn
    OBVIOUS
  <2> HIDE DEF old, new
  <2>6. Cardinality(new) + (IF open THEN 1 ELSE 0) <= torn
    BY <1>2, <2>2, <2>3, <2>4
  <2> QED
    BY <2>5, <2>6 DEF LossInv
<1> QED
  BY <1>3, <1>4, <1>5, <1>6, <1>7 DEF HistInv

\* Every step keeps the invariant.
LEMMA HistStepKept ==
  ASSUME HistInv, [HistNext]_histVars
  PROVE  HistInv'
<1>1. CASE UNCHANGED histVars
  <2>1. UNCHANGED <<lines, open, lock, section, seq, saved, torn, crashes, histFaults>>
    BY <1>1 DEF histVars
  <2> QED
    BY <2>1 DEF HistInv, HistTyped, LockInv, SizeInv, SectionInv, OpenInv, SavedInv, LossInv, Losing, Reading, Written
<1>2. CASE HistNext
  <2> PICK p \in Procs : Accept(p) \/ Modify(p) \/ Write(p) \/ Finish(p) \/ WriteFails(p) \/ Crash(p)
    BY <1>2 DEF HistNext
  <2>1. CASE Accept(p)
    BY <2>1, AcceptEnters
  <2>2. CASE Modify(p)
    BY <2>2, ModifyEnters
  <2>3. CASE Write(p)
    BY <2>3, WriteKept
  <2>4. CASE Finish(p)
    BY <2>4, FinishKept
  <2>5. CASE WriteFails(p)
    <3>1. seq' \in [Procs -> 0 .. MaxIds]
      BY <2>5 DEF WriteFails, HistInv, HistTyped
    <3>2. Reading(p) /\ CutShort(p) /\ Leave(p) /\ saved' = saved /\ crashes' = crashes /\ histFaults' = histFaults + 1
          /\ histFaults < MaxHistFaults
      BY <2>5 DEF WriteFails, Reading
    <3> QED
      BY <3>1, <3>2, CutKept
  <2>6. CASE Crash(p)
    <3>1. seq' \in [Procs -> 0 .. MaxIds]
      BY <2>6, HistoryAssumption DEF Crash, HistInv, HistTyped
    <3>2. crashes < MaxCrashes /\ crashes' = crashes + 1 /\ UNCHANGED <<saved, histFaults>>
      BY <2>6 DEF Crash
    <3>3. CASE section[p] = NoLine
      BY <2>6, <3>1, <3>2, <3>3, DiesKept DEF Crash
    <3>4. CASE section[p] # NoLine /\ section[p].at = "read"
      <4>1. Reading(p) /\ CutShort(p) /\ Leave(p)
        BY <2>6, <3>4 DEF Crash, Reading
      <4> QED
        BY <3>1, <3>2, <4>1, CutKept
    <3>5. CASE section[p] # NoLine /\ section[p].at # "read"
      <4>1. section[p].at = "written"
        BY <3>5, SectionWell DEF HistInv
      <4>2. Written(p) /\ Leave(p) /\ UNCHANGED <<lines, open, torn>>
        BY <2>6, <3>5, <4>1 DEF Crash, Written
      <4> QED
        BY <3>1, <3>2, <4>2, DiesKept
    <3> QED
      BY <3>3, <3>4, <3>5
  <2> QED
    BY <2>1, <2>2, <2>3, <2>4, <2>5, <2>6
<1> QED
  BY <1>1, <1>2

-----------------------------------------------------------------------------
(* What it is for.                                                         *)

\* The invariant holds when there is no file yet.
LEMMA HistStarts ==
  ASSUME HistInit
  PROVE  HistInv
<1> DEFINE sv0 == [id \in Ids |-> [v \in 1 .. MaxVersions |-> 0]]
<1>0. /\ lines = <<>> /\ open = FALSE /\ lock = NoLine /\ section = [p \in Procs |-> NoLine]
      /\ seq = [p \in Procs |-> 0] /\ saved = sv0 /\ torn = 0 /\ crashes = 0 /\ histFaults = 0
  BY DEF HistInit
<1>1. {MaxIds, MaxLines, MaxCrashes, MaxHistFaults, Keep} \subseteq Nat /\ NoLine \notin Procs
  BY HistoryAssumption, MarkAssumption
<1>2. sv0 \in Counts /\ \A id \in Ids, v \in 1 .. MaxVersions : sv0[id][v] = 0
  BY DEF Counts
<1> HIDE DEF sv0
<1>3. HistTyped
  <2>1. lines \in Seq(Records \union {Junk}) /\ open \in BOOLEAN /\ ~open /\ lock \in Procs \union {NoLine}
    <3>1. <<>> \in Seq(Records \union {Junk})
      OBVIOUS
    <3>2. lines \in Seq(Records \union {Junk})
      BY <1>0, <3>1
    <3>3. open \in BOOLEAN /\ ~open
      BY <1>0
    <3>4. lock \in Procs \union {NoLine}
      BY <1>0
    <3> QED
      BY <3>2, <3>3, <3>4
  <2>2. section \in [Procs -> Sections \union {NoLine}]
    BY <1>0
  <2>3. seq \in [Procs -> 0 .. MaxIds]
    BY <1>0, <1>1
  <2>4. saved \in [Ids -> [1 .. MaxVersions -> Nat]]
    BY <1>0, <1>2 DEF Counts
  <2>5. torn \in 0 .. histFaults + crashes /\ crashes \in 0 .. MaxCrashes /\ histFaults \in 0 .. MaxHistFaults
    BY <1>0, <1>1
  <2> QED
    BY <2>1, <2>2, <2>3, <2>4, <2>5 DEF HistTyped
<1>4. \A p \in Procs : section[p] = NoLine /\ ~Reading(p) /\ ~Written(p)
  BY <1>0 DEF Reading, Written
<1>5. LockInv
  BY <1>0, <1>1, <1>4 DEF LockInv
<1>6. SizeInv
  <2>1. Max({MaxLines, Keep}) \in Nat
    BY <1>1, LargerOfTwo
  <2>2. Len(lines) = 0
    BY <1>0
  <2> QED
    BY <1>0, <1>4, <2>1, <2>2 DEF SizeInv
<1>7. SectionInv /\ OpenInv
  BY <1>0, <1>4 DEF SectionInv, OpenInv
<1>8. SavedInv
  BY <1>0, <1>2 DEF SavedInv
<1>9. LossInv
  <2>1. Losing = {}
    BY <1>4 DEF Losing
  <2>2. \A id \in Ids : LastOf(saved, id) = 0
    <3>1. \A id \in Ids : LastOf(sv0, id) = 0 \/ (LastOf(sv0, id) \in 1 .. MaxVersions /\ sv0[id][LastOf(sv0, id)] > 0)
      BY <1>2, LastWell
    <3> QED
      BY <1>0, <1>2, <3>1
  <2>3. <<>> \in Files
    BY DEF Files
  <2>4. \A id : InFile(<<>>, id) \in Nat
    BY <2>3, InFileWell
  <2>5. Missed(<<>>, saved) = {}
    BY <2>2, <2>4 DEF Missed
  <2>6. Missed(Whole(lines, open), saved) \union Losing = {}
    BY <1>0, <2>1, <2>5 DEF Whole
  <2>7. Cardinality({}) = 0
    BY FS_EmptySet
  <2>8. Cardinality(Missed(Whole(lines, open), saved) \union Losing) = 0
    BY <2>6, <2>7
  <2>9. (IF open THEN 1 ELSE 0) = 0 /\ torn = 0
    BY <1>0
  <2> QED
    BY <2>8, <2>9 DEF LossInv
<1> QED
  BY <1>3, <1>5, <1>6, <1>7, <1>8, <1>9 DEF HistInv

\* The runs a run of the file is looked for among are those it shows and those reported.
LEMMA RetainedAreMissed ==
  ASSUME HistInv
  PROVE  {id \in Retained : LastInFile(id) < LastSaved(id)} \in SUBSET Missed(Whole(lines, open), saved)
<1> DEFINE W == Whole(lines, open)
           taken == {id \in Ids : LastSaved(id) > 0} \union Known(lines)
<1>1. HistTyped /\ OpenInv
  BY DEF HistInv
<1>2. /\ lines \in Files /\ W \in Files /\ Known(W) \in SUBSET Known(lines)
      /\ \A id : InFile(W, id) <= InFile(lines, id)
  BY <1>1, WholeWell
<1>3. saved \in Counts
  BY <1>1 DEF HistTyped, Counts
<1>4. Known(lines) \in SUBSET Ids /\ IsFiniteSet(Ids) /\ Keep \in Nat
  BY <1>2, KnownWell, FS_Interval DEF Ids
<1>5. \A id : LastInFile(id) = InFile(lines, id) /\ LastSaved(id) = LastOf(saved, id)
  BY DEF LastInFile, InFile, LastSaved, LastOf
<1>6. Retained = {id \in taken : Cardinality({j \in taken : j > id}) < Keep}
  BY DEF Retained
<1>7. taken \in SUBSET Ids /\ Known(lines) \in SUBSET taken
  BY <1>4
<1> HIDE DEF W, taken
<1> SUFFICES ASSUME NEW id \in Retained, LastInFile(id) < LastSaved(id)
             PROVE  id \in Missed(W, saved)
  BY DEF W
<1>8. id \in Ids /\ Cardinality({j \in taken : j > id}) < Keep
  BY <1>6, <1>7
<1>9. InFile(lines, id) < LastOf(saved, id)
  BY <1>5
<1>10. InFile(W, id) < LastOf(saved, id)
  <2>1. InFile(W, id) \in Nat /\ InFile(lines, id) \in Nat /\ LastOf(saved, id) \in Nat
    BY <1>2, <1>3, <1>8, InFileWell, LastWell
  <2> QED
    BY <1>2, <1>9, <2>1
<1>11. Cardinality(Above(W, id)) < Keep
  <2> DEFINE T == {j \in taken : j > id}
  <2>1. Above(W, id) \in SUBSET T
    BY <1>2, <1>7 DEF Above
  <2>2. IsFiniteSet(T)
    BY <1>4, <1>7, FS_Subset
  <2> HIDE DEF T
  <2>3. Cardinality(Above(W, id)) <= Cardinality(T) /\ Cardinality(T) \in Nat /\ Cardinality(Above(W, id)) \in Nat
    BY <1>2, <2>1, <2>2, FS_Subset, FS_CardinalityType, AboveWell
  <2>4. Cardinality(T) < Keep
    BY <1>8 DEF T
  <2> QED
    BY <1>4, <2>3, <2>4
<1> QED
  BY <1>8, <1>10, <1>11 DEF Missed

\* The invariant says what the file has to keep.
LEMMA HistInvIsEnough ==
  ASSUME HistInv
  PROVE  HistorySafe
<1>1. HistTyped /\ LockInv /\ SizeInv /\ SavedInv /\ LossInv
  BY DEF HistInv
<1>2. HistTypeOK
  <2> DEFINE M == Max({MaxLines, Keep})
  <2>1. M \in Nat /\ MaxCrashes \in Nat /\ MaxHistFaults \in Nat
    BY HistoryAssumption, LargerOfTwo
  <2>2. crashes \in 0 .. MaxCrashes /\ histFaults \in 0 .. MaxHistFaults /\ torn \in 0 .. histFaults + crashes
    BY <1>1 DEF HistTyped
  <2>3. Len(lines) \in Nat
    BY <1>1 DEF HistTyped
  <2>4. Len(lines) <= M + histFaults + crashes + (IF \E p \in Procs : Written(p) THEN 1 ELSE 0)
    BY <1>1 DEF SizeInv
  <2> HIDE DEF M
  <2>5. Len(lines) <= M + 1 + MaxHistFaults + MaxCrashes
    <3>1. CASE \E p \in Procs : Written(p)
      BY <2>1, <2>2, <2>3, <2>4, <3>1
    <3>2. CASE ~(\E p \in Procs : Written(p))
      BY <2>1, <2>2, <2>3, <2>4, <3>2
    <3> QED
      BY <3>1, <3>2
  <2>6. torn \in 0 .. MaxHistFaults + MaxCrashes
    BY <2>1, <2>2
  <2> QED
    BY <1>1, <2>5, <2>6 DEF HistTypeOK, HistTyped, M
<1>3. EachVersionOnce
  BY <1>1 DEF SavedInv, EachVersionOnce
<1>4. FileIsAMap
  <2> DEFINE lost == {id \in Retained : LastInFile(id) < LastSaved(id)}
             all == Missed(Whole(lines, open), saved) \union Losing
  <2>1. lost \in SUBSET all /\ Losing \in SUBSET Ids
    BY RetainedAreMissed DEF Losing
  <2>2. IsFiniteSet(all) /\ Cardinality(all) \in Nat
    BY <2>1, MissedFinite
  <2>3. Cardinality(all) + (IF open THEN 1 ELSE 0) <= torn
    BY <1>1 DEF LossInv
  <2>4. torn \in Nat
    BY <1>1, HistoryAssumption DEF HistTyped
  <2>5. Cardinality(lost) <= torn
    <3> HIDE DEF lost, all
    <3>1. Cardinality(lost) <= Cardinality(all) /\ Cardinality(lost) \in Nat
      BY <2>1, <2>2, FS_Subset, FS_CardinalityType
    <3>2. CASE open
      BY <2>2, <2>3, <2>4, <3>1, <3>2
    <3>3. CASE ~open
      BY <2>2, <2>3, <2>4, <3>1, <3>3
    <3> QED
      BY <3>2, <3>3
  <2> QED
    BY <2>5 DEF FileIsAMap
<1> QED
  BY <1>2, <1>3, <1>4 DEF HistorySafe

\* A step that cuts no write short, when none was: the file got the next record of a run, or
\* was compacted, or is the same.
LEMMA WholeSteps ==
  ASSUME HistInv, [HistNext]_histVars, torn' = 0
  PROVE  \/ lines' = lines
         \/ lines' = Compacted(lines)
         \/ \E rec \in Records : NextOf(lines, rec) /\ lines' = Append(lines, rec)
<1>1. HistTyped /\ LockInv /\ SectionInv
  BY DEF HistInv
<1>2. torn \in Nat
  BY <1>1, HistoryAssumption DEF HistTyped
<1>3. CASE UNCHANGED histVars
  BY <1>3 DEF histVars
<1>4. CASE HistNext
  <2> PICK p \in Procs : Accept(p) \/ Modify(p) \/ Write(p) \/ Finish(p) \/ WriteFails(p) \/ Crash(p)
    BY <1>4 DEF HistNext
  <2>0. CutShort(p) => lines' = lines
    BY <1>2 DEF CutShort
  <2>1. CASE Accept(p) \/ Modify(p)
    BY <2>1 DEF Accept, Modify
  <2>2. CASE Write(p)
    <3> DEFINE rec == section[p].rec
    <3>1. section[p] # NoLine /\ section[p].at = "read" /\ lines' = Appended(lines, rec) /\ torn' = torn
      BY <2>2 DEF Write
    <3>2. rec \in Records /\ NextOf(lines, rec)
      BY <1>1, <3>1, SectionWell DEF SectionInv, Reading
    <3>3. ~open
      BY <1>1, <3>1 DEF HistTyped
    <3>4. lines' = Append(lines, rec)
      BY <3>1, <3>3 DEF Appended
    <3> QED
      BY <3>2, <3>4
  <2>3. CASE Finish(p)
    BY <2>3 DEF Finish
  <2>4. CASE WriteFails(p)
    BY <2>0, <2>4 DEF WriteFails
  <2>5. CASE Crash(p)
    BY <2>0, <2>5 DEF Crash
  <2> QED
    BY <2>1, <2>2, <2>3, <2>4, <2>5
<1> QED
  BY <1>3, <1>4

\* Such a step takes no record back.
LEMMA NewestGoesOn ==
  ASSUME HistInv, [HistNext]_histVars, torn' = 0, NEW id \in Known(lines)
  PROVE  \/ id \in Known(lines') /\ Newest(lines', id).ver \in {Newest(lines, id).ver, Newest(lines, id).ver + 1}
         \/ id \notin Known(lines') /\ Cardinality({j \in Known(lines) : j > id}) >= Keep
<1>1. lines \in Files
  BY DEF HistInv, HistTyped, Files
<1>2. CASE lines' = lines
  BY <1>2
<1>3. CASE lines' = Compacted(lines)
  <2> DEFINE g == Compacted(lines)
  <2>1. Known(g) = Kept(lines) /\ \A k \in Kept(lines) : Newest(g, k) = Newest(lines, k)
    BY <1>1, CompactedShows
  <2>2. lines' = g
    BY <1>3
  <2> HIDE DEF g
  <2>3. CASE id \in Kept(lines)
    <3>1. id \in Known(lines') /\ Newest(lines', id) = Newest(lines, id)
      BY <2>1, <2>2, <2>3
    <3> QED
      BY <3>1
  <2>4. CASE id \notin Kept(lines)
    <3>1. id \notin Known(lines')
      BY <2>1, <2>2, <2>4
    <3>2. ~(Cardinality(Above(lines, id)) < Keep)
      BY <1>1, <2>4, CompactedInFile
    <3>3. Cardinality(Above(lines, id)) \in Nat /\ Keep \in Nat
      BY <1>1, AboveWell, KnownWell
    <3>4. Cardinality(Above(lines, id)) >= Keep
      BY <3>2, <3>3
    <3> QED
      BY <3>1, <3>4 DEF Above
  <2> QED
    BY <2>3, <2>4
<1>4. CASE \E rec \in Records : NextOf(lines, rec) /\ lines' = Append(lines, rec)
  <2> PICK rec \in Records : NextOf(lines, rec) /\ lines' = Append(lines, rec)
    BY <1>4
  <2> DEFINE g == Append(lines, rec)
  <2>1. Known(g) = Known(lines) \union {rec.id} /\ Newest(g, rec.id) = rec
        /\ \A k \in Known(lines) : k # rec.id => Newest(g, k) = Newest(lines, k)
    BY <1>1, RecordShows
  <2>2. lines' = g
    OBVIOUS
  <2>3. id = rec.id => rec.ver = Newest(lines, id).ver + 1
    BY <1>1, InFileWell DEF NextOf
  <2> HIDE DEF g
  <2>4. CASE id = rec.id
    <3>1. id \in Known(lines') /\ Newest(lines', id) = rec
      BY <2>1, <2>2, <2>4
    <3> QED
      BY <2>3, <2>4, <3>1
  <2>5. CASE id # rec.id
    <3>1. id \in Known(lines') /\ Newest(lines', id) = Newest(lines, id)
      BY <2>1, <2>2, <2>5
    <3> QED
      BY <3>1
  <2> QED
    BY <2>4, <2>5
<1> QED
  BY <1>2, <1>3, <1>4, WholeSteps

\* Such a step does not lower the floor.
LEMMA FloorGoesOn ==
  ASSUME HistInv, [HistNext]_histVars, torn' = 0
  PROVE  Floor(lines') >= Floor(lines)
<1>1. lines \in Files /\ saved \in Counts
  BY DEF HistInv, HistTyped, Files, Counts
<1>2. Floor(lines) \in Nat
  BY <1>1, FloorWell
<1>3. CASE lines' = lines
  BY <1>2, <1>3
<1>4. CASE lines' = Compacted(lines)
  BY <1>1, <1>2, <1>4, MissedCompacted
<1>5. CASE \E rec \in Records : NextOf(lines, rec) /\ lines' = Append(lines, rec)
  <2> PICK rec \in Records : NextOf(lines, rec) /\ lines' = Append(lines, rec)
    BY <1>5
  <2> DEFINE g == Append(lines, rec)
  <2>1. g \in Files /\ Known(g) = Known(lines) \union {rec.id}
    BY <1>1, RecordShows
  <2>2. lines' = g
    OBVIOUS
  <2> HIDE DEF g
  <2>3. Floor(g) \in Nat /\ Floor(lines) \in {0} \union Known(g) /\ \A k \in Known(g) : k <= Floor(g)
    BY <1>1, <2>1, FloorWell
  <2>4. Floor(g) >= Floor(lines)
    BY <1>2, <2>3
  <2> QED
    BY <2>2, <2>4
<1> QED
  BY <1>3, <1>4, <1>5, WholeSteps

\* Every state of the file is safe, for every number of processes, every bound, and whatever is
\* lost or cut short: no version of a run is reported twice while no write was cut short, and no
\* more of the retained runs are behind what was reported than writes were cut short.
THEOREM HistoryIsSafe == HistSpec => []HistorySafe
<1>1. HistInit => HistInv
  BY HistStarts
<1>2. HistInv /\ [HistNext]_histVars => HistInv'
  BY HistStepKept
<1>3. HistInv => HistorySafe
  BY HistInvIsEnough
<1> QED
  BY <1>1, <1>2, <1>3, PTL DEF HistSpec

\* No step of a process whose writes are whole takes the newest record of a run or the id floor
\* of the file back, whichever process compacts it.
THEOREM HistoryGoesForward == HistSpec => HistoryNeverFalls
<1> DEFINE Forward == torn' = 0 => \A id \in Known(lines) :
             \/ id \in Known(lines') /\ Newest(lines', id).ver
                                           \in {Newest(lines, id).ver, Newest(lines, id).ver + 1}
             \/ id \notin Known(lines') /\ Cardinality({j \in Known(lines) : j > id}) >= Keep
           Upward == torn' = 0 => Floor(lines') >= Floor(lines)
<1>1. HistInit => HistInv
  BY HistStarts
<1>2. HistInv /\ [HistNext]_histVars => HistInv'
  BY HistStepKept
<1>3. HistInv /\ [HistNext]_histVars => Forward /\ Upward
  BY NewestGoesOn, FloorGoesOn
<1>4. HistInv /\ [HistNext]_histVars => [Forward]_histVars /\ [Upward]_histVars
  BY <1>3
<1> QED
  BY <1>1, <1>2, <1>4, PTL DEF HistSpec, HistoryNeverFalls, NewestNeverRegresses, FloorNeverFalls
=============================================================================
