---------------------------- MODULE DashboardProofs ----------------------------
(* Proofs about the dashboard: MCDashboard and the modules it joins.

   Each part has an inductive invariant of its own, given in front of its
   lemmas: StreamInv of the event ring, RecInv of the recipients, TargetInv of
   the targets, InterInv of a voice interaction, DashInv of the actions and
   TaskInv of the task updates.  For each there is one lemma per action, the
   lemmas that it starts and rests in its invariant, and the one that the
   invariant gives what the run checks.  BoardInv joins them, and the theorems
   at the end are about every behaviour of BoardSpec.                         *)
EXTENDS MCDashboard, SequenceTheorems, FiniteSetTheorems, WellFoundedInduction, TLAPS

\* The order of the numbers, as a relation.
Below == {ss \in Nat \X Nat : ss[1] < ss[2]}

\* The order of the numbers has no infinite descent.
LEMMA BelowIsWellFounded == IsWellFoundedOn(Below, Nat)
BY NatLessThanWellFounded DEF OpToRel, Below

\* A set of numbers that is not empty has a least element.
LEMMA LeastElement ==
  ASSUME NEW T \in SUBSET Nat, T # {}
  PROVE  \E x \in T : \A y \in T : x <= y
<1>1. PICK x \in T : \A y \in T : ~(<<y, x>> \in Below)
  BY BelowIsWellFounded, WFMin
<1>2. \A a, b \in Nat : b < a => <<b, a>> \in Below
  BY DEF Below
<1>3. ASSUME NEW y \in T
      PROVE  x <= y
  <2>1. x \in Nat /\ y \in Nat /\ ~(<<y, x>> \in Below)
    BY <1>1, <1>3
  <2>2. ~(y < x)
    BY <1>2, <2>1
  <2> QED
    BY <2>1, <2>2
<1> QED
  BY <1>3

\* A bounded set of numbers that is not empty has a greatest element, and Max is it.
LEMMA GreatestElement ==
  ASSUME NEW S \in SUBSET Nat, S # {}, NEW n \in Nat, \A x \in S : x <= n
  PROVE  Max(S) \in S /\ \A y \in S : Max(S) >= y
<1> DEFINE T == {n - x : x \in S}
<1>1. T \in SUBSET Nat /\ T # {}
  <2>1. \A x \in S : n - x \in Nat
    OBVIOUS
  <2> QED
    BY <2>1
<1>2. PICK d \in T : \A y \in T : d <= y
  BY <1>1, LeastElement
<1>3. PICK m \in S : d = n - m
  OBVIOUS
<1>4. \A y \in S : m >= y
  BY <1>2, <1>3
<1> QED
  BY <1>4 DEF Max

\* What holds of 0 and passes from n to n + 1 holds of every number.
LEMMA InductionOnNumbers ==
  ASSUME NEW S, 0 \in S, \A n \in Nat : n \in S => n + 1 \in S
  PROVE  Nat \subseteq S
<1> SUFFICES ASSUME Nat \ S # {} PROVE FALSE
  OBVIOUS
<1>1. PICK x \in Nat \ S : \A y \in Nat \ S : x <= y
  BY LeastElement
<1> QED
  BY <1>1

\* The values of the event stream.
Gaps == {"none", "missing_sequence", "truncated", "epoch_reset"}
RowSet == [epoch : Epochs, seq : Seqs]

\* The event stream has its types.
StreamTyped ==
  /\ ring \in [epoch : Epochs, last : 0 .. LastSeq] /\ kinds \subseteq Seqs /\ opened \in Nat
  /\ source \in [epoch : Epochs \cup {0}, revision : Nat, cursor : 0 .. LastSeq,
                 latest : 0 .. LastSeq, gap : Gaps]
  /\ rows \in Seq(RowSet) /\ Len(rows) <= MaxRows
  /\ fetched \subseteq [revision : Nat, epoch : Epochs, since : Nat, latest : 0 .. LastSeq]
  /\ recorded \in [Epochs -> [Seqs -> 0 .. 2]]

\* The log is not ahead of the host.
SourceInv ==
  /\ source.epoch <= ring.epoch /\ source.cursor <= source.latest
  /\ source.epoch = ring.epoch => source.latest <= ring.last
  /\ \A page \in fetched : page.epoch = ring.epoch => page.latest <= ring.last
  /\ \A page \in fetched : page.epoch <= ring.epoch

\* Rows stand in the order of their epochs, each once, and were recorded.
RowsInv ==
  /\ \A i, k \in DOMAIN rows : i < k => rows[i] # rows[k] /\ rows[i].epoch <= rows[k].epoch
  /\ \A i \in DOMAIN rows :
       /\ rows[i].epoch <= source.epoch
       /\ rows[i].epoch = source.epoch => rows[i].seq <= source.latest
       /\ recorded[rows[i].epoch][rows[i].seq] > 0

\* Up to the cursor everything was recorded, unless a gap says otherwise for good.
GapInv ==
  /\ source.gap = "none" => source.cursor = source.latest
  /\ source.gap \in {"none", "missing_sequence"} /\ source.epoch # 0 =>
       \A n \in kinds : n <= source.cursor => recorded[source.epoch][n] > 0

\* The inductive invariant of the event stream.
StreamInv == StreamTyped /\ SourceInv /\ RowsInv /\ GapInv

\* Finite sets of numbers have an element of each rank.
LEMMA RanksExist ==
  ASSUME NEW S \in SUBSET Nat, IsFiniteSet(S)
  PROVE  \A i \in 1 .. Cardinality(S) : \E n \in S : Cardinality({m \in S : m <= n}) = i
<1> DEFINE P == {k \in Nat : k + 1 <= Cardinality(S) =>
                   \E n \in S : Cardinality({m \in S : m <= n}) = k + 1}
<1>0. Cardinality(S) \in Nat
  BY FS_CardinalityType
<1>1. 0 \in P
  <2> SUFFICES ASSUME 1 <= Cardinality(S) PROVE \E n \in S : Cardinality({m \in S : m <= n}) = 1
    OBVIOUS
  <2>1. S # {}
    BY FS_EmptySet
  <2>2. PICK n \in S : \A m \in S : n <= m
    BY <2>1, LeastElement
  <2>3. {m \in S : m <= n} = {n}
    <3>1. \A m \in S : m \in Nat /\ n \in Nat
      OBVIOUS
    <3>2. \A m \in S : m <= n <=> m = n
      BY <2>2, <3>1
    <3> QED
      BY <3>2
  <2> QED
    BY <2>3, FS_Singleton
<1>2. ASSUME NEW k \in Nat, k \in P
      PROVE  k + 1 \in P
  <2> SUFFICES ASSUME (k + 1) + 1 <= Cardinality(S)
               PROVE  \E n \in S : Cardinality({m \in S : m <= n}) = (k + 1) + 1
    OBVIOUS
  <2>1. PICK n \in S : Cardinality({m \in S : m <= n}) = k + 1
    BY <1>0, <1>2
  <2> DEFINE A == {m \in S : m <= n}
  <2>2. A \in SUBSET S /\ IsFiniteSet(A) /\ Cardinality(A) = k + 1
    BY <2>1, FS_Subset
  <2>3. S \ A # {} /\ S \ A \in SUBSET Nat
    <3>1. A # S
      BY <1>0, <1>2, <2>2
    <3> QED
      BY <2>2, <3>1
  <2>4. PICK x \in S \ A : \A m \in S \ A : x <= m
    BY <2>3, LeastElement
  <2>5. {m \in S : m <= x} = A \cup {x}
    <3>1. n \in Nat /\ x \in Nat /\ ~(x <= n)
      BY <2>4
    <3>2. \A m \in S : m \in Nat /\ (m <= x <=> m <= n \/ m = x)
      <4> TAKE m \in S
      <4>1. CASE m <= n
        BY <3>1, <4>1
      <4>2. CASE ~(m <= n)
        <5>1. x <= m
          BY <2>4, <4>2
        <5> QED
          BY <3>1, <4>2, <5>1
      <4> QED
        BY <4>1, <4>2
    <3> QED
      BY <2>4, <3>2
  <2>6. Cardinality(A \cup {x}) = (k + 1) + 1
    BY <2>2, <2>4, FS_AddElement
  <2> QED
    BY <2>4, <2>5, <2>6
<1>3. Nat \subseteq P
  <2> HIDE DEF P
  <2> QED
    BY <1>1, <1>2, InductionOnNumbers
<1>4. ASSUME NEW i \in 1 .. Cardinality(S)
      PROVE  \E n \in S : Cardinality({m \in S : m <= n}) = i
  <2>1. i - 1 \in Nat /\ i - 1 + 1 = i
    BY <1>0
  <2>2. i - 1 \in P
    BY <1>3, <2>1
  <2> QED
    BY <1>0, <2>1, <2>2
<1> QED
  BY <1>4

\* What a page adds to the rows.
Added(new) == [i \in 1 .. Cardinality(new) |->
                 [epoch |-> source.epoch, seq |-> CHOOSE n \in new : Cardinality({m \in new : m <= n}) = i]]

\* The rows a page adds are as many as its new frames, typed and of the source's epoch.
LEMMA AddedWell ==
  ASSUME NEW new \in SUBSET Seqs, LastSeq \in Nat, source.epoch \in Epochs
  PROVE  /\ Added(new) \in Seq(RowSet) /\ Len(Added(new)) = Cardinality(new)
         /\ \A i \in 1 .. Len(Added(new)) : Added(new)[i].epoch = source.epoch /\ Added(new)[i].seq \in new
         /\ \A i, k \in 1 .. Len(Added(new)) : i < k => Added(new)[i] # Added(new)[k]
<1>1. new \in SUBSET Nat /\ IsFiniteSet(new) /\ Cardinality(new) \in Nat
  <2>1. new \in SUBSET Nat /\ \A s \in new : s <= LastSeq
    BY DEF Seqs
  <2>2. IsFiniteSet(new)
    BY <2>1, FS_BoundedSetOfNaturals
  <2> QED
    BY <2>1, <2>2, FS_CardinalityType
<1> DEFINE c(i) == CHOOSE n \in new : Cardinality({m \in new : m <= n}) = i
<1>2. \A i \in 1 .. Cardinality(new) : c(i) \in new /\ Cardinality({m \in new : m <= c(i)}) = i
  <2> TAKE i \in 1 .. Cardinality(new)
  <2>1. \E n \in new : Cardinality({m \in new : m <= n}) = i
    BY <1>1, RanksExist
  <2> QED
    BY <2>1
<1>3. \A i, k \in 1 .. Cardinality(new) : i # k => c(i) # c(k)
  BY <1>2
<1> DEFINE r(i) == [epoch |-> source.epoch, seq |-> c(i)]
<1>4. Added(new) = [i \in 1 .. Cardinality(new) |-> r(i)]
  BY DEF Added
<1> HIDE DEF c
<1>5. \A i \in 1 .. Cardinality(new) : r(i) \in RowSet /\ r(i).epoch = source.epoch /\ r(i).seq = c(i)
  BY <1>2 DEF RowSet
<1> HIDE DEF r
<1>6. Added(new) \in Seq(RowSet) /\ Len(Added(new)) = Cardinality(new)
  BY <1>1, <1>4, <1>5
<1>7. \A i \in 1 .. Cardinality(new) : Added(new)[i] = r(i)
  BY <1>4
<1>8. \A i, k \in 1 .. Len(Added(new)) : i < k => Added(new)[i] # Added(new)[k]
  <2> TAKE i, k \in 1 .. Len(Added(new))
  <2>1. i \in 1 .. Cardinality(new) /\ k \in 1 .. Cardinality(new)
    BY <1>6
  <2>2. i < k => c(i) # c(k)
    BY <1>1, <1>3, <2>1
  <2> QED
    BY <1>5, <1>7, <2>1, <2>2
<1>9. \A i \in 1 .. Len(Added(new)) : Added(new)[i].epoch = source.epoch /\ Added(new)[i].seq \in new
  <2> TAKE i \in 1 .. Len(Added(new))
  <2>1. i \in 1 .. Cardinality(new)
    BY <1>6
  <2>2. Added(new)[i] = r(i) /\ r(i).epoch = source.epoch /\ r(i).seq = c(i) /\ c(i) \in new
    BY <1>2, <1>5, <1>7, <2>1
  <2> QED
    BY <2>2
<1> QED
  BY <1>6, <1>8, <1>9

\* Saved keeps the newest rows of the log and the added ones, MaxRows of them at most.
LEMMA SavedWell ==
  ASSUME StreamTyped, NEW new \in SUBSET Seqs, source.epoch \in Epochs, Saved(new)
  PROVE  /\ rows' \in Seq(RowSet) /\ Len(rows') <= MaxRows
         /\ \E over \in Nat :
              \A i \in 1 .. Len(rows') :
                \/ over + i \in 1 .. Len(rows) /\ rows'[i] = rows[over + i]
                \/ /\ over + i - Len(rows) \in 1 .. Len(Added(new))
                   /\ rows'[i] = Added(new)[over + i - Len(rows)]
<1> DEFINE all == rows \o Added(new)
           over == IF Len(all) > MaxRows THEN Len(all) - MaxRows ELSE 0
<1>1. LastSeq \in Nat /\ MaxRows \in Nat
  BY RingAssumption
<1>2. /\ rows \in Seq(RowSet) /\ Added(new) \in Seq(RowSet)
      /\ Len(rows) \in Nat /\ Len(Added(new)) \in Nat
  BY <1>1, AddedWell DEF StreamTyped
<1>3. /\ all \in Seq(RowSet) /\ Len(all) = Len(rows) + Len(Added(new))
      /\ \A i \in 1 .. Len(all) : all[i] = IF i <= Len(rows) THEN rows[i] ELSE Added(new)[i - Len(rows)]
  BY <1>2, ConcatProperties
<1>4. rows' = SubSeq(all, over + 1, Len(all))
  BY DEF Saved, Added
<1> HIDE DEF all
<1>5. over \in Nat /\ over <= Len(all) /\ Len(all) - over <= MaxRows /\ Len(all) \in Nat
  BY <1>1, <1>2, <1>3
<1> HIDE DEF over
<1>6. \A i \in over + 1 .. Len(all) : all[i] \in RowSet
  BY <1>3, <1>5
<1>7. /\ rows' \in Seq(RowSet) /\ Len(rows') = Len(all) - over
      /\ \A i \in 1 .. Len(all) - over : rows'[i] = all[over + i]
  <2>1. over + 1 \in Int /\ Len(all) \in Int
    BY <1>5
  <2>2. /\ rows' \in Seq(RowSet) /\ Len(rows') = IF over + 1 <= Len(all) THEN Len(all) - (over + 1) + 1 ELSE 0
        /\ \A i \in 1 .. Len(all) - (over + 1) + 1 : rows'[i] = all[(over + 1) + i - 1]
    BY <1>4, <1>6, <2>1, SubSeqProperties
  <2>3. \A i \in 1 .. Len(all) - over : rows'[i] = all[over + i]
    <3> TAKE i \in 1 .. Len(all) - over
    <3>1. i \in 1 .. Len(all) - (over + 1) + 1 /\ (over + 1) + i - 1 = over + i
      BY <1>5
    <3> QED
      BY <2>2, <3>1
  <2> QED
    BY <1>5, <2>2, <2>3
<1>8. \A i \in 1 .. Len(rows') :
        \/ over + i \in 1 .. Len(rows) /\ rows'[i] = rows[over + i]
        \/ /\ over + i - Len(rows) \in 1 .. Len(Added(new))
           /\ rows'[i] = Added(new)[over + i - Len(rows)]
  BY <1>2, <1>3, <1>5, <1>7
<1> QED
  BY <1>5, <1>7, <1>8

\* The place reached after a page: not behind the old one, not beyond what is known, and
\* every number in between was seen.
LEMMA AdvancedWell ==
  ASSUME StreamInv, NEW page \in fetched, Current(page), NEW latest \in Nat,
         latest >= source.latest, latest >= page.latest
  PROVE  /\ Advanced(page) \in source.cursor .. LastSeq /\ Advanced(page) <= latest
         /\ \A n \in source.cursor + 1 .. Advanced(page) : n \in Seen(page)
<1> DEFINE S == {c \in source.cursor .. LastSeq : \A n \in source.cursor + 1 .. c : n \in Seen(page)}
<1>1. /\ LastSeq \in Nat /\ source.cursor \in Nat /\ source.cursor <= LastSeq
      /\ source.cursor <= source.latest /\ source.latest \in Nat /\ page.latest \in Nat
  BY RingAssumption DEF StreamInv, StreamTyped, SourceInv
<1>2. S \in SUBSET Nat /\ S # {} /\ \A c \in S : c <= LastSeq
  <2>1. source.cursor \in S
    BY <1>1
  <2> QED
    BY <1>1, <2>1
<1>3. Max(S) \in S
  <2> HIDE DEF S
  <2> QED
    BY <1>1, <1>2, GreatestElement
<1>4. Advanced(page) = Max(S)
  BY DEF Advanced
<1>5. \A n \in Seen(page) : n <= latest
  <2>1. \A n \in Frames(page) : n <= latest
    BY <1>1 DEF Frames, Seqs
  <2>2. \A n \in Seqs : Kept(n) => n <= latest
    <3> SUFFICES ASSUME NEW n \in Seqs, NEW i \in DOMAIN rows, rows[i] = [epoch |-> source.epoch, seq |-> n]
                 PROVE  n <= latest
      BY DEF Kept
    <3>1. rows[i].epoch = source.epoch /\ rows[i].seq = n
      OBVIOUS
    <3>2. rows[i].seq <= source.latest
      BY <3>1 DEF StreamInv, RowsInv
    <3> QED
      BY <1>1, <3>1, <3>2 DEF Seqs
  <2> QED
    BY <2>1, <2>2 DEF Seen
<1>6. Advanced(page) \in source.cursor .. LastSeq /\ \A n \in source.cursor + 1 .. Advanced(page) : n \in Seen(page)
  BY <1>3, <1>4
<1>7. Advanced(page) <= latest
  <2>1. CASE Advanced(page) = source.cursor
    BY <1>1, <2>1
  <2>2. CASE Advanced(page) # source.cursor
    <3>1. Advanced(page) \in source.cursor + 1 .. Advanced(page)
      BY <1>1, <1>6, <2>2
    <3> QED
      BY <1>5, <1>6, <3>1
  <2> QED
    BY <2>1, <2>2
<1> QED
  BY <1>6, <1>7

\* The greatest of two numbers.
LEMMA LargerOfTwo ==
  ASSUME NEW a \in Nat, NEW b \in Nat
  PROVE  Max({a, b}) = IF a >= b THEN a ELSE b
<1> DEFINE S == {a, b}
<1>1. S \in SUBSET Nat /\ S # {} /\ \A x \in S : x <= a + b
  OBVIOUS
<1>2. Max(S) \in S /\ \A y \in S : Max(S) >= y
  <2> HIDE DEF S
  <2>1. a + b \in Nat
    OBVIOUS
  <2> QED
    BY <1>1, <2>1, GreatestElement
<1> QED
  BY <1>2

\* The least of two numbers.
LEMMA SmallerOfTwo ==
  ASSUME NEW a \in Nat, NEW b \in Nat
  PROVE  Min({a, b}) = IF a <= b THEN a ELSE b
<1> DEFINE m == IF a <= b THEN a ELSE b
<1>1. m \in {a, b} /\ \A y \in {a, b} : m <= y
  OBVIOUS
<1>2. \A x \in {a, b} : (\A y \in {a, b} : x <= y) => x = m
  OBVIOUS
<1> QED
  BY <1>1, <1>2 DEF Min

\* What saving a page leaves: the rows stand in order, and every recorded number stays recorded.
LEMMA ObserveKept ==
  ASSUME StreamInv, NEW page \in fetched, ObserveRpc(page)
  PROVE  /\ StreamInv'
         /\ source'.epoch = source.epoch /\ source'.cursor >= source.cursor /\ source'.latest >= source.latest
<1> DEFINE new == NewFrames(page)
           latest == Max({source.latest, page.latest})
           adv == Advanced(page)
           cursor == IF Truncated(page) THEN latest ELSE adv
           gap == Gap(page, adv, latest)
           e == source.epoch
           marks == [n \in Seqs |-> IF n \in new THEN Min({recorded[e][n] + 1, 2}) ELSE recorded[e][n]]
<1>1. /\ LastSeq \in Nat /\ MaxRows \in Nat /\ Ring \in Nat
      /\ source.cursor \in 0 .. LastSeq /\ source.latest \in 0 .. LastSeq /\ page.latest \in 0 .. LastSeq
      /\ source.cursor <= source.latest /\ page.epoch \in Epochs /\ source.gap \in Gaps
      /\ page.since \in Nat /\ \A x \in Epochs : x \in Nat /\ x # 0
  BY RingAssumption, EpochsAssumption DEF StreamInv, StreamTyped, SourceInv
<1>2. page.epoch = e /\ e \in Epochs /\ e \in Nat /\ Current(page)
  BY <1>1 DEF ObserveRpc, Current
<1>3. latest = (IF source.latest >= page.latest THEN source.latest ELSE page.latest)
  BY <1>1, LargerOfTwo
<1>4. latest \in 0 .. LastSeq /\ latest >= source.latest /\ latest >= page.latest
  BY <1>1, <1>3
<1>5. /\ adv \in source.cursor .. LastSeq /\ adv <= latest
      /\ \A n \in source.cursor + 1 .. adv : n \in Seen(page)
  BY <1>1, <1>2, <1>4, AdvancedWell
<1>6. /\ Saved(new)
      /\ recorded' = [recorded EXCEPT ![e] = marks]
      /\ source' = [source EXCEPT !.cursor = cursor, !.latest = latest, !.gap = gap]
      /\ ring' = ring /\ kinds' = kinds /\ opened' = opened /\ fetched' = fetched
  BY DEF ObserveRpc
<1>7. new \in SUBSET Seqs /\ \A n \in new : n \in Frames(page) /\ n \in kinds /\ ~Kept(n) /\ n <= latest
  <2>1. \A n \in Frames(page) : n \in Seqs /\ n <= page.latest
    BY DEF Frames
  <2>2. \A n \in new : n \in Frames(page) /\ n \in kinds /\ ~Kept(n)
    BY DEF NewFrames
  <2>3. \A n \in new : n <= latest
    BY <1>1, <1>4, <2>1, <2>2 DEF Seqs
  <2> QED
    BY <2>1, <2>2, <2>3
<1>8. gap \in Gaps
  BY <1>1 DEF Gap, Gaps
<1> HIDE DEF new, latest, adv, gap
<1>9. cursor \in 0 .. LastSeq /\ cursor <= latest /\ cursor >= source.cursor
  BY <1>1, <1>4, <1>5
<1> HIDE DEF cursor
<1>10. /\ source \in [epoch : Epochs \cup {0}, revision : Nat, cursor : 0 .. LastSeq, latest : 0 .. LastSeq, gap : Gaps]
       /\ source'.epoch = e /\ source'.cursor = cursor /\ source'.latest = latest /\ source'.gap = gap
       /\ source' \in [epoch : Epochs \cup {0}, revision : Nat, cursor : 0 .. LastSeq, latest : 0 .. LastSeq, gap : Gaps]
  <2>1. source \in [epoch : Epochs \cup {0}, revision : Nat, cursor : 0 .. LastSeq, latest : 0 .. LastSeq, gap : Gaps]
    BY DEF StreamInv, StreamTyped
  <2> QED
    BY <1>4, <1>6, <1>8, <1>9, <2>1
<1>11. /\ recorded \in [Epochs -> [Seqs -> 0 .. 2]] /\ recorded' \in [Epochs -> [Seqs -> 0 .. 2]]
       /\ \A x \in Epochs, n \in Seqs : recorded[x][n] > 0 => recorded'[x][n] > 0
       /\ \A n \in new : recorded'[e][n] > 0
  <2>1. recorded \in [Epochs -> [Seqs -> 0 .. 2]]
    BY DEF StreamInv, StreamTyped
  <2>2. \A n \in Seqs : recorded[e][n] \in 0 .. 2
    BY <1>2, <2>1
  <2>3. \A n \in Seqs : Min({recorded[e][n] + 1, 2}) \in 1 .. 2
    <3> TAKE n \in Seqs
    <3>1. recorded[e][n] + 1 \in Nat /\ 2 \in Nat /\ recorded[e][n] + 1 >= 1
      BY <2>2
    <3>2. Min({recorded[e][n] + 1, 2}) = IF recorded[e][n] + 1 <= 2 THEN recorded[e][n] + 1 ELSE 2
      BY <3>1, SmallerOfTwo
    <3> QED
      BY <2>2, <3>1, <3>2
  <2>4. \A n \in Seqs : marks[n] = IF n \in new THEN Min({recorded[e][n] + 1, 2}) ELSE recorded[e][n]
    OBVIOUS
  <2>5. marks \in [Seqs -> 0 .. 2]
    <3>1. \A n \in Seqs : (IF n \in new THEN Min({recorded[e][n] + 1, 2}) ELSE recorded[e][n]) \in 0 .. 2
      BY <2>2, <2>3
    <3> QED
      BY <3>1
  <2>6. \A n \in Seqs : (recorded[e][n] > 0 => marks[n] > 0) /\ (n \in new => marks[n] > 0)
    BY <2>3, <2>4
  <2> HIDE DEF marks
  <2>7. \A x \in Epochs : recorded'[x] = IF x = e THEN marks ELSE recorded[x]
    BY <1>6, <2>1
  <2>8. recorded' \in [Epochs -> [Seqs -> 0 .. 2]]
    BY <1>6, <2>1, <2>5
  <2>9. \A x \in Epochs, n \in Seqs : recorded[x][n] > 0 => recorded'[x][n] > 0
    BY <2>6, <2>7
  <2>10. \A n \in new : recorded'[e][n] > 0
    BY <1>2, <1>7, <2>6, <2>7
  <2> QED
    BY <2>1, <2>8, <2>9, <2>10
<1>12. PICK over \in Nat :
         /\ rows' \in Seq(RowSet) /\ Len(rows') <= MaxRows
         /\ \A i \in 1 .. Len(rows') :
              \/ over + i \in 1 .. Len(rows) /\ rows'[i] = rows[over + i]
              \/ over + i - Len(rows) \in 1 .. Len(Added(new)) /\ rows'[i] = Added(new)[over + i - Len(rows)]
  BY <1>2, <1>6, <1>7, SavedWell DEF StreamInv
<1>13. /\ Added(new) \in Seq(RowSet)
       /\ \A i \in 1 .. Len(Added(new)) : Added(new)[i].epoch = e /\ Added(new)[i].seq \in new
       /\ \A i, k \in 1 .. Len(Added(new)) : i < k => Added(new)[i] # Added(new)[k]
  BY <1>1, <1>2, <1>7, AddedWell
<1>14. /\ rows \in Seq(RowSet) /\ Len(rows) \in Nat /\ DOMAIN rows = 1 .. Len(rows)
       /\ Len(rows') \in Nat /\ DOMAIN rows' = 1 .. Len(rows') /\ Len(Added(new)) \in Nat
  BY <1>12, <1>13 DEF StreamInv, StreamTyped
<1>15. StreamTyped'
  BY <1>6, <1>10, <1>11, <1>12 DEF StreamInv, StreamTyped
<1>16. SourceInv'
  <2>1. source'.epoch <= ring'.epoch /\ source'.cursor <= source'.latest
    BY <1>6, <1>9, <1>10 DEF StreamInv, SourceInv
  <2>2. source'.epoch = ring'.epoch => source'.latest <= ring'.last
    <3>1. e = ring.epoch => source.latest <= ring.last /\ page.latest <= ring.last
      BY <1>2 DEF StreamInv, SourceInv
    <3> QED
      BY <1>3, <1>6, <1>10, <3>1 DEF latest
  <2>3. /\ \A p \in fetched' : p.epoch = ring'.epoch => p.latest <= ring'.last
        /\ \A p \in fetched' : p.epoch <= ring'.epoch
    BY <1>6 DEF StreamInv, SourceInv
  <2> QED
    BY <2>1, <2>2, <2>3 DEF SourceInv
<1>17. RowsInv'
  <2> DEFINE Old(i) == over + i \in 1 .. Len(rows) /\ rows'[i] = rows[over + i]
             Fresh1(i) == over + i - Len(rows) \in 1 .. Len(Added(new)) /\ rows'[i] = Added(new)[over + i - Len(rows)]
  <2>1. \A i \in 1 .. Len(rows') : rows'[i] \in RowSet /\ rows'[i].epoch \in Nat /\ rows'[i].seq \in Seqs /\ rows'[i].epoch \in Epochs
    <3> TAKE i \in 1 .. Len(rows')
    <3>1. rows'[i] \in RowSet
      BY <1>12
    <3> QED
      BY <1>1, <3>1 DEF RowSet
  <2>2. \A i \in 1 .. Len(rows') : Old(i) \/ Fresh1(i)
    BY <1>12
  <2>3. \A i \in 1 .. Len(rows') : Fresh1(i) => rows'[i].epoch = e /\ rows'[i].seq \in new
    BY <1>13
  <2>4. \A i \in 1 .. Len(rows') : Old(i) =>
          /\ rows'[i].epoch <= e /\ (rows'[i].epoch = e => rows'[i].seq <= source.latest)
          /\ recorded[rows'[i].epoch][rows'[i].seq] > 0
    BY <1>14 DEF StreamInv, RowsInv
  <2>5. ASSUME NEW i \in DOMAIN rows'
        PROVE  /\ rows'[i].epoch <= source'.epoch
               /\ rows'[i].epoch = source'.epoch => rows'[i].seq <= source'.latest
               /\ recorded'[rows'[i].epoch][rows'[i].seq] > 0
    <3>1. i \in 1 .. Len(rows') /\ rows'[i].epoch \in Epochs /\ rows'[i].seq \in Seqs
      BY <1>14, <2>1, <2>5
    <3>2. CASE Old(i)
      <4>1. /\ rows'[i].epoch <= e /\ (rows'[i].epoch = e => rows'[i].seq <= source.latest)
            /\ recorded[rows'[i].epoch][rows'[i].seq] > 0
        BY <2>4, <3>1, <3>2
      <4>2. rows'[i].seq \in Nat
        BY <3>1 DEF Seqs
      <4>3. rows'[i].epoch = e => rows'[i].seq <= latest
        BY <1>1, <1>4, <4>1, <4>2
      <4>4. recorded'[rows'[i].epoch][rows'[i].seq] > 0
        BY <1>11, <3>1, <4>1
      <4> QED
        BY <1>10, <4>1, <4>3, <4>4
    <3>3. CASE Fresh1(i)
      <4>1. rows'[i].epoch = e /\ rows'[i].seq \in new
        BY <2>3, <3>1, <3>3
      <4>2. rows'[i].seq <= latest
        BY <1>7, <4>1
      <4>3. recorded'[rows'[i].epoch][rows'[i].seq] > 0
        BY <1>11, <4>1
      <4>4. rows'[i].epoch <= e
        BY <1>2, <4>1
      <4> QED
        BY <1>10, <4>2, <4>3, <4>4
    <3> QED
      BY <2>2, <3>1, <3>2, <3>3
  <2>6. ASSUME NEW i \in DOMAIN rows', NEW k \in DOMAIN rows', i < k
        PROVE  rows'[i] # rows'[k] /\ rows'[i].epoch <= rows'[k].epoch
    <3>1. i \in 1 .. Len(rows') /\ k \in 1 .. Len(rows') /\ i \in Nat /\ k \in Nat
      BY <1>14, <2>6
    <3>2. CASE Old(i) /\ Old(k)
      <4>1. over + i \in DOMAIN rows /\ over + k \in DOMAIN rows /\ over + i < over + k
        BY <1>14, <2>6, <3>1, <3>2
      <4>2. rows[over + i] # rows[over + k] /\ rows[over + i].epoch <= rows[over + k].epoch
        BY <4>1 DEF StreamInv, RowsInv
      <4> QED
        BY <3>2, <4>2
    <3>3. CASE Old(i) /\ Fresh1(k)
      <4>1. rows'[k].epoch = e /\ rows'[k].seq \in new
        BY <2>3, <3>1, <3>3
      <4>2. over + i \in DOMAIN rows /\ rows'[i] = rows[over + i]
        BY <1>14, <3>3
      <4>3. rows'[i].epoch <= e
        BY <2>4, <3>1, <3>3
      <4>4. rows'[i] # rows'[k]
        <5> SUFFICES ASSUME rows'[i] = rows'[k] PROVE FALSE
          OBVIOUS
        <5>1. rows'[k] = [epoch |-> e, seq |-> rows'[k].seq]
          BY <2>1, <3>1, <4>1 DEF RowSet
        <5>2. rows[over + i] = [epoch |-> source.epoch, seq |-> rows'[k].seq]
          BY <4>2, <5>1
        <5>3. Kept(rows'[k].seq)
          BY <4>2, <5>2 DEF Kept
        <5> QED
          BY <1>7, <4>1, <5>3
      <4> QED
        BY <4>1, <4>3, <4>4
    <3>4. CASE Fresh1(i) /\ Fresh1(k)
      <4>1. /\ over + i - Len(rows) \in 1 .. Len(Added(new)) /\ over + k - Len(rows) \in 1 .. Len(Added(new))
            /\ over + i - Len(rows) < over + k - Len(rows)
        BY <1>14, <2>6, <3>1, <3>4
      <4>2. rows'[i] # rows'[k]
        BY <1>13, <3>4, <4>1
      <4>3. rows'[i].epoch = e /\ rows'[k].epoch = e
        BY <2>3, <3>1, <3>4
      <4>4. rows'[i].epoch <= rows'[k].epoch
        BY <1>2, <4>3
      <4> QED
        BY <4>2, <4>4
    <3>5. CASE Fresh1(i) /\ Old(k)
      BY <1>14, <2>6, <3>1, <3>5
    <3> QED
      BY <2>2, <3>1, <3>2, <3>3, <3>4, <3>5
  <2> QED
    BY <2>5, <2>6 DEF RowsInv
<1>18. GapInv'
  <2>1. gap \in {"none", "missing_sequence"} => ~Truncated(page) /\ source.gap \in {"none", "missing_sequence"}
    <3>1. source.gap \in Gaps
      BY <1>1
    <3> QED
      BY <3>1 DEF gap, Gap, Gaps
  <2>2. gap = "none" => ~(adv < latest)
    <3>1. adv \in Nat /\ latest \in Nat
      BY <1>1, <1>4, <1>5
    <3>2. adv = latest => ~(adv < latest)
      BY <3>1
    <3> QED
      BY <3>2 DEF gap, Gap
  <2>3. ~Truncated(page) => cursor = adv
    BY DEF cursor
  <2>4. gap = "none" => cursor = latest
    <3>1. adv \in Nat /\ latest \in Nat
      BY <1>1, <1>4, <1>5
    <3> QED
      BY <1>5, <2>1, <2>2, <2>3, <3>1
  <2>5. ASSUME gap \in {"none", "missing_sequence"}, NEW n \in kinds, n <= cursor
        PROVE  recorded'[e][n] > 0
    <3>1. ~Truncated(page) /\ source.gap \in {"none", "missing_sequence"} /\ cursor = adv
      BY <2>1, <2>3, <2>5
    <3>2. n \in Seqs /\ n \in Nat
      BY <1>1 DEF StreamInv, StreamTyped, Seqs
    <3>3. e # 0
      BY <1>2, EpochsAssumption
    <3>4. CASE n <= source.cursor
      <4>1. recorded[e][n] > 0
        BY <3>1, <3>3, <3>4 DEF StreamInv, GapInv
      <4> QED
        BY <1>2, <1>11, <3>2, <4>1
    <3>5. CASE ~(n <= source.cursor)
      <4>1. n \in source.cursor + 1 .. adv
        BY <1>1, <1>5, <2>5, <3>1, <3>2, <3>5
      <4>2. n \in Seen(page)
        BY <1>5, <4>1
      <4>3. CASE Kept(n)
        <5>1. PICK i \in DOMAIN rows : rows[i] = [epoch |-> source.epoch, seq |-> n]
          BY <4>3 DEF Kept
        <5>2. rows[i].epoch = e /\ rows[i].seq = n
          BY <5>1
        <5>3. recorded[e][n] > 0
          BY <5>2 DEF StreamInv, RowsInv
        <5> QED
          BY <1>2, <1>11, <3>2, <5>3
      <4>4. CASE ~Kept(n)
        <5>1. n \in Frames(page)
          BY <4>2, <4>4 DEF Seen
        <5>2. n > source.cursor
          BY <1>1, <3>2, <3>5
        <5>3. n \in new
          BY <4>4, <5>1, <5>2 DEF new, NewFrames
        <5> QED
          BY <1>11, <5>3
      <4> QED
        BY <4>3, <4>4
    <3> QED
      BY <3>4, <3>5
  <2> QED
    BY <1>6, <1>10, <2>4, <2>5 DEF GapInv
<1> QED
  BY <1>9, <1>10, <1>4, <1>15, <1>16, <1>17, <1>18 DEF StreamInv

\* Every step of the event log keeps the invariant, and within an epoch the place reached
\* does not move back.
StreamForward == source'.epoch = source.epoch => source'.cursor >= source.cursor /\ source'.latest >= source.latest

\* Every step of the event stream keeps its invariant and moves the cursor forward.
LEMMA StreamStepKept ==
  ASSUME StreamInv, StreamNext
  PROVE  StreamInv' /\ StreamForward
<1>0. LastSeq \in Nat /\ \A x \in Epochs : x \in Nat /\ x # 0
  BY RingAssumption, EpochsAssumption
<1>1. /\ ring.epoch \in Epochs /\ ring.last \in 0 .. LastSeq /\ ring.epoch \in Nat /\ ring.last \in Nat
      /\ opened \in Nat /\ source.cursor \in 0 .. LastSeq /\ source.latest \in 0 .. LastSeq /\ source.epoch \in Nat
      /\ source \in [epoch : Epochs \cup {0}, revision : Nat, cursor : 0 .. LastSeq, latest : 0 .. LastSeq, gap : Gaps]
      /\ ring \in [epoch : Epochs, last : 0 .. LastSeq]
  BY <1>0 DEF StreamInv, StreamTyped
<1>b. \A p \in fetched : p.latest \in Nat /\ p.epoch \in Nat
  <2> TAKE p \in fetched
  <2>1. p \in [revision : Nat, epoch : Epochs, since : Nat, latest : 0 .. LastSeq]
    BY DEF StreamInv, StreamTyped
  <2> QED
    BY <1>0, <2>1
<1>2. CASE HostEmits
  <2>1. /\ ring' \in [epoch : Epochs, last : 0 .. LastSeq] /\ ring'.epoch = ring.epoch /\ ring'.last = ring.last + 1
        /\ UNCHANGED <<kinds, source, opened, rows, fetched, recorded>>
    BY <1>0, <1>1, <1>2 DEF HostEmits
  <2>2. StreamTyped'
    BY <2>1 DEF StreamInv, StreamTyped
  <2>3. SourceInv'
    <3>1. source.latest <= ring.last => source.latest <= ring.last + 1
      BY <1>0, <1>1
    <3>2. \A p \in fetched : p.latest <= ring.last => p.latest <= ring.last + 1
      BY <1>0, <1>1, <1>b
    <3> QED
      BY <2>1, <3>1, <3>2 DEF StreamInv, SourceInv
  <2>4. RowsInv' /\ GapInv'
    BY <2>1 DEF StreamInv, RowsInv, GapInv
  <2> QED
    BY <1>0, <1>1, <2>1, <2>2, <2>3, <2>4 DEF StreamInv, StreamForward
<1>3. CASE HostRestarts
  <2>1. /\ ring' \in [epoch : Epochs, last : 0 .. LastSeq] /\ ring'.epoch = ring.epoch + 1 /\ ring'.last = 0
        /\ UNCHANGED <<kinds, source, opened, rows, fetched, recorded>>
    BY <1>0, <1>1, <1>3 DEF HostRestarts
  <2>2. StreamTyped'
    BY <2>1 DEF StreamInv, StreamTyped
  <2>3. SourceInv'
    <3>1. /\ source.epoch <= ring.epoch /\ \A p \in fetched : p.epoch <= ring.epoch
          /\ source.cursor <= source.latest
      BY DEF StreamInv, SourceInv
    <3>2. \A p \in fetched : p.epoch \in Nat
      BY <1>b
    <3>3. source.epoch <= ring'.epoch /\ source.epoch # ring'.epoch
      BY <1>0, <1>1, <2>1, <3>1
    <3>4. \A p \in fetched : p.epoch <= ring'.epoch /\ p.epoch # ring'.epoch
      <4> TAKE p \in fetched
      <4>1. p.epoch \in Nat /\ ring.epoch \in Nat /\ p.epoch <= ring.epoch
        BY <1>0, <1>1, <3>1, <3>2
      <4> QED
        BY <2>1, <4>1
    <3> QED
      BY <2>1, <3>1, <3>3, <3>4 DEF SourceInv
  <2>4. RowsInv' /\ GapInv'
    BY <2>1 DEF StreamInv, RowsInv, GapInv
  <2> QED
    BY <1>0, <1>1, <2>1, <2>2, <2>3, <2>4 DEF StreamInv, StreamForward
<1>4. CASE OpenSource
  <2> DEFINE g == IF source.epoch = 0 THEN "none" ELSE "epoch_reset"
  <2>1. /\ source.epoch # ring.epoch /\ opened' = opened + 1
        /\ source' = [epoch |-> ring.epoch, revision |-> opened + 1, cursor |-> 0, latest |-> 0, gap |-> g]
        /\ UNCHANGED <<ring, kinds, rows, fetched, recorded>>
    BY <1>4 DEF OpenSource
  <2>2. g \in Gaps
    BY DEF Gaps
  <2> HIDE DEF g
  <2>3. /\ source'.epoch = ring.epoch /\ source'.cursor = 0 /\ source'.latest = 0 /\ opened + 1 \in Nat
        /\ source' \in [epoch : Epochs \cup {0}, revision : Nat, cursor : 0 .. LastSeq, latest : 0 .. LastSeq, gap : Gaps]
    BY <1>0, <1>1, <2>1, <2>2
  <2>4. StreamTyped'
    BY <2>1, <2>3 DEF StreamInv, StreamTyped
  <2>5. SourceInv'
    <3>1. source'.epoch <= ring'.epoch /\ source'.cursor <= source'.latest /\ source'.latest <= ring'.last
      BY <1>1, <2>1, <2>3
    <3>2. \A p \in fetched' : (p.epoch = ring'.epoch => p.latest <= ring'.last) /\ p.epoch <= ring'.epoch
      BY <2>1 DEF StreamInv, SourceInv
    <3> QED
      BY <3>1, <3>2 DEF SourceInv
  <2>6. RowsInv'
    <3>1. source.epoch <= ring.epoch /\ source.epoch # ring.epoch
      BY <2>1 DEF StreamInv, SourceInv
    <3>2. ASSUME NEW i \in DOMAIN rows
          PROVE  rows[i].epoch <= ring.epoch /\ rows[i].epoch # ring.epoch
      <4>1. rows[i].epoch \in Nat /\ ring.epoch \in Nat
        <5>1. rows \in Seq(RowSet) /\ rows[i] \in RowSet
          BY <3>2 DEF StreamInv, StreamTyped
        <5> QED
          BY <1>0, <1>1, <5>1 DEF RowSet
      <4>2. rows[i].epoch <= source.epoch
        BY <3>2 DEF StreamInv, RowsInv
      <4> QED
        BY <1>0, <1>1, <3>1, <4>1, <4>2
    <3> QED
      BY <2>1, <2>3, <3>2 DEF StreamInv, RowsInv
  <2>7. GapInv'
    <3>1. \A n \in kinds : ~(n <= 0)
      BY <1>0, <1>1 DEF StreamInv, StreamTyped, Seqs
    <3> QED
      BY <2>1, <2>3, <3>1 DEF GapInv
  <2> QED
    BY <2>1, <2>3, <2>4, <2>5, <2>6, <2>7 DEF StreamInv, StreamForward
<1>5. CASE ReopenSource
  <2>1. /\ source' = [source EXCEPT !.revision = opened + 1] /\ opened' = opened + 1
        /\ UNCHANGED <<ring, kinds, rows, fetched, recorded>>
    BY <1>5 DEF ReopenSource
  <2>2. /\ source'.epoch = source.epoch /\ source'.cursor = source.cursor /\ source'.latest = source.latest
        /\ source'.gap = source.gap /\ opened + 1 \in Nat
        /\ source' \in [epoch : Epochs \cup {0}, revision : Nat, cursor : 0 .. LastSeq, latest : 0 .. LastSeq, gap : Gaps]
    BY <1>0, <1>1, <2>1
  <2>3. StreamTyped'
    BY <2>1, <2>2 DEF StreamInv, StreamTyped
  <2>4a. SourceInv'
    BY <2>1, <2>2 DEF StreamInv, SourceInv
  <2>4. RowsInv'
    BY <2>1, <2>2 DEF StreamInv, RowsInv
  <2>5. GapInv'
    BY <2>1, <2>2 DEF StreamInv, GapInv
  <2> QED
    BY <1>0, <1>1, <2>2, <2>3, <2>4a, <2>4, <2>5 DEF StreamInv, StreamForward
<1>6. ASSUME NEW since \in 0 .. LastSeq, Fetches(since) PROVE StreamInv' /\ StreamForward
  <2> DEFINE page == [revision |-> source.revision, epoch |-> ring.epoch, since |-> since, latest |-> ring.last]
  <2>1. /\ fetched' = fetched \cup {page} /\ UNCHANGED <<ring, kinds, source, opened, rows, recorded>>
    BY <1>6 DEF Fetches
  <2>2. page \in [revision : Nat, epoch : Epochs, since : Nat, latest : 0 .. LastSeq] /\ page.epoch = ring.epoch /\ page.latest = ring.last
    BY <1>1
  <2> HIDE DEF page
  <2>3. StreamTyped'
    BY <2>1, <2>2 DEF StreamInv, StreamTyped
  <2>4. SourceInv'
    BY <1>0, <1>1, <2>1, <2>2 DEF StreamInv, SourceInv
  <2>5. RowsInv' /\ GapInv'
    BY <2>1 DEF StreamInv, RowsInv, GapInv
  <2> QED
    BY <1>0, <1>1, <2>1, <2>3, <2>4, <2>5 DEF StreamInv, StreamForward
<1>7. ASSUME NEW page \in fetched, PageIsForgotten(page) PROVE StreamInv' /\ StreamForward
  <2>1. fetched' \subseteq fetched /\ UNCHANGED <<ring, kinds, source, opened, rows, recorded>>
    BY <1>7 DEF PageIsForgotten
  <2>2. StreamTyped'
    BY <2>1 DEF StreamInv, StreamTyped
  <2>3. SourceInv'
    BY <2>1 DEF StreamInv, SourceInv
  <2>4. RowsInv' /\ GapInv'
    BY <2>1 DEF StreamInv, RowsInv, GapInv
  <2> QED
    BY <1>0, <1>1, <2>1, <2>2, <2>3, <2>4 DEF StreamInv, StreamForward
<1>8. ASSUME NEW page \in fetched, ObserveRpc(page) PROVE StreamInv' /\ StreamForward
  BY <1>8, ObserveKept DEF StreamForward
<1> QED
  BY <1>2, <1>3, <1>4, <1>5, <1>6, <1>7, <1>8 DEF StreamNext

\* A stream that does not run keeps its invariant.
LEMMA StreamRests ==
  ASSUME StreamInv, UNCHANGED streamVars
  PROVE  StreamInv'
<1>1. ring' = ring /\ kinds' = kinds /\ source' = source /\ opened' = opened /\ rows' = rows /\ fetched' = fetched /\ recorded' = recorded
  BY DEF streamVars
<1>2. StreamTyped' /\ SourceInv'
  BY <1>1 DEF StreamInv, StreamTyped, SourceInv
<1>3. RowsInv' /\ GapInv'
  BY <1>1 DEF StreamInv, RowsInv, GapInv
<1> QED
  BY <1>2, <1>3 DEF StreamInv

\* The event stream starts in its invariant.
LEMMA StreamStarts == StreamInit => StreamInv
<1> SUFFICES ASSUME StreamInit PROVE StreamInv
  OBVIOUS
<1>1. LastSeq \in Nat /\ MaxRows \in Nat /\ Epochs \subseteq Nat \ {0} /\ 1 \in Epochs
  BY RingAssumption, EpochsAssumption
<1>2. /\ ring = [epoch |-> 1, last |-> 0] /\ kinds \in SUBSET Seqs /\ source = NoSource /\ opened = 0
      /\ rows = <<>> /\ fetched = {} /\ recorded = [e \in Epochs |-> [n \in Seqs |-> 0]]
  BY DEF StreamInit
<1>3. StreamTyped
  <2>1. source \in [epoch : Epochs \cup {0}, revision : Nat, cursor : 0 .. LastSeq, latest : 0 .. LastSeq, gap : Gaps]
    BY <1>1, <1>2 DEF NoSource, Gaps
  <2>2. ring \in [epoch : Epochs, last : 0 .. LastSeq]
    BY <1>1, <1>2
  <2>3. rows \in Seq(RowSet) /\ Len(rows) <= MaxRows
    BY <1>1, <1>2
  <2>4. recorded \in [Epochs -> [Seqs -> 0 .. 2]]
    BY <1>2
  <2> QED
    BY <1>2, <2>1, <2>2, <2>3, <2>4 DEF StreamTyped
<1>4. SourceInv /\ RowsInv /\ GapInv
  BY <1>1, <1>2 DEF SourceInv, RowsInv, GapInv, NoSource
<1> QED
  BY <1>3, <1>4 DEF StreamInv

\* The invariant of the stream gives what the run checks of it.
LEMMA StreamInvIsEnough == StreamInv => StreamSafe
<1> SUFFICES ASSUME StreamInv PROVE StreamSafe
  OBVIOUS
<1>1. /\ source.cursor \in Nat /\ source.latest \in Nat /\ source.cursor <= source.latest /\ Len(rows) <= MaxRows
      /\ source.gap \in Gaps
  BY RingAssumption DEF StreamInv, StreamTyped, SourceInv
<1>2. StreamTypeOK
  BY <1>1 DEF StreamTypeOK, Gaps
<1>3. NoGapNoLoss
  BY DEF StreamInv, GapInv, NoGapNoLoss
<1>4. RowsInOrder
  <2>1. ASSUME NEW i \in DOMAIN rows, rows[i].epoch = ring.epoch
        PROVE  rows[i].seq <= ring.last
    <3>1. rows[i] \in RowSet /\ rows[i].epoch <= source.epoch /\ source.epoch <= ring.epoch
      BY <2>1 DEF StreamInv, RowsInv, StreamTyped, SourceInv
    <3>0. LastSeq \in Nat /\ \A x \in Epochs : x \in Nat
      BY EpochsAssumption, RingAssumption
    <3>2a. rows[i].epoch \in Nat /\ rows[i].seq \in Nat
      BY <3>0, <3>1 DEF RowSet, Seqs
    <3>2b. source.epoch \in Nat /\ ring.epoch \in Nat /\ ring.last \in Nat
      BY <3>0 DEF StreamInv, StreamTyped
    <3>2. rows[i].epoch \in Nat /\ rows[i].seq \in Nat /\ source.epoch \in Nat /\ ring.epoch \in Nat /\ ring.last \in Nat
      BY <3>2a, <3>2b
    <3>3. source.epoch = ring.epoch
      BY <2>1, <3>1, <3>2
    <3>4. source.latest <= ring.last /\ rows[i].seq <= source.latest
      BY <2>1, <3>3 DEF StreamInv, SourceInv, RowsInv
    <3> QED
      BY <1>1, <3>2, <3>4
  <2> QED
    BY <2>1 DEF StreamInv, RowsInv, RowsInOrder
<1> QED
  BY <1>2, <1>3, <1>4 DEF StreamSafe

\* The values of the recipients.
OpRecs == [name : {"none", "select", "send", "inspect"}, target : Addressees \cup {NoOne},
           revision : Nat, status : Statuses, result : Statuses \cup {"none"},
           attempted : BOOLEAN, token : BOOLEAN, committed : BOOLEAN]
\* The places of a request, without and with an answer in hand.
Plain == {"select", "selects", "selected", "send", "sends", "reconciles", "inspect", "inspects"}
Carry == {"receipt", "commit", "commits"}
Asks == [at : {"idle"}]
        \cup [at : Plain, op : Operations, generation : Nat]
        \cup [at : Carry, op : Operations, generation : Nat, status : Statuses, token : BOOLEAN]
Bridges == [delivered : [Operations -> 0 .. 2], held : SUBSET Operations,
            captured : [Operations -> 0 .. 2], gone : SUBSET Operations]

\* The recipients have their types.
RecTyped ==
  /\ chosen \in [selected : Addressees \cup {NoOne}, revision : Nat, generation : Nat]
  /\ ops \in [Operations -> OpRecs] /\ asks \in [Askers -> Asks] /\ bridge \in Bridges

\* A thread is at a place with an operation.
On(t, at, o) == asks[t].at = at /\ asks[t].op = o

\* A request works on an operation of its kind, and of one that was prepared.
KindInv ==
  /\ \A t \in Askers :
       /\ asks[t].at \in {"select", "selects", "selected"} => ops[asks[t].op].name = "select"
       /\ asks[t].at \in {"inspect", "inspects"} => ops[asks[t].op].name = "inspect"
       /\ asks[t].at \in {"send", "sends", "reconciles", "receipt", "commit", "commits"} =>
            ops[asks[t].op].name = "send"
  /\ \A o \in Operations :
       /\ ops[o].name = "none" => ops[o] = NoOp
       /\ ops[o].name = "select" => ops[o].target # NoOne /\ ops[o].result \in {"none", "unknown", "completed"}

\* An operation whose commit the bridge may accept.
HasToken(o) == \/ ops[o].token \/ o \in bridge.held
               \/ \E t \in Askers : On(t, "receipt", o) /\ asks[t].token
\* A message: what is known of it agrees with where its requests are and what the bridge holds.
SendInv ==
  /\ \A o \in Operations :
       /\ HasToken(o) => ops[o].attempted /\ (bridge.delivered[o] = 0 \/ ops[o].committed)
       /\ bridge.delivered[o] <= 1 /\ (bridge.delivered[o] > 0 => ops[o].attempted)
       /\ o \in bridge.held => bridge.delivered[o] = 0
  /\ \A t \in Askers, o \in Operations :
       /\ On(t, "sends", o) =>
            /\ ops[o].attempted /\ bridge.delivered[o] = 0 /\ ~HasToken(o)
            /\ \A u \in Askers : On(u, "sends", o) => u = t
       /\ On(t, "commits", o) =>
            /\ ops[o].committed /\ ops[o].token /\ bridge.delivered[o] = 0
            /\ \A u \in Askers : On(u, "commits", o) => u = t

\* An inspection is captured once, and was attempted before.
InspectInv ==
  /\ \A o \in Operations : bridge.captured[o] <= 1 /\ (bridge.captured[o] > 0 => ops[o].attempted)
  /\ \A t \in Askers, o \in Operations : On(t, "inspects", o) =>
       /\ ops[o].attempted /\ bridge.captured[o] = 0
       /\ \A u \in Askers : On(u, "inspects", o) => u = t

Confirms == {"posted", "accepted", "completed"}
\* What the tab was shown is what the bridge delivered.
ConfirmInv ==
  /\ ConfirmedWasSent
  /\ \A t \in Askers : asks[t].at = "receipt" /\ asks[t].status \in Confirms =>
       bridge.delivered[asks[t].op] > 0

\* The inductive invariant of the recipients.
RecInv == RecTyped /\ KindInv /\ SendInv /\ InspectInv /\ ConfirmInv /\ SelectionIsNewest

\* same operations but for one
OthersKept(o) == /\ \A p \in Operations \ {o} : ops'[p] = ops[p]
                 /\ ops'[o].name = ops[o].name /\ ops'[o].target = ops[o].target
                 /\ ops'[o].revision = ops[o].revision
\* The other threads' requests are as they were.
AsksBut(t) == \A u \in Askers \ {t} : asks'[u] = asks[u]

\* A request under way names an operation, and its record has the fields of its place.
LEMMA BusyAsk ==
  ASSUME RecTyped, NEW t \in Askers, asks[t].at # "idle"
  PROVE  /\ asks[t].op \in Operations /\ asks[t].generation \in Nat
         /\ asks[t].at \in Plain => asks[t] \in [at : Plain, op : Operations, generation : Nat]
         /\ asks[t].at \in Carry =>
              asks[t] \in [at : Carry, op : Operations, generation : Nat, status : Statuses, token : BOOLEAN]
BY DEF RecTyped, Asks, Plain, Carry

\* A request that turns to a place of the same shape is still a request.
LEMMA TurnsTo ==
  ASSUME RecTyped, NEW t \in Askers, NEW at, asks[t].at # "idle", Turns(t, at),
         (asks[t].at \in Plain /\ at \in Plain) \/ (asks[t].at \in Carry /\ at \in Carry)
  PROVE  /\ asks' \in [Askers -> Asks] /\ AsksBut(t)
         /\ asks'[t].at = at /\ asks'[t].op = asks[t].op /\ asks'[t].generation = asks[t].generation
<1> DEFINE r == [asks[t] EXCEPT !.at = at]
<1>1. asks' = [asks EXCEPT ![t] = r] /\ asks \in [Askers -> Asks]
  BY DEF Turns, RecTyped
<1>2. r \in Asks /\ r.at = at /\ r.op = asks[t].op /\ r.generation = asks[t].generation
  <2>1. CASE asks[t].at \in Plain
    <3>1. asks[t] \in [at : Plain, op : Operations, generation : Nat] /\ at \in Plain
      BY <2>1, BusyAsk DEF Plain, Carry
    <3>2. r \in [at : Plain, op : Operations, generation : Nat]
      BY <3>1
    <3> QED
      BY <3>1, <3>2 DEF Asks
  <2>2. CASE asks[t].at \in Carry
    <3>1. asks[t] \in [at : Carry, op : Operations, generation : Nat, status : Statuses, token : BOOLEAN] /\ at \in Carry
      BY <2>2, BusyAsk DEF Plain, Carry
    <3>2. r \in [at : Carry, op : Operations, generation : Nat, status : Statuses, token : BOOLEAN]
      BY <3>1
    <3> QED
      BY <3>1, <3>2 DEF Asks
  <2> QED
    BY <2>1, <2>2
<1> HIDE DEF r
<1> QED
  BY <1>1, <1>2 DEF AsksBut

\* A request that ends leaves its thread idle and the others as they were.
LEMMA FreesIt ==
  ASSUME RecTyped, NEW t \in Askers, Frees(t)
  PROVE  asks' \in [Askers -> Asks] /\ AsksBut(t) /\ asks'[t].at = "idle"
BY DEF RecTyped, Frees, AsksBut, Free, Asks

\* A request that was answered carries the answer to its receipt.
LEMMA AnsweredSo ==
  ASSUME RecTyped, NEW t \in Askers, asks[t].at # "idle", NEW s \in Statuses, NEW tok \in BOOLEAN,
         Answered(t, s, tok)
  PROVE  /\ asks' \in [Askers -> Asks] /\ AsksBut(t)
         /\ asks'[t].at = "receipt" /\ asks'[t].op = asks[t].op
         /\ asks'[t].status = s /\ asks'[t].token = tok
<1> DEFINE r == [at |-> "receipt", op |-> asks[t].op, generation |-> asks[t].generation, status |-> s, token |-> tok]
<1>1. asks' = [asks EXCEPT ![t] = r] /\ asks \in [Askers -> Asks]
  BY DEF Answered, RecTyped
<1>2. r \in Asks
  BY BusyAsk DEF Asks, Carry
<1> QED
  BY <1>1, <1>2 DEF AsksBut

\* A receipt changes the result of its operation and nothing else of it.
LEMMA DeliveredSo ==
  ASSUME RecTyped, NEW o \in Operations, NEW s \in Statuses, NEW tok \in BOOLEAN, ops' = Delivered(o, s, tok)
  PROVE  /\ ops' \in [Operations -> OpRecs] /\ OthersKept(o)
         /\ ops'[o].attempted = ops[o].attempted /\ ops'[o].committed = ops[o].committed
         /\ \/ ops' = ops /\ ops[o].result # "none" /\ ~Outranks(ops[o].result, s)
            \/ /\ ops[o].result = "none" \/ Outranks(ops[o].result, s)
               /\ ops'[o].status = s /\ ops'[o].result = s
               /\ ops'[o].token = (ops[o].token \/ tok)
<1>1. ops \in [Operations -> OpRecs] /\ ops[o] \in OpRecs
  BY DEF RecTyped
<1>2. CASE ~(ops[o].result = "none" \/ Outranks(ops[o].result, s))
  BY <1>1, <1>2 DEF Delivered, OthersKept
<1>3. CASE ops[o].result = "none" \/ Outranks(ops[o].result, s)
  <2> DEFINE r == [[[ops[o] EXCEPT !.status = s] EXCEPT !.result = s] EXCEPT !.token = ops[o].token \/ tok]
  <2>1. ops' = [ops EXCEPT ![o] = r]
    BY <1>1, <1>3 DEF Delivered, OpRecs
  <2>2. (ops[o].token \/ tok) \in BOOLEAN
    BY <1>1 DEF OpRecs
  <2>3. r \in OpRecs
    BY <1>1, <2>2 DEF OpRecs
  <2>4. /\ r.name = ops[o].name /\ r.target = ops[o].target /\ r.revision = ops[o].revision
        /\ r.attempted = ops[o].attempted /\ r.committed = ops[o].committed
        /\ r.status = s /\ r.result = s /\ r.token = (ops[o].token \/ tok)
    BY <1>1 DEF OpRecs
  <2> HIDE DEF r
  <2> QED
    BY <1>1, <1>3, <2>1, <2>3, <2>4 DEF OthersKept
<1> QED
  BY <1>2, <1>3

\* A request that ends without a trace keeps the invariant.
LEMMA Quits ==
  ASSUME RecInv, NEW t \in Askers, Frees(t), UNCHANGED <<chosen, ops, bridge>>
  PROVE  RecInv'
<1> USE DEF RecInv
<1>1. asks' \in [Askers -> Asks] /\ AsksBut(t) /\ asks'[t].at = "idle"
  BY FreesIt
<1>2. RecTyped'
  BY <1>1 DEF RecTyped, Bridges
<1>3. KindInv'
  BY <1>1 DEF KindInv, AsksBut
<1>4. SendInv'
  BY <1>1 DEF SendInv, AsksBut, HasToken, On
<1>5. InspectInv'
  BY <1>1 DEF InspectInv, AsksBut, On
<1>6. ConfirmInv'
  BY <1>1 DEF ConfirmInv, ConfirmedWasSent, AsksBut
<1>7. SelectionIsNewest'
  BY DEF SelectionIsNewest
<1> QED
  BY <1>2, <1>3, <1>4, <1>5, <1>6, <1>7

\* A request that only goes on to its next place keeps the invariant.
LEMMA Moves ==
  ASSUME RecInv, NEW t \in Askers, NEW at, Turns(t, at), UNCHANGED <<chosen, ops, bridge>>,
         (asks[t].at = "send" /\ at = "reconciles") \/ (asks[t].at = "selects" /\ at = "selected")
  PROVE  RecInv'
<1> USE DEF RecInv
<1>1. /\ asks' \in [Askers -> Asks] /\ AsksBut(t)
      /\ asks'[t].at = at /\ asks'[t].op = asks[t].op
  BY TurnsTo DEF Plain
<1>2. RecTyped'
  BY <1>1 DEF RecTyped, Bridges
<1>3. KindInv'
  BY <1>1 DEF KindInv, AsksBut
<1>4. SendInv'
  BY <1>1 DEF SendInv, AsksBut, HasToken, On
<1>5. InspectInv'
  BY <1>1 DEF InspectInv, AsksBut, On
<1>6. ConfirmInv'
  BY <1>1 DEF ConfirmInv, ConfirmedWasSent, AsksBut
<1>7. SelectionIsNewest'
  BY DEF SelectionIsNewest
<1> QED
  BY <1>2, <1>3, <1>4, <1>5, <1>6, <1>7

\* An answer that is noted on its operation keeps the invariant.
LEMMA Receives ==
  ASSUME RecInv, NEW t \in Askers, asks[t].at # "idle", NEW o \in Operations, NEW s \in Statuses,
         NEW tok \in BOOLEAN, ops' = Delivered(o, s, tok), UNCHANGED <<chosen, bridge>>,
         asks' \in [Askers -> Asks], AsksBut(t),
         asks'[t].at = "idle" \/ (asks'[t].at = "commit" /\ asks'[t].op = o /\ ops[o].name = "send"),
         ops[o].name # "none", ops[o].name = "select" => s = "unknown", tok => HasToken(o),
         ops[o].name = "send" /\ s \in Confirms => bridge.delivered[o] > 0
  PROVE  RecInv'
<1> USE DEF RecInv
<1>1. /\ ops' \in [Operations -> OpRecs] /\ OthersKept(o)
      /\ ops'[o].attempted = ops[o].attempted /\ ops'[o].committed = ops[o].committed
      /\ \/ ops' = ops /\ ops[o].result # "none" /\ ~Outranks(ops[o].result, s)
         \/ /\ ops[o].result = "none" \/ Outranks(ops[o].result, s)
            /\ ops'[o].status = s /\ ops'[o].result = s
            /\ ops'[o].token = (ops[o].token \/ tok)
  BY DeliveredSo
<1>2. \A p \in Operations :
        /\ ops'[p].name = ops[p].name /\ ops'[p].attempted = ops[p].attempted
        /\ ops'[p].committed = ops[p].committed /\ ops'[p].target = ops[p].target
        /\ ops[p].token => ops'[p].token
        /\ ops'[p].token => ops[p].token \/ (p = o /\ tok)
  <2> TAKE p \in Operations
  <2>1. CASE p # o
    BY <1>1, <2>1 DEF OthersKept
  <2>2. CASE p = o
    BY <1>1, <2>2 DEF OthersKept
  <2> QED
    BY <2>1, <2>2
<1>3. \A p \in Operations : p # o => ops'[p] = ops[p]
  BY <1>1 DEF OthersKept
<1>4. \A u \in Askers : asks[u].at # "idle" => asks[u].op \in Operations
  BY BusyAsk
<1>5. \A u \in Askers :
        asks'[u].at # "idle" => \/ u # t /\ asks'[u] = asks[u] /\ asks[u].op \in Operations
                                \/ u = t /\ asks'[u].at = "commit" /\ asks'[u].op = o /\ ops[o].name = "send"
  <2>1. \A u \in Askers : u # t => asks'[u] = asks[u]
    BY DEF AsksBut
  <2>2. \A u \in Askers : u # t /\ asks'[u].at # "idle" => asks[u].op \in Operations
    BY <1>4, <2>1
  <2> QED
    BY <2>1, <2>2
<1>6. RecTyped'
  BY <1>1 DEF RecTyped, Bridges
<1>7. KindInv'
  <2>1. \A p \in Operations :
          /\ ops'[p].name = "none" => ops'[p] = NoOp
          /\ ops'[p].name = "select" =>
               ops'[p].target # NoOne /\ ops'[p].result \in {"none", "unknown", "completed"}
    <3> TAKE p \in Operations
    <3>1. CASE p # o
      BY <1>3, <3>1 DEF KindInv
    <3>2. CASE p = o
      <4>1. ops'[o].result \in {ops[o].result, s}
        BY <1>1
      <4> QED
        BY <1>2, <3>2, <4>1 DEF KindInv
    <3> QED
      BY <3>1, <3>2
  <2>2. \A u \in Askers : asks'[u].at # "idle" =>
          \/ asks'[u] = asks[u] /\ ops'[asks'[u].op].name = ops[asks[u].op].name
          \/ asks'[u].at = "commit" /\ ops'[asks'[u].op].name = "send"
    BY <1>2, <1>5
  <2>3. \A u \in Askers :
          /\ asks'[u].at \in {"select", "selects", "selected"} => ops'[asks'[u].op].name = "select"
          /\ asks'[u].at \in {"inspect", "inspects"} => ops'[asks'[u].op].name = "inspect"
          /\ asks'[u].at \in {"send", "sends", "reconciles", "receipt", "commit", "commits"} =>
               ops'[asks'[u].op].name = "send"
    BY <2>2 DEF KindInv
  <2> QED
    BY <2>1, <2>3 DEF KindInv
<1>8. SendInv'
  <2>1. \A p \in Operations : HasToken(p)' => HasToken(p)
    BY <1>2, <1>5 DEF HasToken, On
  <2>2. \A u \in Askers, p \in Operations, at \in {"sends", "commits"} : On(u, at, p)' => On(u, at, p)
    BY <1>5 DEF On
  <2>3. \A p \in Operations :
          /\ HasToken(p)' => ops'[p].attempted /\ (bridge'.delivered[p] = 0 \/ ops'[p].committed)
          /\ bridge'.delivered[p] <= 1 /\ (bridge'.delivered[p] > 0 => ops'[p].attempted)
          /\ p \in bridge'.held => bridge'.delivered[p] = 0
    BY <1>2, <2>1 DEF SendInv
  <2>4. \A u \in Askers, p \in Operations :
          /\ On(u, "sends", p)' =>
               /\ ops'[p].attempted /\ bridge'.delivered[p] = 0 /\ ~HasToken(p)'
               /\ \A v \in Askers : On(v, "sends", p)' => v = u
          /\ On(u, "commits", p)' =>
               /\ ops'[p].committed /\ ops'[p].token /\ bridge'.delivered[p] = 0
               /\ \A v \in Askers : On(v, "commits", p)' => v = u
    BY <1>2, <2>1, <2>2 DEF SendInv
  <2> QED
    BY <2>3, <2>4 DEF SendInv
<1>9. InspectInv'
  <2>1. \A u \in Askers, p \in Operations : On(u, "inspects", p)' => On(u, "inspects", p)
    BY <1>5 DEF On
  <2> QED
    BY <1>2, <2>1 DEF InspectInv
<1>10. ConfirmInv'
  <2>1. ConfirmedWasSent'
    <3> SUFFICES ASSUME NEW p \in Operations, ops'[p].name = "send", ops'[p].status \in Confirms
                 PROVE  bridge.delivered[p] > 0 /\ ops'[p].attempted
      BY DEF ConfirmedWasSent, Confirms
    <3>1. ops[p].status \in Confirms => bridge.delivered[p] > 0
      BY <1>2 DEF ConfirmInv, ConfirmedWasSent, Confirms
    <3>2. bridge.delivered[p] > 0
      BY <1>1, <1>2, <1>3, <3>1
    <3> QED
      BY <1>2, <3>2 DEF SendInv
  <2>2. \A u \in Askers : asks'[u].at = "receipt" => asks'[u] = asks[u]
    BY <1>5
  <2> QED
    BY <2>1, <2>2 DEF ConfirmInv
<1>11. SelectionIsNewest'
  BY <1>1 DEF SelectionIsNewest, OthersKept, Outranks
<1> QED
  BY <1>6, <1>7, <1>8, <1>9, <1>10, <1>11

\* An answer that is noted and ends its request keeps the invariant.
LEMMA Settles ==
  ASSUME RecInv, NEW t \in Askers, asks[t].at # "idle", NEW o \in Operations, NEW s \in Statuses,
         ops' = Delivered(o, s, FALSE), Frees(t), UNCHANGED <<chosen, bridge>>,
         ops[o].name # "none", ops[o].name = "select" => s = "unknown",
         ops[o].name = "send" => s \notin Confirms
  PROVE  RecInv'
<1>1. asks' \in [Askers -> Asks] /\ AsksBut(t) /\ asks'[t].at = "idle"
  BY FreesIt DEF RecInv
<1> QED
  BY <1>1, Receives

\* Claiming an operation for its one attempt keeps the invariant.
LEMMA ClaimsIt ==
  ASSUME RecInv, NEW t \in Askers, NEW at, Turns(t, at), UNCHANGED <<chosen, bridge>>,
         asks[t].at # "idle", ops' = [ops EXCEPT ![asks[t].op].attempted = TRUE],
         ~ops[asks[t].op].attempted,
         \/ asks[t].at = "send" /\ at = "sends"
         \/ asks[t].at = "select" /\ at = "selects"
         \/ asks[t].at = "inspect" /\ at = "inspects"
  PROVE  RecInv'
<1> USE DEF RecInv
<1> DEFINE o == asks[t].op
<1>1. /\ asks' \in [Askers -> Asks] /\ AsksBut(t)
      /\ asks'[t].at = at /\ asks'[t].op = o
  BY TurnsTo DEF Plain
<1>2. o \in Operations /\ ops[o].name # "none" /\ ops[o] \in OpRecs
  BY BusyAsk DEF KindInv, RecTyped
<1>3. /\ ops' \in [Operations -> OpRecs] /\ OthersKept(o)
      /\ ops'[o].attempted /\ ops'[o].committed = ops[o].committed /\ ops'[o].token = ops[o].token
      /\ ops'[o].status = ops[o].status /\ ops'[o].result = ops[o].result
  BY <1>2 DEF RecTyped, OpRecs, OthersKept
<1> HIDE DEF o
<1>4. RecTyped'
  BY <1>1, <1>3 DEF RecTyped, Bridges
<1>5. KindInv'
  BY <1>1, <1>2, <1>3 DEF KindInv, AsksBut, OthersKept, o
<1>6. SendInv'
  <2>1. ~HasToken(o) /\ bridge.delivered[o] = 0 /\ ~ops[o].attempted
    BY <1>2 DEF SendInv, RecTyped, Bridges, o
  <2>2. \A u \in Askers : ~On(u, "sends", o)
    BY <1>2, <2>1 DEF SendInv
  <2>3. \A p \in Operations : HasToken(p)' <=> HasToken(p)
    BY <1>1, <1>2, <1>3 DEF HasToken, AsksBut, On, OthersKept
  <2> QED
    BY <1>1, <1>2, <1>3, <2>1, <2>2, <2>3 DEF SendInv, AsksBut, On, OthersKept
<1>7. InspectInv'
  <2>1. bridge.captured[o] = 0 /\ ~ops[o].attempted
    BY <1>2 DEF InspectInv, RecTyped, Bridges, o
  <2>2. \A u \in Askers : ~On(u, "inspects", o)
    BY <1>2, <2>1 DEF InspectInv
  <2> QED
    BY <1>1, <1>2, <1>3, <2>1, <2>2 DEF InspectInv, AsksBut, On, OthersKept
<1>8. ConfirmInv'
  BY <1>1, <1>2, <1>3 DEF ConfirmInv, ConfirmedWasSent, AsksBut, OthersKept
<1>9. SelectionIsNewest'
  BY <1>2, <1>3 DEF SelectionIsNewest, OthersKept
<1> QED
  BY <1>4, <1>5, <1>6, <1>7, <1>8, <1>9

\* An answer of the bridge that changes no delivery keeps the invariant.
LEMMA Answers ==
  ASSUME RecInv, NEW t \in Askers, asks[t].at \in {"sends", "reconciles", "commits"},
         NEW s \in Statuses, NEW tok \in BOOLEAN, Answered(t, s, tok), UNCHANGED <<chosen, ops>>,
         bridge' \in Bridges, bridge'.captured = bridge.captured,
         \A p \in Operations : bridge'.delivered[p] >= bridge.delivered[p],
         s \in Confirms => bridge'.delivered[asks[t].op] > 0
  PROVE  /\ SendInv' => RecInv'
         /\ \A u \in Askers, p \in Operations, at \in {"sends", "commits"} :
              On(u, at, p)' => u # t /\ On(u, at, p)
         /\ \A p \in Operations : HasToken(p)' =>
              HasToken(p) \/ p \in bridge'.held \/ (p = asks[t].op /\ tok)
<1> USE DEF RecInv
<1>1. /\ asks' \in [Askers -> Asks] /\ AsksBut(t)
      /\ asks'[t].at = "receipt" /\ asks'[t].op = asks[t].op
      /\ asks'[t].status = s /\ asks'[t].token = tok
  BY AnsweredSo
<1>2. \A u \in Askers : u # t => asks'[u] = asks[u]
  BY <1>1 DEF AsksBut
<1>3. \A u \in Askers : asks[u].at # "idle" => asks[u].op \in Operations
  BY BusyAsk
<1>4. RecTyped'
  BY <1>1 DEF RecTyped
<1>5. KindInv'
  BY <1>1, <1>2 DEF KindInv
<1>6. InspectInv'
  BY <1>1, <1>2 DEF InspectInv, On
<1>7. ConfirmInv'
  <2>1. ConfirmedWasSent'
    BY DEF ConfirmInv, ConfirmedWasSent, RecTyped, Bridges
  <2>2. ASSUME NEW u \in Askers, asks'[u].at = "receipt", asks'[u].status \in Confirms
        PROVE  bridge'.delivered[asks'[u].op] > 0
    <3>1. CASE u = t
      BY <1>1, <2>2, <3>1
    <3>2. CASE u # t
      <4>1. bridge.delivered[asks[u].op] > 0 /\ asks[u].op \in Operations
        BY <1>2, <1>3, <2>2, <3>2 DEF ConfirmInv
      <4> QED
        BY <1>2, <3>2, <4>1 DEF RecTyped, Bridges
    <3> QED
      BY <3>1, <3>2
  <2> QED
    BY <2>1, <2>2 DEF ConfirmInv
<1>8. SelectionIsNewest'
  BY DEF SelectionIsNewest
<1>9. \A u \in Askers, p \in Operations, at \in {"sends", "commits"} :
        On(u, at, p)' => u # t /\ On(u, at, p)
  BY <1>1, <1>2 DEF On
<1>10. \A p \in Operations : HasToken(p)' =>
         HasToken(p) \/ p \in bridge'.held \/ (p = asks[t].op /\ tok)
  BY <1>1, <1>2 DEF HasToken, On
<1> QED
  BY <1>4, <1>5, <1>6, <1>7, <1>8, <1>9, <1>10

\* A request that posts or holds.
LEMMA SentKept ==
  ASSUME RecInv, NEW t \in Askers, asks[t].at = "sends", BridgeSends(t)
  PROVE  RecInv'
<1> USE DEF RecInv
<1> DEFINE o == asks[t].op
<1>1. o \in Operations /\ ops[o].name = "send" /\ ops[o] \in OpRecs /\ bridge \in Bridges
  BY BusyAsk DEF KindInv, RecTyped
<1>2. On(t, "sends", o)
  BY DEF On
<1>3. /\ ops[o].attempted /\ bridge.delivered[o] = 0 /\ ~HasToken(o)
      /\ \A u \in Askers : On(u, "sends", o) => u = t
  BY <1>1, <1>2 DEF SendInv
<1>4. \A u \in Askers : ~On(u, "commits", o)
  BY <1>1, <1>3 DEF SendInv, HasToken
<1>5. CASE Superseded(t)
  <2>1. ops' = Delivered(o, "unknown", FALSE) /\ Frees(t) /\ UNCHANGED <<chosen, bridge>>
    BY <1>5 DEF BridgeSends, Superseded
  <2> QED
    BY <1>1, <2>1, Settles DEF Statuses, Confirms
<1>6. ASSUME UNCHANGED <<chosen, ops>>, bridge' = [bridge EXCEPT !.delivered[o] = Up(@)],
             NEW s \in {"posted", "accepted", "unknown"}, Answered(t, s, FALSE)
      PROVE  RecInv'
  <2> HIDE DEF o
  <2>1. /\ bridge' \in Bridges /\ bridge'.captured = bridge.captured /\ bridge'.held = bridge.held
        /\ bridge'.delivered[o] = 1
        /\ \A p \in Operations : p # o => bridge'.delivered[p] = bridge.delivered[p]
    BY <1>1, <1>3, <1>6 DEF Bridges, Up
  <2>2. s \in Statuses /\ FALSE \in BOOLEAN
    BY <1>6 DEF Statuses
  <2>3. /\ SendInv' => RecInv'
        /\ \A u \in Askers, p \in Operations, at \in {"sends", "commits"} :
              On(u, at, p)' => u # t /\ On(u, at, p)
        /\ \A p \in Operations : HasToken(p)' => HasToken(p)
    <3>1. \A p \in Operations : bridge'.delivered[p] >= bridge.delivered[p]
      BY <1>1, <1>3, <2>1 DEF Bridges
    <3>2. \A p \in Operations : p \in bridge.held => HasToken(p)
      BY DEF HasToken
    <3>3. s \in Confirms => bridge'.delivered[asks[t].op] > 0
      BY <2>1 DEF o
    <3>4. /\ SendInv' => RecInv'
          /\ \A u \in Askers, p \in Operations, at \in {"sends", "commits"} :
                On(u, at, p)' => u # t /\ On(u, at, p)
          /\ \A p \in Operations : HasToken(p)' =>
                HasToken(p) \/ p \in bridge'.held \/ (p = asks[t].op /\ FALSE)
      BY <1>6, <2>1, <2>2, <3>1, <3>3, Answers
    <3> QED
      BY <2>1, <3>2, <3>4
  <2>4. SendInv'
    <3>1. \A p \in Operations :
            /\ HasToken(p)' => ops'[p].attempted /\ (bridge'.delivered[p] = 0 \/ ops'[p].committed)
            /\ bridge'.delivered[p] <= 1 /\ (bridge'.delivered[p] > 0 => ops'[p].attempted)
            /\ p \in bridge'.held => bridge'.delivered[p] = 0
      <4> TAKE p \in Operations
      <4>1. CASE p # o
        BY <1>6, <2>1, <2>3, <4>1 DEF SendInv
      <4>2. CASE p = o
        BY <1>1, <1>3, <1>6, <2>1, <2>3, <4>2 DEF HasToken
      <4> QED
        BY <4>1, <4>2
    <3>2. \A u \in Askers, p \in Operations :
            /\ On(u, "sends", p)' => p # o /\ On(u, "sends", p)
            /\ On(u, "commits", p)' => p # o /\ On(u, "commits", p)
      BY <1>1, <1>3, <1>4, <2>3
    <3>3. \A u \in Askers, p \in Operations :
            /\ On(u, "sends", p)' =>
                 /\ ops'[p].attempted /\ bridge'.delivered[p] = 0 /\ ~HasToken(p)'
                 /\ \A v \in Askers : On(v, "sends", p)' => v = u
            /\ On(u, "commits", p)' =>
                 /\ ops'[p].committed /\ ops'[p].token /\ bridge'.delivered[p] = 0
                 /\ \A v \in Askers : On(v, "commits", p)' => v = u
      BY <1>6, <2>1, <2>3, <3>2 DEF SendInv
    <3> QED
      BY <3>1, <3>3 DEF SendInv
  <2> QED
    BY <2>3, <2>4
<1>7. ASSUME UNCHANGED <<chosen, ops>>, bridge' = [bridge EXCEPT !.held = @ \cup {o}],
             NEW s \in {"queued", "unknown"}, NEW tok \in BOOLEAN, Answered(t, s, tok)
      PROVE  RecInv'
  <2> HIDE DEF o
  <2>1. /\ bridge' \in Bridges /\ bridge'.captured = bridge.captured /\ bridge'.held = bridge.held \cup {o}
        /\ bridge'.delivered = bridge.delivered
    BY <1>1, <1>3, <1>7 DEF Bridges
  <2>2. s \in Statuses /\ s \notin Confirms
    BY <1>7 DEF Statuses, Confirms
  <2>3. /\ SendInv' => RecInv'
        /\ \A u \in Askers, p \in Operations, at \in {"sends", "commits"} :
              On(u, at, p)' => u # t /\ On(u, at, p)
        /\ \A p \in Operations : HasToken(p)' => HasToken(p) \/ p = o
    <3>1. \A p \in Operations : bridge'.delivered[p] >= bridge.delivered[p]
      BY <1>1, <2>1 DEF Bridges
    <3>2. \A p \in Operations : p \in bridge.held => HasToken(p)
      BY DEF HasToken
    <3> QED
      BY <1>7, <2>1, <2>2, <3>1, <3>2, Answers DEF o
  <2>4. SendInv'
    BY <1>1, <1>3, <1>4, <1>7, <2>1, <2>3 DEF SendInv
  <2> QED
    BY <2>3, <2>4
<1>8. ASSUME UNCHANGED <<chosen, ops>>, Refuses0(o), Answered(t, "failed", FALSE)
      PROVE  RecInv'
  <2> HIDE DEF o
  <2>1. /\ bridge' \in Bridges /\ bridge'.captured = bridge.captured /\ bridge'.held = bridge.held
        /\ bridge'.delivered = bridge.delivered
    BY <1>1, <1>3, <1>8 DEF Bridges, Refuses0
  <2>3. /\ SendInv' => RecInv'
        /\ \A u \in Askers, p \in Operations, at \in {"sends", "commits"} :
              On(u, at, p)' => u # t /\ On(u, at, p)
        /\ \A p \in Operations : HasToken(p)' => HasToken(p)
    <3>1. \A p \in Operations : bridge'.delivered[p] >= bridge.delivered[p]
      BY <1>1, <2>1 DEF Bridges
    <3> QED
      BY <1>8, <2>1, <3>1, Answers DEF o, HasToken, Statuses, Confirms
  <2>4. SendInv'
    BY <1>1, <1>3, <1>4, <1>8, <2>1, <2>3 DEF SendInv
  <2> QED
    BY <2>3, <2>4
<1> QED
  BY <1>5, <1>6, <1>7, <1>8 DEF BridgeSends

\* Asking for the receipt of an attempt that was made keeps the invariant.
LEMMA ReconciledKept ==
  ASSUME RecInv, NEW t \in Askers, Reconciles(t)
  PROVE  RecInv'
<1> USE DEF RecInv
<1> DEFINE o == asks[t].op
<1>0. asks[t].at = "reconciles"
  BY DEF Reconciles
<1>1. o \in Operations /\ ops[o].name = "send" /\ ops[o] \in OpRecs /\ bridge \in Bridges
  BY <1>0, BusyAsk DEF KindInv, RecTyped
<1>5. CASE Superseded(t)
  <2>1. ops' = Delivered(o, "unknown", FALSE) /\ Frees(t) /\ UNCHANGED <<chosen, bridge>>
    BY <1>5 DEF Reconciles, Superseded
  <2> QED
    BY <1>0, <1>1, <2>1, Settles DEF Statuses, Confirms
<1>6. ASSUME UNCHANGED <<chosen, ops, bridge>>,
             NEW s \in Statuses, NEW tok \in BOOLEAN, Answered(t, s, tok),
             s \in Confirms => bridge.delivered[o] > 0, tok => o \in bridge.held
      PROVE  RecInv'
  <2>1. /\ SendInv' => RecInv'
        /\ \A u \in Askers, p \in Operations, at \in {"sends", "commits"} :
              On(u, at, p)' => u # t /\ On(u, at, p)
        /\ \A p \in Operations : HasToken(p)' => HasToken(p)
    <3>1. \A p \in Operations : bridge'.delivered[p] >= bridge.delivered[p]
      BY <1>1, <1>6 DEF Bridges
    <3> QED
      BY <1>0, <1>1, <1>6, <3>1, Answers DEF HasToken
  <2>2. SendInv'
    BY <1>6, <2>1 DEF SendInv
  <2> QED
    BY <2>1, <2>2
<1>7. CASE ~Superseded(t)
  <2>1. Live(t) /\ UNCHANGED <<chosen, ops, bridge>>
    BY <1>7 DEF Reconciles
  <2>2. \/ bridge.delivered[o] > 0 /\ \E s \in {"posted", "accepted", "completed"} : Answered(t, s, FALSE)
        \/ bridge.delivered[o] = 0 /\ o \in bridge.held /\ Answered(t, "queued", TRUE)
        \/ Answered(t, "failed", FALSE)
        \/ Answered(t, "unknown", FALSE)
    BY <1>7 DEF Reconciles
  <2> HIDE DEF o
  <2> QED
    BY <1>6, <2>1, <2>2 DEF Statuses, Confirms
<1> QED
  BY <1>5, <1>7

\* Taking the receipt keeps the invariant.
LEMMA ReceiptKept ==
  ASSUME RecInv, NEW t \in Askers, TakesReceipt(t)
  PROVE  RecInv'
<1> USE DEF RecInv
<1> DEFINE o == asks[t].op
           s == asks[t].status
           tok == asks[t].token
<1>1. /\ asks[t].at = "receipt" /\ ops' = Delivered(o, s, tok) /\ UNCHANGED <<chosen, bridge>>
      /\ Turns(t, "commit") \/ Frees(t)
  BY DEF TakesReceipt
<1>2. o \in Operations /\ ops[o].name = "send" /\ s \in Statuses /\ tok \in BOOLEAN
  BY <1>1, BusyAsk DEF KindInv, Carry
<1>3. tok => HasToken(o)
  BY <1>1 DEF HasToken, On
<1>4. s \in Confirms => bridge.delivered[o] > 0
  BY <1>1 DEF ConfirmInv
<1>5. /\ asks' \in [Askers -> Asks] /\ AsksBut(t)
      /\ asks'[t].at = "idle" \/ (asks'[t].at = "commit" /\ asks'[t].op = o)
  BY <1>1, TurnsTo, FreesIt DEF Carry
<1> HIDE DEF o, s, tok
<1> QED
  BY <1>1, <1>2, <1>3, <1>4, <1>5, Receives

\* claim_commit keeps the invariant: an attempt is made once.
LEMMA ClaimedKept ==
  ASSUME RecInv, NEW t \in Askers, ClaimCommit(t)
  PROVE  RecInv'
<1> USE DEF RecInv
<1> DEFINE o == asks[t].op
<1>1. asks[t].at = "commit"
  BY DEF ClaimCommit
<1>2. o \in Operations /\ ops[o].name = "send" /\ ops[o] \in OpRecs
  BY <1>1, BusyAsk DEF KindInv, RecTyped
<1>3. CASE Frees(t) /\ ops' = Delivered(o, "unknown", FALSE)
  BY <1>1, <1>2, <1>3, Settles DEF Statuses, Confirms, ClaimCommit
<1>4. CASE Frees(t) /\ UNCHANGED ops
  BY <1>4, Quits DEF ClaimCommit
<1>5. CASE Committable(o) /\ Turns(t, "commits") /\ ops' = [ops EXCEPT ![o].committed = TRUE]
  <2>1. /\ asks' \in [Askers -> Asks] /\ AsksBut(t)
        /\ asks'[t].at = "commits" /\ asks'[t].op = o
    BY <1>1, <1>5, TurnsTo DEF Carry
  <2>2. ops[o].token /\ ~ops[o].committed
    BY <1>5 DEF Committable
  <2>3. UNCHANGED <<chosen, bridge>>
    BY DEF ClaimCommit
  <2> HIDE DEF o
  <2>4. /\ ops' \in [Operations -> OpRecs] /\ OthersKept(o)
        /\ ops'[o].attempted = ops[o].attempted /\ ops'[o].committed /\ ops'[o].token = ops[o].token
        /\ ops'[o].status = ops[o].status /\ ops'[o].result = ops[o].result
    BY <1>2, <1>5 DEF RecTyped, OpRecs, OthersKept
  <2>5. RecTyped'
    BY <2>1, <2>3, <2>4 DEF RecTyped, Bridges
  <2>6. \A p \in Operations :
          /\ ops'[p].name = ops[p].name /\ ops'[p].attempted = ops[p].attempted
          /\ ops'[p].token = ops[p].token /\ ops'[p].target = ops[p].target
          /\ ops'[p].status = ops[p].status /\ ops'[p].result = ops[p].result
          /\ ops'[p].revision = ops[p].revision
          /\ ops[p].committed => ops'[p].committed
    BY <1>2, <2>4 DEF OthersKept
  <2>7. \A u \in Askers : u # t => asks'[u] = asks[u]
    BY <2>1 DEF AsksBut
  <2>8. KindInv'
    <3>1. \A p \in Operations : ops'[p].name = "none" => ops'[p] = NoOp
      BY <1>2, <2>4 DEF KindInv, OthersKept
    <3>2. \A u \in Askers : asks'[u].at # "idle" => asks'[u].op \in Operations
      BY <2>1, <2>7, <1>2, BusyAsk
    <3> QED
      BY <1>2, <2>1, <2>6, <2>7, <3>1, <3>2 DEF KindInv
  <2>9. SendInv'
    <3>1. bridge.delivered[o] = 0 /\ HasToken(o)
      BY <1>2, <2>2 DEF SendInv, HasToken
    <3>2. \A u \in Askers : ~On(u, "commits", o)
      BY <1>2, <2>2 DEF SendInv
    <3>3. \A p \in Operations : HasToken(p)' => HasToken(p)
      BY <2>1, <2>3, <2>6, <2>7 DEF HasToken, On
    <3>4. \A u \in Askers, p \in Operations :
            /\ On(u, "sends", p)' => On(u, "sends", p)
            /\ On(u, "commits", p)' => (On(u, "commits", p) /\ p # o) \/ (u = t /\ p = o)
      BY <1>1, <1>2, <2>1, <2>7, <3>2 DEF On
    <3>5. \A p \in Operations :
            /\ HasToken(p)' => ops'[p].attempted /\ (bridge'.delivered[p] = 0 \/ ops'[p].committed)
            /\ bridge'.delivered[p] <= 1 /\ (bridge'.delivered[p] > 0 => ops'[p].attempted)
            /\ p \in bridge'.held => bridge'.delivered[p] = 0
      BY <2>3, <2>6, <3>3 DEF SendInv
    <3>6. \A u \in Askers, p \in Operations : On(u, "sends", p)' =>
            /\ ops'[p].attempted /\ bridge'.delivered[p] = 0 /\ ~HasToken(p)'
            /\ \A v \in Askers : On(v, "sends", p)' => v = u
      BY <2>3, <2>6, <3>3, <3>4 DEF SendInv
    <3>7. \A u \in Askers, p \in Operations : On(u, "commits", p)' =>
            /\ ops'[p].committed /\ ops'[p].token /\ bridge'.delivered[p] = 0
            /\ \A v \in Askers : On(v, "commits", p)' => v = u
      BY <1>2, <2>2, <2>3, <2>4, <2>6, <3>1, <3>4 DEF SendInv
    <3> QED
      BY <3>5, <3>6, <3>7 DEF SendInv
  <2>10. InspectInv'
    <3>1. \A u \in Askers, p \in Operations : On(u, "inspects", p)' => On(u, "inspects", p)
      BY <2>1, <2>7 DEF On
    <3> QED
      BY <2>3, <2>6, <3>1 DEF InspectInv
  <2>11. ConfirmInv'
    BY <2>1, <2>3, <2>6, <2>7 DEF ConfirmInv, ConfirmedWasSent
  <2>12. SelectionIsNewest'
    BY <2>3, <2>6 DEF SelectionIsNewest
  <2> QED
    BY <2>5, <2>8, <2>9, <2>10, <2>11, <2>12
<1> QED
  BY <1>3, <1>4, <1>5 DEF ClaimCommit

\* The commit at the bridge keeps the invariant: it is delivered once.
LEMMA CommitKept ==
  ASSUME RecInv, NEW t \in Askers, BridgeCommits(t)
  PROVE  RecInv'
<1> USE DEF RecInv
<1> DEFINE o == asks[t].op
<1>0. asks[t].at = "commits"
  BY DEF BridgeCommits
<1>1. o \in Operations /\ ops[o].name = "send" /\ ops[o] \in OpRecs /\ bridge \in Bridges
  BY <1>0, BusyAsk DEF KindInv, RecTyped
<1>2. On(t, "commits", o)
  BY <1>0 DEF On
<1>3. /\ ops[o].committed /\ ops[o].token /\ bridge.delivered[o] = 0 /\ HasToken(o)
      /\ \A u \in Askers : On(u, "commits", o) => u = t
  BY <1>1, <1>2 DEF SendInv, HasToken
<1>4. ops[o].attempted /\ \A u \in Askers : ~On(u, "sends", o)
  BY <1>1, <1>3 DEF SendInv
<1>5. CASE Superseded(t)
  <2>1. ops' = Delivered(o, "unknown", FALSE) /\ Frees(t) /\ UNCHANGED <<chosen, bridge>>
    BY <1>5 DEF BridgeCommits, Superseded
  <2> QED
    BY <1>0, <1>1, <2>1, Settles DEF Statuses, Confirms
<1>6. ASSUME UNCHANGED <<chosen, ops>>,
             bridge' = [bridge EXCEPT !.delivered[o] = Up(@), !.held = @ \ {o}],
             NEW s \in {"posted", "unknown"}, Answered(t, s, FALSE)
      PROVE  RecInv'
  <2> HIDE DEF o
  <2>1. /\ bridge' \in Bridges /\ bridge'.captured = bridge.captured /\ bridge'.held = bridge.held \ {o}
        /\ bridge'.delivered[o] = 1
        /\ \A p \in Operations : p # o => bridge'.delivered[p] = bridge.delivered[p]
    <3> DEFINE d == [bridge.delivered EXCEPT ![o] = 1]
    <3>1. Up(bridge.delivered[o]) = 1
      BY <1>3 DEF Up
    <3>2. /\ bridge'.delivered = d /\ bridge'.held = bridge.held \ {o}
          /\ bridge'.captured = bridge.captured /\ bridge'.gone = bridge.gone
          /\ bridge' = [delivered |-> bridge'.delivered, held |-> bridge'.held,
                        captured |-> bridge'.captured, gone |-> bridge'.gone]
      BY <1>1, <1>6, <3>1 DEF Bridges
    <3>3. bridge.delivered \in [Operations -> 0 .. 2]
      BY <1>1 DEF Bridges
    <3>4. d \in [Operations -> 0 .. 2] /\ d[o] = 1 /\ \A p \in Operations : p # o => d[p] = bridge.delivered[p]
      BY <1>1, <3>3
    <3> HIDE DEF d
    <3> QED
      BY <1>1, <3>2, <3>4 DEF Bridges
  <2>2. s \in Statuses /\ FALSE \in BOOLEAN
    BY <1>6 DEF Statuses
  <2>3. /\ SendInv' => RecInv'
        /\ \A u \in Askers, p \in Operations, at \in {"sends", "commits"} :
              On(u, at, p)' => u # t /\ On(u, at, p)
        /\ \A p \in Operations : HasToken(p)' => HasToken(p)
    <3>1. \A p \in Operations : bridge'.delivered[p] >= bridge.delivered[p]
      BY <1>1, <1>3, <2>1 DEF Bridges
    <3>2. \A p \in Operations : p \in bridge.held => HasToken(p)
      BY DEF HasToken
    <3>3. s \in Confirms => bridge'.delivered[asks[t].op] > 0
      BY <2>1 DEF o
    <3>4. /\ SendInv' => RecInv'
          /\ \A u \in Askers, p \in Operations, at \in {"sends", "commits"} :
                On(u, at, p)' => u # t /\ On(u, at, p)
          /\ \A p \in Operations : HasToken(p)' =>
                HasToken(p) \/ p \in bridge'.held \/ (p = asks[t].op /\ FALSE)
      BY <1>0, <1>6, <2>1, <2>2, <3>1, <3>3, Answers
    <3> QED
      BY <2>1, <3>2, <3>4
  <2>4. SendInv'
    <3>1. \A p \in Operations :
            /\ HasToken(p)' => ops'[p].attempted /\ (bridge'.delivered[p] = 0 \/ ops'[p].committed)
            /\ bridge'.delivered[p] <= 1 /\ (bridge'.delivered[p] > 0 => ops'[p].attempted)
            /\ p \in bridge'.held => bridge'.delivered[p] = 0
      <4> TAKE p \in Operations
      <4>1. CASE p # o
        BY <1>6, <2>1, <2>3, <4>1 DEF SendInv
      <4>2. CASE p = o
        BY <1>1, <1>3, <1>4, <1>6, <2>1, <2>3, <4>2
      <4> QED
        BY <4>1, <4>2
    <3>2. \A u \in Askers, p \in Operations :
            /\ On(u, "sends", p)' => p # o /\ On(u, "sends", p)
            /\ On(u, "commits", p)' => p # o /\ On(u, "commits", p)
      BY <1>1, <1>3, <1>4, <2>3
    <3>3. \A u \in Askers, p \in Operations :
            /\ On(u, "sends", p)' =>
                 /\ ops'[p].attempted /\ bridge'.delivered[p] = 0 /\ ~HasToken(p)'
                 /\ \A v \in Askers : On(v, "sends", p)' => v = u
            /\ On(u, "commits", p)' =>
                 /\ ops'[p].committed /\ ops'[p].token /\ bridge'.delivered[p] = 0
                 /\ \A v \in Askers : On(v, "commits", p)' => v = u
      BY <1>6, <2>1, <2>3, <3>2 DEF SendInv
    <3> QED
      BY <3>1, <3>3 DEF SendInv
  <2> QED
    BY <2>3, <2>4
<1>7. ASSUME UNCHANGED <<chosen, ops, bridge>>, Answered(t, "unknown", FALSE)
      PROVE  RecInv'
  <2>1. "unknown" \in Statuses /\ "unknown" \notin Confirms /\ FALSE \in BOOLEAN
    BY DEF Statuses, Confirms
  <2>2. \A p \in Operations : bridge'.delivered[p] >= bridge.delivered[p]
    BY <1>1, <1>7 DEF Bridges
  <2>3. /\ SendInv' => RecInv'
        /\ \A u \in Askers, p \in Operations, at \in {"sends", "commits"} :
              On(u, at, p)' => u # t /\ On(u, at, p)
        /\ \A p \in Operations : HasToken(p)' => HasToken(p)
    BY <1>0, <1>1, <1>7, <2>1, <2>2, Answers DEF HasToken
  <2>4. SendInv'
    BY <1>7, <2>3 DEF SendInv
  <2> QED
    BY <2>3, <2>4
<1> QED
  BY <1>5, <1>6, <1>7 DEF BridgeCommits

\* Writing the selection keeps the invariant: the newest one stands.
LEMMA SelectedKept ==
  ASSUME RecInv, NEW t \in Askers, Selected(t)
  PROVE  RecInv'
<1> USE DEF RecInv
<1> DEFINE o == asks[t].op
<1>0. asks[t].at = "selected" /\ Frees(t) /\ UNCHANGED bridge
  BY DEF Selected
<1>1. o \in Operations /\ ops[o].name = "select" /\ ops[o] \in OpRecs /\ bridge \in Bridges
  BY <1>0, BusyAsk DEF KindInv, RecTyped
<1>2. CASE UNCHANGED <<chosen, ops>>
  BY <1>0, <1>2, Quits
<1>3. CASE /\ IsNewest(o) /\ chosen' = [chosen EXCEPT !.selected = ops[o].target]
           /\ ops' = Delivered(o, "completed", FALSE)
  <2>1. asks' \in [Askers -> Asks] /\ AsksBut(t) /\ asks'[t].at = "idle"
    BY <1>0, FreesIt
  <2>2. /\ ops' \in [Operations -> OpRecs] /\ OthersKept(o)
        /\ ops'[o].attempted = ops[o].attempted /\ ops'[o].committed = ops[o].committed
        /\ \/ ops' = ops /\ ops[o].result # "none" /\ ~Outranks(ops[o].result, "completed")
           \/ /\ ops[o].result = "none" \/ Outranks(ops[o].result, "completed")
              /\ ops'[o].status = "completed" /\ ops'[o].result = "completed"
              /\ ops'[o].token = (ops[o].token \/ FALSE)
    BY <1>1, <1>3, DeliveredSo DEF Statuses
  <2> HIDE DEF o
  <2>3. ops'[o].result = "completed"
    <3>1. ops[o].result \in {"none", "unknown", "completed"}
      BY <1>1 DEF KindInv
    <3> QED
      BY <2>2, <3>1 DEF Outranks
  <2>4. /\ ops'[o].token = ops[o].token /\ ops'[o].name = "select" /\ ops'[o].target = ops[o].target
        /\ ops'[o].revision = ops[o].revision /\ ops[o].target # NoOne
        /\ ops[o].target \in Addressees \cup {NoOne}
    BY <1>1, <2>2 DEF OpRecs, OthersKept, KindInv
  <2>5. \A p \in Operations : p # o => ops'[p] = ops[p]
    BY <2>2 DEF OthersKept
  <2>6. \A p \in Operations :
          /\ ops'[p].name = ops[p].name /\ ops'[p].attempted = ops[p].attempted
          /\ ops'[p].committed = ops[p].committed /\ ops'[p].token = ops[p].token
    BY <1>1, <2>2, <2>4, <2>5
  <2>7. \A u \in Askers : asks'[u].at # "idle" => asks'[u] = asks[u] /\ asks[u].op \in Operations
    BY <2>1, BusyAsk DEF AsksBut
  <2>8. chosen' \in [selected : Addressees \cup {NoOne}, revision : Nat, generation : Nat]
        /\ chosen'.selected = ops[o].target /\ chosen'.revision = chosen.revision
    BY <1>3, <2>4 DEF RecTyped
  <2>9. RecTyped'
    BY <1>0, <2>1, <2>2, <2>8 DEF RecTyped, Bridges
  <2>10. KindInv'
    <3>1. \A p \in Operations :
            /\ ops'[p].name = "none" => ops'[p] = NoOp
            /\ ops'[p].name = "select" =>
                 ops'[p].target # NoOne /\ ops'[p].result \in {"none", "unknown", "completed"}
      BY <1>1, <2>3, <2>4, <2>5 DEF KindInv
    <3>2. \A u \in Askers : asks'[u].at # "idle" =>
            asks'[u] = asks[u] /\ ops'[asks'[u].op].name = ops[asks[u].op].name
      BY <2>6, <2>7
    <3> QED
      BY <3>1, <3>2 DEF KindInv
  <2>11. SendInv'
    <3>1. \A p \in Operations : HasToken(p)' => HasToken(p)
      BY <1>0, <2>6, <2>7 DEF HasToken, On
    <3>2. \A u \in Askers, p \in Operations, at \in {"sends", "commits"} : On(u, at, p)' => On(u, at, p)
      BY <2>7 DEF On
    <3>3. \A p \in Operations :
            /\ HasToken(p)' => ops'[p].attempted /\ (bridge'.delivered[p] = 0 \/ ops'[p].committed)
            /\ bridge'.delivered[p] <= 1 /\ (bridge'.delivered[p] > 0 => ops'[p].attempted)
            /\ p \in bridge'.held => bridge'.delivered[p] = 0
      BY <1>0, <2>6, <3>1 DEF SendInv
    <3>4. \A u \in Askers, p \in Operations :
            /\ On(u, "sends", p)' =>
                 /\ ops'[p].attempted /\ bridge'.delivered[p] = 0 /\ ~HasToken(p)'
                 /\ \A v \in Askers : On(v, "sends", p)' => v = u
            /\ On(u, "commits", p)' =>
                 /\ ops'[p].committed /\ ops'[p].token /\ bridge'.delivered[p] = 0
                 /\ \A v \in Askers : On(v, "commits", p)' => v = u
      BY <1>0, <2>6, <3>1, <3>2 DEF SendInv
    <3> QED
      BY <3>3, <3>4 DEF SendInv
  <2>12. InspectInv'
    <3>1. \A u \in Askers, p \in Operations : On(u, "inspects", p)' => On(u, "inspects", p)
      BY <2>7 DEF On
    <3> QED
      BY <1>0, <2>6, <3>1 DEF InspectInv
  <2>13. ConfirmInv'
    <3>1. ConfirmedWasSent'
      BY <1>0, <1>1, <2>4, <2>5 DEF ConfirmInv, ConfirmedWasSent
    <3> QED
      BY <1>0, <2>7, <3>1 DEF ConfirmInv
  <2>14. SelectionIsNewest'
    BY <1>1, <1>3, <2>3, <2>4, <2>8 DEF SelectionIsNewest, IsNewest
  <2> QED
    BY <2>9, <2>10, <2>11, <2>12, <2>13, <2>14
<1> QED
  BY <1>2, <1>3 DEF Selected

\* The bridge's look at a recipient keeps the invariant.
LEMMA InspectedKept ==
  ASSUME RecInv, NEW t \in Askers, BridgeInspects(t)
  PROVE  RecInv'
<1> USE DEF RecInv
<1> DEFINE o == asks[t].op
<1>0. asks[t].at = "inspects" /\ Frees(t) /\ UNCHANGED chosen
  BY DEF BridgeInspects
<1>1. o \in Operations /\ ops[o].name = "inspect" /\ ops[o] \in OpRecs /\ bridge \in Bridges
  BY <1>0, BusyAsk DEF KindInv, RecTyped
<1>2. CASE UNCHANGED <<ops, bridge>>
  BY <1>0, <1>2, Quits
<1>3. ASSUME bridge' = [bridge EXCEPT !.captured[o] = Up(@)],
             NEW s \in {"completed", "unknown"}, ops' = Delivered(o, s, FALSE)
      PROVE  RecInv'
  <2>1. asks' \in [Askers -> Asks] /\ AsksBut(t) /\ asks'[t].at = "idle"
    BY <1>0, FreesIt
  <2>1a. s \in Statuses /\ FALSE \in BOOLEAN
    BY <1>3 DEF Statuses
  <2>2. /\ ops' \in [Operations -> OpRecs] /\ OthersKept(o)
        /\ ops'[o].attempted = ops[o].attempted /\ ops'[o].committed = ops[o].committed
        /\ \/ ops' = ops /\ ops[o].result # "none" /\ ~Outranks(ops[o].result, s)
           \/ /\ ops[o].result = "none" \/ Outranks(ops[o].result, s)
              /\ ops'[o].status = s /\ ops'[o].result = s
              /\ ops'[o].token = (ops[o].token \/ FALSE)
    BY <1>1, <1>3, <2>1a, DeliveredSo
  <2>3. /\ ops[o].attempted /\ bridge.captured[o] = 0
        /\ \A u \in Askers : On(u, "inspects", o) => u = t
    BY <1>0, <1>1 DEF InspectInv, On
  <2> HIDE DEF o
  <2>3a. /\ bridge' \in Bridges /\ bridge'.delivered = bridge.delivered /\ bridge'.held = bridge.held
         /\ bridge'.captured[o] = 1
         /\ \A p \in Operations : p # o => bridge'.captured[p] = bridge.captured[p]
    BY <1>1, <1>3, <2>3 DEF Bridges, Up
  <2>4. ops'[o].token = ops[o].token /\ ops'[o].name = "inspect"
    BY <1>1, <2>2 DEF OpRecs, OthersKept
  <2>5. \A p \in Operations : p # o => ops'[p] = ops[p]
    BY <2>2 DEF OthersKept
  <2>6. \A p \in Operations :
          /\ ops'[p].name = ops[p].name /\ ops'[p].attempted = ops[p].attempted
          /\ ops'[p].committed = ops[p].committed /\ ops'[p].token = ops[p].token
    BY <1>1, <2>2, <2>4, <2>5
  <2>7. \A u \in Askers : asks'[u].at # "idle" => u # t /\ asks'[u] = asks[u] /\ asks[u].op \in Operations
    BY <2>1, BusyAsk DEF AsksBut
  <2>9. RecTyped'
    BY <1>0, <2>1, <2>2, <2>3a DEF RecTyped
  <2>10. KindInv'
    <3>1. \A p \in Operations :
            /\ ops'[p].name = "none" => ops'[p] = NoOp
            /\ ops'[p].name = "select" =>
                 ops'[p].target # NoOne /\ ops'[p].result \in {"none", "unknown", "completed"}
      BY <1>1, <2>4, <2>5 DEF KindInv
    <3>2. \A u \in Askers : asks'[u].at # "idle" =>
            asks'[u] = asks[u] /\ ops'[asks'[u].op].name = ops[asks[u].op].name
      BY <2>6, <2>7
    <3> QED
      BY <3>1, <3>2 DEF KindInv
  <2>11. SendInv'
    <3>1. \A p \in Operations : HasToken(p)' => HasToken(p)
      BY <2>3a, <2>6, <2>7 DEF HasToken, On
    <3>2. \A u \in Askers, p \in Operations, at \in {"sends", "commits"} : On(u, at, p)' => On(u, at, p)
      BY <2>7 DEF On
    <3>3. \A p \in Operations :
            /\ HasToken(p)' => ops'[p].attempted /\ (bridge'.delivered[p] = 0 \/ ops'[p].committed)
            /\ bridge'.delivered[p] <= 1 /\ (bridge'.delivered[p] > 0 => ops'[p].attempted)
            /\ p \in bridge'.held => bridge'.delivered[p] = 0
      BY <2>3a, <2>6, <3>1 DEF SendInv
    <3>4. \A u \in Askers, p \in Operations :
            /\ On(u, "sends", p)' =>
                 /\ ops'[p].attempted /\ bridge'.delivered[p] = 0 /\ ~HasToken(p)'
                 /\ \A v \in Askers : On(v, "sends", p)' => v = u
            /\ On(u, "commits", p)' =>
                 /\ ops'[p].committed /\ ops'[p].token /\ bridge'.delivered[p] = 0
                 /\ \A v \in Askers : On(v, "commits", p)' => v = u
      BY <2>3a, <2>6, <3>1, <3>2 DEF SendInv
    <3> QED
      BY <3>3, <3>4 DEF SendInv
  <2>12. InspectInv'
    <3>1. \A u \in Askers, p \in Operations : On(u, "inspects", p)' => On(u, "inspects", p) /\ p # o
      BY <1>1, <2>3, <2>7 DEF On
    <3>2. \A p \in Operations : bridge'.captured[p] <= 1 /\ (bridge'.captured[p] > 0 => ops'[p].attempted)
      BY <2>3, <2>3a, <2>6 DEF InspectInv
    <3>3. \A u \in Askers, p \in Operations : On(u, "inspects", p)' =>
            /\ ops'[p].attempted /\ bridge'.captured[p] = 0
            /\ \A v \in Askers : On(v, "inspects", p)' => v = u
      BY <2>3a, <2>6, <3>1 DEF InspectInv
    <3> QED
      BY <3>2, <3>3 DEF InspectInv
  <2>13. ConfirmInv'
    <3>1. ConfirmedWasSent'
      BY <2>3a, <1>1, <2>4, <2>5 DEF ConfirmInv, ConfirmedWasSent
    <3> QED
      BY <2>3a, <2>7, <3>1 DEF ConfirmInv
  <2>14. SelectionIsNewest'
    BY <1>0, <1>1, <2>5 DEF SelectionIsNewest
  <2> QED
    BY <2>9, <2>10, <2>11, <2>12, <2>13, <2>14
<1> QED
  BY <1>0, <1>2, <1>3 DEF BridgeInspects

\* What prepare inserts.
Fresh(q, n) == /\ q.name = n /\ (n = "select" => q.target # NoOne)
               /\ ~q.attempted /\ ~q.token /\ ~q.committed /\ q.status = "queued" /\ q.result = "none"

\* Preparing an operation keeps the invariant.
LEMMA PrepareKept ==
  ASSUME RecInv, NEW t \in Askers, NEW o \in Operations, NEW n \in {"select", "send", "inspect"},
         NEW a \in Addressees, Prepare(t, o, n, a)
  PROVE  RecInv'
<1> USE DEF RecInv
<1> DEFINE r == [at |-> n, op |-> o, generation |-> chosen.generation]
<1>1. /\ asks[t].at = "idle" /\ asks' = [asks EXCEPT ![t] = r] /\ UNCHANGED bridge
      /\ ops[o].name \in {"none", n}
  BY DEF Prepare
<1>2. chosen.generation \in Nat /\ chosen.revision \in Nat /\ chosen.selected \in Addressees \cup {NoOne}
      /\ ops[o] \in OpRecs
  BY DEF RecTyped
<1>3. asks' \in [Askers -> Asks] /\ asks'[t] = r /\ AsksBut(t)
  <2>1. r \in Asks
    BY <1>2 DEF Asks, Plain
  <2> QED
    BY <1>1, <2>1 DEF AsksBut, RecTyped
<1>4. \/ ops[o].name = n /\ UNCHANGED <<chosen, ops>>
      \/ /\ ops[o] = NoOp
         /\ \E q \in OpRecs : ops' = [ops EXCEPT ![o] = q] /\ Fresh(q, n)
         /\ \/ UNCHANGED chosen
            \/ chosen' = [chosen EXCEPT !.revision = @ + 1, !.selected = NoOne]
  <2>1. ops[o].name = "none" => ops[o] = NoOp
    BY DEF KindInv
  <2>2. CASE ops[o].name = n /\ UNCHANGED <<chosen, ops>>
    BY <2>2
  <2>3. CASE ops[o].name = "none" /\ n = "select"
             /\ chosen' = [chosen EXCEPT !.revision = @ + 1, !.selected = NoOne]
             /\ ops' = [ops EXCEPT ![o] = [NoOp EXCEPT !.name = n, !.target = a,
                                                       !.revision = chosen.revision + 1]]
    <3> DEFINE q == [NoOp EXCEPT !.name = n, !.target = a, !.revision = chosen.revision + 1]
    <3>1. chosen.revision + 1 \in Nat /\ a \in Addressees \cup {NoOne} /\ a # NoOne
      BY <1>2, RecipientAssumption
    <3>2. q \in OpRecs /\ Fresh(q, n)
      BY <3>1 DEF Fresh, NoOp, OpRecs, Statuses
    <3> HIDE DEF q
    <3> QED
      BY <2>1, <2>3, <3>2 DEF q
  <2>4. CASE ops[o].name = "none" /\ n # "select" /\ UNCHANGED chosen
             /\ ops' = [ops EXCEPT ![o] = [NoOp EXCEPT !.name = n, !.target = chosen.selected]]
    <3> DEFINE q == [NoOp EXCEPT !.name = n, !.target = chosen.selected]
    <3>1. q \in OpRecs /\ Fresh(q, n)
      BY <1>2, <2>4 DEF Fresh, NoOp, OpRecs, Statuses
    <3> HIDE DEF q
    <3> QED
      BY <2>1, <2>4, <3>1 DEF q
  <2> QED
    BY <2>2, <2>3, <2>4 DEF Prepare
<1> HIDE DEF r
<1>5. r.at = n /\ r.op = o
  BY DEF r
<1>6. \A u \in Askers : u # t => asks'[u] = asks[u]
  BY <1>3 DEF AsksBut
<1>7. \A u \in Askers : asks[u].at # "idle" => asks[u].op \in Operations
  BY BusyAsk
<1>8. CASE ops[o].name = n /\ UNCHANGED <<chosen, ops>>
  <2>1. RecTyped'
    BY <1>1, <1>3, <1>8 DEF RecTyped, Bridges
  <2>2. KindInv'
    BY <1>3, <1>5, <1>6, <1>8 DEF KindInv
  <2>3. SendInv'
    BY <1>1, <1>3, <1>5, <1>6, <1>8 DEF SendInv, HasToken, On
  <2>4. InspectInv'
    BY <1>1, <1>3, <1>5, <1>6, <1>8 DEF InspectInv, On
  <2>5. ConfirmInv'
    BY <1>1, <1>3, <1>5, <1>6, <1>8 DEF ConfirmInv, ConfirmedWasSent
  <2>6. SelectionIsNewest'
    BY <1>8 DEF SelectionIsNewest
  <2> QED
    BY <2>1, <2>2, <2>3, <2>4, <2>5, <2>6
<1>9. ASSUME ops[o] = NoOp, NEW q \in OpRecs, ops' = [ops EXCEPT ![o] = q], Fresh(q, n),
             \/ UNCHANGED chosen
             \/ chosen' = [chosen EXCEPT !.revision = @ + 1, !.selected = NoOne]
      PROVE  RecInv'
  <2>1. /\ q.name = n /\ (n = "select" => q.target # NoOne) /\ ~q.attempted /\ ~q.token /\ ~q.committed
        /\ q.status = "queued" /\ q.result = "none"
    BY <1>9 DEF Fresh
  <2>2. ops' = [ops EXCEPT ![o] = q] /\ ops \in [Operations -> OpRecs]
    BY <1>9 DEF RecTyped
  <2>3. ops' \in [Operations -> OpRecs] /\ ops'[o] = q /\ \A p \in Operations : p # o => ops'[p] = ops[p]
    BY <2>1, <2>2
  <2>4. ~ops[o].attempted /\ ~ops[o].token /\ ~ops[o].committed /\ ops[o].name = "none"
    BY <1>9 DEF NoOp
  <2>5. \A u \in Askers : asks[u].at # "idle" => asks[u].op # o
    BY <2>4, BusyAsk DEF KindInv, Asks, Plain, Carry, RecTyped
  <2>6. bridge.delivered[o] = 0 /\ bridge.captured[o] = 0 /\ ~HasToken(o)
    BY <2>4 DEF SendInv, InspectInv, RecTyped, Bridges
  <2>7. chosen' \in [selected : Addressees \cup {NoOne}, revision : Nat, generation : Nat]
        /\ (chosen'.selected # NoOne => chosen'.selected = chosen.selected /\ chosen'.revision = chosen.revision)
    <3>1. CASE UNCHANGED chosen
      BY <3>1 DEF RecTyped
    <3>2. CASE chosen' = [chosen EXCEPT !.revision = @ + 1, !.selected = NoOne]
      <4> DEFINE up == [chosen EXCEPT !.revision = chosen.revision + 1]
      <4>1. chosen' = [up EXCEPT !.selected = NoOne]
        BY <3>2 DEF RecTyped
      <4>2. up \in [selected : Addressees \cup {NoOne}, revision : Nat, generation : Nat]
        BY DEF RecTyped
      <4> HIDE DEF up
      <4> QED
        BY <4>1, <4>2
    <3> QED
      BY <1>9, <3>1, <3>2
  <2>8. RecTyped'
    BY <1>1, <1>3, <2>3, <2>7 DEF RecTyped, Bridges
  <2>9. KindInv'
    <3>1. \A p \in Operations :
            /\ ops'[p].name = "none" => ops'[p] = NoOp
            /\ ops'[p].name = "select" =>
                 ops'[p].target # NoOne /\ ops'[p].result \in {"none", "unknown", "completed"}
      BY <1>9, <2>1, <2>3 DEF KindInv
    <3>2. \A u \in Askers : asks'[u].at # "idle" =>
            \/ asks'[u] = asks[u] /\ ops'[asks'[u].op].name = ops[asks[u].op].name
            \/ asks'[u].at = n /\ ops'[asks'[u].op].name = n
      BY <1>3, <1>5, <1>6, <1>7, <2>1, <2>3, <2>5
    <3> QED
      BY <3>1, <3>2 DEF KindInv
  <2>10. SendInv'
    <3>1. \A p \in Operations : HasToken(p)' => HasToken(p)
      BY <1>1, <1>3, <1>5, <1>6, <2>1, <2>3 DEF HasToken, On
    <3>2. \A u \in Askers, p \in Operations, at \in {"sends", "commits"} :
            On(u, at, p)' => On(u, at, p) /\ p # o
      BY <1>3, <1>5, <1>6, <2>5 DEF On
    <3>3. \A p \in Operations :
            /\ HasToken(p)' => ops'[p].attempted /\ (bridge'.delivered[p] = 0 \/ ops'[p].committed)
            /\ bridge'.delivered[p] <= 1 /\ (bridge'.delivered[p] > 0 => ops'[p].attempted)
            /\ p \in bridge'.held => bridge'.delivered[p] = 0
      BY <1>1, <2>3, <2>6, <3>1 DEF SendInv
    <3>4. \A u \in Askers, p \in Operations :
            /\ On(u, "sends", p)' =>
                 /\ ops'[p].attempted /\ bridge'.delivered[p] = 0 /\ ~HasToken(p)'
                 /\ \A v \in Askers : On(v, "sends", p)' => v = u
            /\ On(u, "commits", p)' =>
                 /\ ops'[p].committed /\ ops'[p].token /\ bridge'.delivered[p] = 0
                 /\ \A v \in Askers : On(v, "commits", p)' => v = u
      BY <1>1, <2>3, <3>1, <3>2 DEF SendInv
    <3> QED
      BY <3>3, <3>4 DEF SendInv
  <2>11. InspectInv'
    <3>1. \A u \in Askers, p \in Operations : On(u, "inspects", p)' => On(u, "inspects", p) /\ p # o
      BY <1>3, <1>5, <1>6, <2>5 DEF On
    <3> QED
      BY <1>1, <2>3, <2>6, <3>1 DEF InspectInv
  <2>12. ConfirmInv'
    <3>1. ConfirmedWasSent'
      BY <1>1, <2>1, <2>3 DEF ConfirmInv, ConfirmedWasSent
    <3> QED
      BY <1>1, <1>3, <1>5, <1>6, <3>1 DEF ConfirmInv
  <2>13. SelectionIsNewest'
    BY <2>3, <2>4, <2>7 DEF SelectionIsNewest
  <2> QED
    BY <2>8, <2>9, <2>10, <2>11, <2>12, <2>13
<1> QED
  BY <1>4, <1>8, <1>9

\* Every step of the recipients keeps the invariant.
LEMMA RecStepKept ==
  ASSUME RecInv, RecNext
  PROVE  RecInv'
<1>1. CASE NewGeneration
  <2>1. chosen' = [chosen EXCEPT !.generation = @ + 1] /\ UNCHANGED <<ops, asks, bridge>>
    BY <1>1 DEF NewGeneration
  <2>2. RecTyped'
    BY <2>1 DEF RecInv, RecTyped, Bridges
  <2>3. KindInv' /\ InspectInv' /\ ConfirmInv'
    BY <2>1 DEF RecInv, KindInv, InspectInv, ConfirmInv, ConfirmedWasSent, On
  <2>4. SendInv'
    BY <2>1 DEF RecInv, SendInv, HasToken, On
  <2>5. SelectionIsNewest'
    BY <2>1 DEF RecInv, SelectionIsNewest, RecTyped
  <2> QED
    BY <2>2, <2>3, <2>4, <2>5 DEF RecInv
<1>2. ASSUME NEW t \in Askers, SendBegins(t)
      PROVE  RecInv'
  <2> DEFINE o == asks[t].op
  <2>1. asks[t].at = "send" /\ o \in Operations /\ ops[o].name = "send" /\ UNCHANGED <<chosen, bridge>>
    BY <1>2, BusyAsk DEF SendBegins, RecInv, KindInv
  <2>2. \/ ops' = Delivered(o, "failed", FALSE) /\ Frees(t)
        \/ Frees(t) /\ UNCHANGED ops
        \/ Claimable(o) /\ ops' = [ops EXCEPT ![o].attempted = TRUE] /\ Turns(t, "sends")
        \/ Turns(t, "reconciles") /\ UNCHANGED ops
    BY <1>2 DEF SendBegins
  <2>3. CASE ops' = Delivered(o, "failed", FALSE) /\ Frees(t)
    BY <2>1, <2>3, Settles DEF Statuses, Confirms
  <2>4. CASE Frees(t) /\ UNCHANGED ops
    BY <2>1, <2>4, Quits
  <2>5. CASE Claimable(o) /\ ops' = [ops EXCEPT ![o].attempted = TRUE] /\ Turns(t, "sends")
    BY <2>1, <2>5, ClaimsIt DEF Claimable
  <2>6. CASE Turns(t, "reconciles") /\ UNCHANGED ops
    BY <2>1, <2>6, Moves
  <2> QED
    BY <2>2, <2>3, <2>4, <2>5, <2>6
<1>3. ASSUME NEW t \in Askers, NEW name \in {"select", "inspect"}, NEW next,
             ClaimOne(t, name, next), (name = "select" /\ next = "selects") \/ (name = "inspect" /\ next = "inspects")
      PROVE  RecInv'
  <2> DEFINE o == asks[t].op
  <2>1. asks[t].at = name /\ o \in Operations /\ ops[o].name = name /\ UNCHANGED <<chosen, bridge>>
    BY <1>3, BusyAsk DEF ClaimOne, RecInv, KindInv
  <2>2. \/ Claimable(o) /\ ops' = [ops EXCEPT ![o].attempted = TRUE] /\ Turns(t, next)
        \/ ops[o].target = NoOne /\ ops' = Delivered(o, "failed", FALSE) /\ Frees(t)
        \/ Frees(t) /\ UNCHANGED ops
    BY <1>3 DEF ClaimOne
  <2>3. CASE ops[o].target = NoOne /\ ops' = Delivered(o, "failed", FALSE) /\ Frees(t)
    <3>1. name = "inspect"
      BY <2>1, <2>3 DEF RecInv, KindInv
    <3> QED
      BY <2>1, <2>3, <3>1, Settles DEF Statuses
  <2>4. CASE Frees(t) /\ UNCHANGED ops
    BY <2>1, <2>4, Quits
  <2>5. CASE Claimable(o) /\ ops' = [ops EXCEPT ![o].attempted = TRUE] /\ Turns(t, next)
    BY <1>3, <2>1, <2>5, ClaimsIt DEF Claimable
  <2> QED
    BY <2>2, <2>3, <2>4, <2>5
<1>4. ASSUME NEW t \in Askers, BridgeSelects(t)
      PROVE  RecInv'
  <2>1. asks[t].at = "selects" /\ UNCHANGED <<chosen, bridge>>
    BY <1>4 DEF BridgeSelects
  <2>2. CASE Turns(t, "selected") /\ UNCHANGED ops
    BY <2>1, <2>2, Moves
  <2>3. CASE ops' = Delivered(asks[t].op, "unknown", FALSE) /\ Frees(t)
    <3>1. asks[t].op \in Operations /\ ops[asks[t].op].name = "select"
      BY <2>1, BusyAsk DEF RecInv, KindInv
    <3> QED
      BY <2>1, <2>3, <3>1, Settles DEF Statuses
  <2> QED
    BY <1>4, <2>2, <2>3 DEF BridgeSelects
<1>5. ASSUME NEW t \in Askers, BridgeSends(t)
      PROVE  RecInv'
  BY <1>5, SentKept DEF BridgeSends
<1> QED
  BY <1>1, <1>2, <1>3, <1>4, <1>5, PrepareKept, ReconciledKept, ReceiptKept, ClaimedKept, CommitKept,
     SelectedKept, InspectedKept DEF RecNext, SelectClaims, InspectClaims

\* The recipients start in the invariant.
LEMMA RecStarts ==
  ASSUME RecInit
  PROVE  RecInv
<1> USE DEF RecInit, NoOp, Free
<1>1. RecTyped
  BY DEF RecTyped, OpRecs, Asks, Bridges, Statuses
<1>2. KindInv
  BY DEF KindInv
<1>3. SendInv
  BY DEF SendInv, HasToken, On
<1>4. InspectInv /\ ConfirmInv /\ SelectionIsNewest
  BY DEF InspectInv, ConfirmInv, ConfirmedWasSent, SelectionIsNewest, On
<1> QED
  BY <1>1, <1>2, <1>3, <1>4 DEF RecInv

\* The invariant of the recipients gives what the run checks of them.
LEMMA RecInvIsEnough ==
  ASSUME RecInv
  PROVE  RecipientsSafe
<1>1. RecTypeOK
  BY DEF RecInv, RecTyped, RecTypeOK, OpRecs
<1>2. DeliveredOnce
  BY DEF RecInv, SendInv, InspectInv, DeliveredOnce
<1> QED
  BY <1>1, <1>2 DEF RecInv, ConfirmInv, RecipientsSafe

\* What is known of a delivery: it ranks no lower, and an end stays.
Grows(old, new) == Rank(new) >= Rank(old) /\ (Rank(old) = 4 => new = old)

\* The results an operation may have.
Answerable == Statuses \cup {"none"}

\* Every result has a rank, and only a final one has the highest.
LEMMA RanksAreNumbers ==
  \A s \in Answerable : /\ Rank(s) \in 0 .. 4 /\ (Rank(s) = 0 <=> s = "none")
                        /\ Rank(s) = 4 <=> s \in {"completed", "failed"}
BY DEF Rank, Answerable, Statuses

\* A result that stays as it is has not been taken back.
LEMMA GrowsItself == \A s \in Answerable : Grows(s, s)
<1> TAKE s \in Answerable
<1>1. Rank(s) \in 0 .. 4
  BY RanksAreNumbers
<1> QED
  BY <1>1 DEF Grows

\* An answer that outranks the one that is there ranks no lower.
LEMMA OutranksGrows ==
  ASSUME NEW s \in Answerable, NEW n \in Statuses, s = "none" \/ Outranks(s, n)
  PROVE  Grows(s, n)
<1>1. CASE s = "none"
  <2>1. Rank("none") = 0 /\ Rank(n) \in 0 .. 4
    BY RanksAreNumbers DEF Answerable, Statuses
  <2> QED
    BY <1>1, <2>1 DEF Grows
<1>2. CASE s # "none"
  <2>1. Outranks(s, n) /\ s \in {"queued", "posted", "accepted", "unknown"}
    BY <1>2 DEF Outranks, Answerable, Statuses
  <2>2. CASE s \in {"queued", "unknown"}
    <3>1. Rank(s) = 1 /\ n # "none"
      BY <2>2 DEF Rank, Statuses
    <3>2. Rank(n) \in 0 .. 4 /\ Rank(n) # 0
      BY <3>1, RanksAreNumbers DEF Answerable
    <3> QED
      BY <3>1, <3>2 DEF Grows
  <2>3. CASE s = "posted"
    <3>1. Rank(s) = 2 /\ n \in {"posted", "accepted", "completed", "failed"}
      BY <2>1, <2>3 DEF Rank, Outranks, Statuses
    <3>2. Rank(n) \in 2 .. 4
      BY <3>1 DEF Rank
    <3> QED
      BY <3>1, <3>2 DEF Grows
  <2>4. CASE s = "accepted"
    <3>1. Rank(s) = 3 /\ n \in {"accepted", "completed", "failed"}
      BY <2>1, <2>4 DEF Rank, Outranks, Statuses
    <3>2. Rank(n) \in 3 .. 4
      BY <3>1 DEF Rank
    <3> QED
      BY <3>1, <3>2 DEF Grows
  <2> QED
    BY <2>1, <2>2, <2>3, <2>4
<1> QED
  BY <1>1, <1>2

\* A step that ends, claims or finishes one operation, or touches none.
Learns(o) == \/ ops' = ops
             \/ \E s \in Statuses, tok \in BOOLEAN : ops' = Delivered(o, s, tok)
             \/ ops' = [ops EXCEPT ![o].attempted = TRUE]
             \/ ops' = [ops EXCEPT ![o].committed = TRUE]

\* What a receipt teaches of an operation never takes back what was known.
LEMMA LearnsGrows ==
  ASSUME RecTyped, NEW o \in Operations, Learns(o)
  PROVE  \A p \in Operations : Grows(ops[p].result, ops'[p].result)
<1>1. ops \in [Operations -> OpRecs] /\ \A p \in Operations : ops[p].result \in Answerable
  BY DEF RecTyped, OpRecs, Answerable
<1>2. CASE ops' = ops \/ ops' = [ops EXCEPT ![o].attempted = TRUE] \/ ops' = [ops EXCEPT ![o].committed = TRUE]
  <2>1. \A p \in Operations : ops'[p].result = ops[p].result
    BY <1>1, <1>2 DEF OpRecs
  <2> QED
    BY <1>1, <2>1, GrowsItself
<1>3. ASSUME NEW s \in Statuses, NEW tok \in BOOLEAN, ops' = Delivered(o, s, tok)
      PROVE  \A p \in Operations : Grows(ops[p].result, ops'[p].result)
  <2>1. /\ OthersKept(o)
        /\ \/ ops' = ops
           \/ (ops[o].result = "none" \/ Outranks(ops[o].result, s)) /\ ops'[o].result = s
    BY <1>3, DeliveredSo
  <2>2. Grows(ops[o].result, ops'[o].result)
    BY <1>1, <2>1, GrowsItself, OutranksGrows
  <2>3. \A p \in Operations \ {o} : ops'[p] = ops[p]
    BY <2>1 DEF OthersKept
  <2> QED
    BY <1>1, <2>2, <2>3, GrowsItself
<1> QED
  BY <1>2, <1>3 DEF Learns

\* What is known of a delivery only grows: KnowledgeGrows, one step.
LEMMA KnowledgeStep ==
  ASSUME RecInv, RecNext
  PROVE  \A p \in Operations : Grows(ops[p].result, ops'[p].result)
<1>0. RecTyped /\ ops \in [Operations -> OpRecs] /\ \A p \in Operations : ops[p].result \in Answerable
  BY DEF RecInv, RecTyped, OpRecs, Answerable
<1>a. {"failed", "completed", "unknown"} \subseteq Statuses
  BY DEF Statuses
<1>1. CASE NewGeneration
  BY <1>0, <1>1, GrowsItself DEF NewGeneration
<1>2. ASSUME NEW t \in Askers, NEW o \in Operations, NEW n, NEW a, Prepare(t, o, n, a)
      PROVE  \A p \in Operations : Grows(ops[p].result, ops'[p].result)
  <2>1. \/ ops' = ops
        \/ /\ ops[o].name = "none"
           /\ \E r : ops' = [ops EXCEPT ![o] = r] /\ r.result = "none"
    <3>1. /\ [NoOp EXCEPT !.name = n, !.target = a, !.revision = chosen.revision + 1].result = "none"
          /\ [NoOp EXCEPT !.name = n, !.target = chosen.selected].result = "none"
      BY DEF NoOp
    <3> QED
      BY <1>2, <3>1 DEF Prepare
  <2>2. ops[o].name = "none" => ops[o].result = "none"
    BY DEF RecInv, KindInv, NoOp
  <2>3. \A p \in Operations : ops'[p].result = ops[p].result
    BY <1>0, <2>1, <2>2
  <2> QED
    BY <1>0, <2>3, GrowsItself
<1>3. ASSUME NEW t \in Askers,
             \/ SendBegins(t) \/ BridgeSends(t) \/ Reconciles(t) \/ TakesReceipt(t) \/ ClaimCommit(t)
             \/ BridgeCommits(t) \/ SelectClaims(t) \/ InspectClaims(t) \/ BridgeSelects(t) \/ Selected(t)
             \/ BridgeInspects(t)
      PROVE  \A p \in Operations : Grows(ops[p].result, ops'[p].result)
  <2>1. asks[t].at # "idle"
    BY <1>3 DEF SendBegins, BridgeSends, Reconciles, TakesReceipt, ClaimCommit, BridgeCommits, SelectClaims,
         InspectClaims, ClaimOne, BridgeSelects, Selected, BridgeInspects
  <2>2. asks[t].op \in Operations
    BY <1>0, <2>1, BusyAsk
  <2>3. TakesReceipt(t) => asks[t].status \in Statuses /\ asks[t].token \in BOOLEAN
    BY <1>0 DEF TakesReceipt, RecTyped, Asks, Plain, Carry
  <2>4. Learns(asks[t].op)
    <3>1. CASE TakesReceipt(t)
      BY <2>3, <3>1 DEF TakesReceipt, Learns
    <3>2. CASE SendBegins(t) \/ SelectClaims(t) \/ InspectClaims(t) \/ ClaimCommit(t)
      BY <1>a, <3>2 DEF SendBegins, SelectClaims, InspectClaims, ClaimOne, ClaimCommit, Learns
    <3>3. CASE BridgeSends(t) \/ Reconciles(t) \/ BridgeCommits(t)
      BY <1>a, <3>3 DEF BridgeSends, Reconciles, BridgeCommits, Superseded, Learns
    <3>4. CASE BridgeSelects(t) \/ Selected(t) \/ BridgeInspects(t)
      BY <1>a, <3>4 DEF BridgeSelects, Selected, BridgeInspects, Learns
    <3> QED
      BY <1>3, <3>1, <3>2, <3>3, <3>4
  <2> QED
    BY <1>0, <2>2, <2>4, LearnsGrows
<1> QED
  BY <1>1, <1>2, <1>3 DEF RecNext

\* The values of the targets and their switches.
Places == {"idle", "joins", "mints", "activates", "answers", "discards", "frees"}
Switches == [at : Places, target : Targets \cup {NoTarget}, stack : Seq(Targets),
             revision : Nat, conn : 0 .. MaxConns, told : BOOLEAN]
TargetRows == [revision : Nat, target : Targets \cup {NoTarget}, conn : 0 .. MaxConns, stack : Seq(Targets),
         pending : SwitchThreads \cup {"none"}, fresh : BOOLEAN]

\* The targets have their types.
TargetTyped ==
  /\ row \in TargetRows /\ switches \in [SwitchThreads -> Switches]
  /\ conns \in 0 .. MaxConns /\ live \in 0 .. conns /\ discarded \subseteq 0 .. conns
  /\ hangups \in Nat /\ Len(row.stack) <= MaxStack

\* The tasks to return to: none without a current one, and no task is its own neighbour.
StackInv ==
  /\ row.target = NoTarget => row.stack = <<>>
  /\ row.stack # <<>> => row.stack[Len(row.stack)] # row.target
  /\ \A i \in 1 .. Len(row.stack) : i > 1 => row.stack[i - 1] # row.stack[i]

\* A target and a stack that one switch leads to.
MovedByOne(target, stack) ==
  \/ target \in Targets /\ stack = Pushed(target)
  \/ row.stack # <<>> /\ target = Last(row.stack) /\ stack = Front(row.stack)

\* A switch that nothing overtook was computed from the row it will replace.
SwitchInv ==
  \A t \in SwitchThreads : switches[t].at \in {"joins", "mints", "activates"} =>
    /\ switches[t].revision <= row.revision
    /\ switches[t].revision = row.revision => MovedByOne(switches[t].target, switches[t].stack)

\* A switch that has opened a connection.
Opened(t) == switches[t].at \in {"mints", "activates", "discards"}

\* A request knows of connections that were opened, and of hangups that happened.
AskInv ==
  \A t \in SwitchThreads : switches[t].conn \in 0 .. conns /\ (switches[t].told => hangups >= 1)

\* A connection belongs to one request until it is served or discarded.
ConnInv ==
  /\ live # 0 => live = row.conn
  /\ \A t \in SwitchThreads : Opened(t) =>
       /\ switches[t].conn \in 1 .. conns /\ switches[t].conn # live
       /\ \A u \in SwitchThreads : Opened(u) /\ switches[u].conn = switches[t].conn => u = t
  /\ hangups <= 1 =>
       /\ live # 0 => live \notin discarded
       /\ \A t \in SwitchThreads : switches[t].at \in {"mints", "activates"} => switches[t].conn \notin discarded

\* The inductive invariant of the targets.
TargetInv == TargetTyped /\ StackInv /\ SwitchInv /\ AskInv /\ ConnInv

\* A switch that goes on changes the fields it names and no other switch.
LEMMA OnwardTo ==
  ASSUME TargetTyped, NEW t \in SwitchThreads, NEW fields, Onward(t, fields)
  PROVE  /\ \A u \in SwitchThreads : u # t => switches'[u] = switches[u]
         /\ switches'[t].at = IF "at" \in DOMAIN fields THEN fields["at"] ELSE switches[t].at
         /\ switches'[t].target = IF "target" \in DOMAIN fields THEN fields["target"] ELSE switches[t].target
         /\ switches'[t].stack = IF "stack" \in DOMAIN fields THEN fields["stack"] ELSE switches[t].stack
         /\ switches'[t].revision = IF "revision" \in DOMAIN fields THEN fields["revision"] ELSE switches[t].revision
         /\ switches'[t].conn = IF "conn" \in DOMAIN fields THEN fields["conn"] ELSE switches[t].conn
         /\ switches'[t].told = IF "told" \in DOMAIN fields THEN fields["told"] ELSE switches[t].told
         /\ (/\ switches'[t].at \in Places /\ switches'[t].target \in Targets \cup {NoTarget}
             /\ switches'[t].stack \in Seq(Targets) /\ switches'[t].revision \in Nat
             /\ switches'[t].conn \in 0 .. MaxConns /\ switches'[t].told \in BOOLEAN)
            => switches' \in [SwitchThreads -> Switches]
<1>1. switches \in [SwitchThreads -> Switches] /\ switches[t] \in Switches
  BY DEF TargetTyped
<1>2. DOMAIN switches[t] = {"at", "target", "stack", "revision", "conn", "told"}
  BY <1>1 DEF Switches
<1> DEFINE r == [f \in {"at", "target", "stack", "revision", "conn", "told"} |->
                   IF f \in DOMAIN fields THEN fields[f] ELSE switches[t][f]]
<1>3. switches' = [switches EXCEPT ![t] = r]
  BY <1>1, <1>2 DEF Onward
<1>4. switches'[t] = r /\ \A u \in SwitchThreads : u # t => switches'[u] = switches[u]
  BY <1>1, <1>3
<1>5. /\ r.at = IF "at" \in DOMAIN fields THEN fields["at"] ELSE switches[t].at
      /\ r.target = IF "target" \in DOMAIN fields THEN fields["target"] ELSE switches[t].target
      /\ r.stack = IF "stack" \in DOMAIN fields THEN fields["stack"] ELSE switches[t].stack
      /\ r.revision = IF "revision" \in DOMAIN fields THEN fields["revision"] ELSE switches[t].revision
      /\ r.conn = IF "conn" \in DOMAIN fields THEN fields["conn"] ELSE switches[t].conn
      /\ r.told = IF "told" \in DOMAIN fields THEN fields["told"] ELSE switches[t].told
  OBVIOUS
<1>6. r = [at |-> r.at, target |-> r.target, stack |-> r.stack, revision |-> r.revision,
           conn |-> r.conn, told |-> r.told]
  OBVIOUS
<1> HIDE DEF r
<1>7. ASSUME r.at \in Places, r.target \in Targets \cup {NoTarget}, r.stack \in Seq(Targets),
             r.revision \in Nat, r.conn \in 0 .. MaxConns, r.told \in BOOLEAN
      PROVE  switches' \in [SwitchThreads -> Switches]
  <2>1. r \in Switches
    BY <1>6, <1>7 DEF Switches
  <2> QED
    BY <1>1, <1>3, <2>1
<1> QED
  BY <1>4, <1>5, <1>7

\* Pushing a target gives a typed stack within its bound, with no target twice in a row.
LEMMA PushedWell ==
  ASSUME TargetTyped, StackInv, NEW target \in Targets
  PROVE  LET st == Pushed(target)
         IN  /\ st \in Seq(Targets) /\ Len(st) <= MaxStack
             /\ st # <<>> => st[Len(st)] # target
             /\ \A i \in 1 .. Len(st) : i > 1 => st[i - 1] # st[i]
<1> DEFINE s == row.stack
<1>1. s \in Seq(Targets) /\ Len(s) <= MaxStack /\ row.target \in Targets \cup {NoTarget} /\ Len(s) \in Nat
  BY DEF TargetTyped, TargetRows
<1>2. /\ row.target = NoTarget => s = <<>>
      /\ s # <<>> => s[Len(s)] # row.target
      /\ \A i \in 1 .. Len(s) : i > 1 => s[i - 1] # s[i]
  BY DEF StackInv
<1>3. CASE row.target \in {NoTarget, target}
  <2>1. Pushed(target) = s
    BY <1>3 DEF Pushed
  <2> QED
    BY <1>1, <1>2, <1>3, <2>1
<1>4. CASE row.target \notin {NoTarget, target}
  <2> DEFINE longer == Append(s, row.target)
             from == IF Len(longer) > MaxStack THEN 2 ELSE 1
             st == SubSeq(longer, from, Len(longer))
  <2>1. Pushed(target) = st
    BY <1>4 DEF Pushed
  <2>2. /\ longer \in Seq(Targets) /\ Len(longer) = Len(s) + 1 /\ longer[Len(s) + 1] = row.target
        /\ \A i \in 1 .. Len(s) : longer[i] = s[i]
    BY <1>1, <1>4
  <2>3. \A i \in 1 .. Len(longer) : i > 1 => longer[i - 1] # longer[i]
    <3> SUFFICES ASSUME NEW i \in 1 .. Len(longer), i > 1 PROVE longer[i - 1] # longer[i]
      OBVIOUS
    <3>1. CASE i = Len(s) + 1
      <4>1. s # <<>> /\ i - 1 = Len(s)
        BY <1>1, <3>1
      <4> QED
        BY <1>1, <1>2, <2>2, <3>1, <4>1
    <3>2. CASE i # Len(s) + 1
      BY <1>1, <1>2, <2>2, <3>2
    <3> QED
      BY <3>1, <3>2
  <2>4. from \in 1 .. 2 /\ from \in Int
    OBVIOUS
  <2> HIDE DEF longer
  <2>5. /\ st \in Seq(Targets) /\ Len(st) = Len(longer) - from + 1
        /\ \A i \in 1 .. Len(st) : st[i] = longer[from + i - 1]
    <3>1. \A i \in from .. Len(longer) : longer[i] \in Targets
      BY <2>2, <2>4
    <3>2. Len(longer) \in Nat /\ from <= Len(longer) + 1
      BY <1>1, <2>2, <2>4
    <3> HIDE DEF from
    <3> QED
      BY <2>2, <2>4, <3>1, <3>2, SubSeqProperties
  <2>6. Len(st) <= MaxStack
    BY <1>1, <2>2, <2>5, TargetAssumption
  <2> HIDE DEF from, st
  <2>7. st # <<>> => st[Len(st)] = row.target
    BY <1>1, <2>2, <2>4, <2>5
  <2>8. \A i \in 1 .. Len(st) : i > 1 => st[i - 1] # st[i]
    <3> SUFFICES ASSUME NEW i \in 1 .. Len(st), i > 1 PROVE st[i - 1] # st[i]
      OBVIOUS
    <3>1. st[i] = longer[from + i - 1] /\ st[i - 1] = longer[(from + i - 1) - 1]
          /\ from + i - 1 \in 1 .. Len(longer) /\ from + i - 1 > 1
      BY <1>1, <2>2, <2>4, <2>5
    <3> QED
      BY <2>3, <3>1
  <2> QED
    BY <1>4, <2>1, <2>5, <2>6, <2>7, <2>8
<1> QED
  BY <1>3, <1>4

\* A stack that moved by one is typed, within its bound and has no target twice in a row.
LEMMA MovedWell ==
  ASSUME TargetTyped, StackInv, NEW target, NEW st, MovedByOne(target, st)
  PROVE  /\ target \in Targets /\ st \in Seq(Targets) /\ Len(st) <= MaxStack
         /\ st # <<>> => st[Len(st)] # target
         /\ \A i \in 1 .. Len(st) : i > 1 => st[i - 1] # st[i]
<1>1. CASE target \in Targets /\ st = Pushed(target)
  BY <1>1, PushedWell
<1>2. CASE row.stack # <<>> /\ target = Last(row.stack) /\ st = Front(row.stack)
  <2> DEFINE s == row.stack
  <2>1. s \in Seq(Targets) /\ Len(s) <= MaxStack /\ Len(s) \in Nat /\ Len(s) > 0
    BY <1>2 DEF TargetTyped, TargetRows
  <2>2. target = s[Len(s)] /\ target \in Targets /\ st = SubSeq(s, 1, Len(s) - 1)
    BY <1>2, <2>1 DEF Last, Front
  <2>3. st \in Seq(Targets) /\ Len(st) = Len(s) - 1 /\ \A i \in 1 .. Len(st) : st[i] = s[i]
    BY <2>1, <2>2
  <2>4. \A i \in 1 .. Len(s) : i > 1 => s[i - 1] # s[i]
    BY DEF StackInv
  <2> HIDE DEF s
  <2>5. st # <<>> => st[Len(st)] # target
    BY <2>1, <2>2, <2>3, <2>4
  <2> QED
    BY <2>1, <2>2, <2>3, <2>4, <2>5, TargetAssumption
<1> QED
  BY <1>1, <1>2 DEF MovedByOne

\* The row of the target stays as it was.
RowStands == /\ row'.revision = row.revision /\ row'.target = row.target
             /\ row'.stack = row.stack /\ row'.conn = row.conn

\* What is said of a stack stands while the row does.
LEMMA StacksStand ==
  ASSUME TargetInv, RowStands
  PROVE  /\ StackInv'
         /\ \A g, st : MovedByOne(g, st)' <=> MovedByOne(g, st)
BY DEF TargetInv, RowStands, StackInv, MovedByOne, Pushed

\* A switch that goes on as it was, or one that waits no more.
LEMMA SwitchesStand ==
  ASSUME TargetInv, RowStands,
         \A t \in SwitchThreads : switches'[t].at \in {"joins", "mints", "activates"} =>
           \/ /\ switches[t].at \in {"joins", "mints", "activates"}
              /\ switches'[t].revision = switches[t].revision
              /\ switches'[t].target = switches[t].target /\ switches'[t].stack = switches[t].stack
           \/ /\ switches'[t].revision = row.revision
              /\ MovedByOne(switches'[t].target, switches'[t].stack)
  PROVE  SwitchInv'
<1>1. row.revision \in Nat /\ row'.revision = row.revision
  BY DEF TargetInv, TargetTyped, TargetRows, RowStands
<1> QED
  BY <1>1, StacksStand DEF TargetInv, SwitchInv

\* Reserving a switch keeps the invariant of the targets.
LEMMA ReserveKept ==
  ASSUME TargetInv, NEW t \in SwitchThreads, Reserve(t)
  PROVE  TargetInv'
<1> USE DEF TargetInv
<1>1. PICK g, st : MovedByOne(g, st) /\ Take(t, g, st)
  BY DEF Reserve, MovedByOne
<1> DEFINE to == [at |-> "joins", target |-> g, stack |-> st, revision |-> row.revision,
                  conn |-> 0, told |-> FALSE]
<1>2. /\ switches[t].at = "idle" /\ Onward(t, to) /\ row' = [row EXCEPT !.pending = t, !.fresh = TRUE]
      /\ UNCHANGED <<live, discarded, holder, conns, hangups, refusals>>
  BY <1>1 DEF Reserve, Take
<1>3. row \in TargetRows /\ row.revision \in Nat
  BY DEF TargetTyped, TargetRows
<1>4. row' \in TargetRows /\ RowStands
  <2> DEFINE up == [row EXCEPT !.pending = t]
  <2>1. row' = [up EXCEPT !.fresh = TRUE]
    BY <1>2, <1>3
  <2>2. up \in TargetRows /\ up.revision = row.revision /\ up.target = row.target /\ up.stack = row.stack
        /\ up.conn = row.conn
    BY <1>3 DEF TargetRows
  <2> HIDE DEF up
  <2> QED
    BY <2>1, <2>2 DEF TargetRows, RowStands
<1>5. g \in Targets /\ st \in Seq(Targets)
  BY <1>1, MovedWell
<1>6. /\ \A u \in SwitchThreads : u # t => switches'[u] = switches[u]
      /\ switches'[t].at = "joins" /\ switches'[t].target = g /\ switches'[t].stack = st
      /\ switches'[t].revision = row.revision /\ switches'[t].conn = 0 /\ switches'[t].told = FALSE
      /\ switches' \in [SwitchThreads -> Switches]
  <2>1. DOMAIN to = {"at", "target", "stack", "revision", "conn", "told"}
    OBVIOUS
  <2> HIDE DEF to
  <2>2. /\ \A u \in SwitchThreads : u # t => switches'[u] = switches[u]
        /\ switches'[t].at = "joins" /\ switches'[t].target = g /\ switches'[t].stack = st
        /\ switches'[t].revision = row.revision /\ switches'[t].conn = 0 /\ switches'[t].told = FALSE
    BY <1>2, <2>1, OnwardTo DEF to
  <2>3. 0 \in 0 .. MaxConns
    BY TargetAssumption
  <2> QED
    BY <1>2, <1>3, <1>5, <2>2, <2>3, OnwardTo DEF Places
<1>7. TargetTyped'
  BY <1>2, <1>4, <1>6 DEF TargetTyped, RowStands
<1>8. SwitchInv'
  BY <1>1, <1>4, <1>6, SwitchesStand
<1>9. ConnInv'
  BY <1>2, <1>4, <1>6 DEF ConnInv, Opened, RowStands
<1>10. AskInv'
  BY <1>2, <1>6 DEF AskInv, TargetTyped
<1> QED
  BY <1>4, <1>7, <1>8, <1>9, <1>10, StacksStand

\* A joining connection keeps it.
LEMMA JoinsKept ==
  ASSUME TargetInv, NEW t \in SwitchThreads, Joins(t)
  PROVE  TargetInv'
<1> USE DEF TargetInv
<1>1. /\ switches[t].at = "joins" /\ conns < MaxConns /\ conns' = conns + 1
      /\ Onward(t, [at |-> "mints", conn |-> conns + 1])
      /\ UNCHANGED <<row, live, discarded, hangups, refusals>>
  BY DEF Joins
<1>2. /\ conns \in Nat /\ conns + 1 \in 0 .. MaxConns /\ conns' \in 0 .. MaxConns
      /\ live \in 0 .. conns /\ discarded \subseteq 0 .. conns
  BY <1>1, TargetAssumption DEF TargetTyped
<1>3. RowStands
  BY <1>1 DEF RowStands
<1>4. /\ \A u \in SwitchThreads : u # t => switches'[u] = switches[u]
      /\ switches'[t].at = "mints" /\ switches'[t].target = switches[t].target
      /\ switches'[t].stack = switches[t].stack /\ switches'[t].revision = switches[t].revision
      /\ switches'[t].conn = conns + 1 /\ switches'[t].told = switches[t].told
      /\ switches' \in [SwitchThreads -> Switches]
  <2>1. DOMAIN [at |-> "mints", conn |-> conns + 1] = {"at", "conn"}
    OBVIOUS
  <2>2. switches[t] \in Switches
    BY DEF TargetTyped
  <2> QED
    BY <1>1, <1>2, <2>1, <2>2, OnwardTo DEF Places, Switches
<1>5. TargetTyped'
  BY <1>1, <1>2, <1>4, TargetAssumption DEF TargetTyped
<1>6. SwitchInv'
  BY <1>1, <1>3, <1>4, SwitchesStand
<1>7. ConnInv'
  <2>1. \A u \in SwitchThreads : u # t /\ Opened(u) =>
          switches[u].conn \in 1 .. conns /\ switches[u].conn # conns + 1
    BY <1>2 DEF ConnInv
  <2>2. conns + 1 # live /\ conns + 1 \notin discarded
    BY <1>2
  <2>3. \A u \in SwitchThreads : Opened(u)' => u = t \/ Opened(u)
    BY <1>4 DEF Opened
  <2>4. \A u \in SwitchThreads : Opened(u)' =>
          /\ switches'[u].conn \in 1 .. conns' /\ switches'[u].conn # live'
          /\ \A v \in SwitchThreads : Opened(v)' /\ switches'[v].conn = switches'[u].conn => v = u
    BY <1>1, <1>2, <1>4, <2>1, <2>2, <2>3 DEF ConnInv
  <2> QED
    BY <1>1, <1>4, <2>2, <2>4 DEF ConnInv
<1>8. AskInv'
  BY <1>1, <1>2, <1>4 DEF AskInv
<1> QED
  BY <1>3, <1>5, <1>6, <1>7, <1>8, StacksStand

\* A switch of its connection that goes on, or stops short of the activation.
\* The request t is at a place, told of a hangup, and what it prepared is as it was.
WentOn(t, place, told) ==
  /\ \A u \in SwitchThreads : u # t => switches'[u] = switches[u]
  /\ switches'[t].at = place /\ switches'[t].told = told
  /\ switches'[t].target = switches[t].target /\ switches'[t].stack = switches[t].stack
  /\ switches'[t].revision = switches[t].revision /\ switches'[t].conn = switches[t].conn
  /\ switches' \in [SwitchThreads -> Switches]

\* A switch that goes on changes its place or what it was told, and nothing else.
LEMMA OnwardInPlace ==
  ASSUME TargetTyped, NEW t \in SwitchThreads, NEW place \in Places
  PROVE  /\ Onward(t, [at |-> place]) => WentOn(t, place, switches[t].told)
         /\ Onward(t, [told |-> TRUE]) => WentOn(t, switches[t].at, TRUE)
         /\ Onward(t, [at |-> place, told |-> TRUE]) => WentOn(t, place, TRUE)
<1>1. /\ switches[t].at \in Places /\ switches[t].target \in Targets \cup {NoTarget}
      /\ switches[t].stack \in Seq(Targets) /\ switches[t].revision \in Nat
      /\ switches[t].conn \in 0 .. MaxConns /\ switches[t].told \in BOOLEAN
  BY DEF TargetTyped, Switches
<1>3. ASSUME Onward(t, [at |-> place])
      PROVE  WentOn(t, place, switches[t].told)
  <2> DEFINE fields == [at |-> place]
  <2>1. DOMAIN fields = {"at"} /\ fields["at"] = place
    OBVIOUS
  <2> HIDE DEF fields
  <2>2. Onward(t, fields)
    BY <1>3 DEF fields
  <2> QED
    BY <1>1, <2>1, <2>2, OnwardTo DEF WentOn
<1>4. ASSUME Onward(t, [told |-> TRUE])
      PROVE  WentOn(t, switches[t].at, TRUE)
  <2> DEFINE fields == [told |-> TRUE]
  <2>1. DOMAIN fields = {"told"} /\ fields["told"] = TRUE
    OBVIOUS
  <2> HIDE DEF fields
  <2>2. Onward(t, fields)
    BY <1>4 DEF fields
  <2> QED
    BY <1>1, <2>1, <2>2, OnwardTo DEF WentOn
<1>5. ASSUME Onward(t, [at |-> place, told |-> TRUE])
      PROVE  WentOn(t, place, TRUE)
  <2> DEFINE fields == [at |-> place, told |-> TRUE]
  <2>1. DOMAIN fields = {"at", "told"} /\ fields["at"] = place /\ fields["told"] = TRUE
    OBVIOUS
  <2> HIDE DEF fields
  <2>2. Onward(t, fields)
    BY <1>5 DEF fields
  <2> QED
    BY <1>1, <2>1, <2>2, OnwardTo DEF WentOn
<1> QED
  BY <1>3, <1>4, <1>5

\* A switch that goes on without touching the row keeps the invariant.
LEMMA SwitchGoesOn ==
  ASSUME TargetInv, NEW t \in SwitchThreads, NEW place, NEW told, WentOn(t, place, told),
         \/ place = switches[t].at
         \/ switches[t].at = "joins" /\ place = "frees"
         \/ switches[t].at = "mints" /\ place \in {"activates", "discards"}
         \/ switches[t].at = "activates" /\ place = "discards"
         \/ switches[t].at = "discards" /\ place = "frees",
         told = switches[t].told \/ hangups' >= 1,
         hangups' \in Nat, hangups' >= hangups, row' = row, live' = live, conns' = conns,
         \/ discarded' = discarded
         \/ /\ discarded' = discarded \cup {switches[t].conn}
            /\ switches[t].at = "discards" \/ hangups' >= 2,
         discarded' \subseteq 0 .. conns
  PROVE  TargetInv' /\ RowStands
<1> USE DEF TargetInv
<1>1. RowStands
  BY DEF RowStands
<1>2. hangups \in Nat
  BY DEF TargetTyped
<1>3. /\ \A u \in SwitchThreads : u # t => switches'[u] = switches[u]
      /\ switches'[t].at = place /\ switches'[t].target = switches[t].target
      /\ switches'[t].stack = switches[t].stack /\ switches'[t].revision = switches[t].revision
      /\ switches'[t].conn = switches[t].conn
      /\ switches'[t].told => switches[t].told \/ hangups' >= 1
      /\ switches' \in [SwitchThreads -> Switches]
  BY DEF WentOn
<1>4. place \in {"mints", "activates", "discards"} => Opened(t)
  BY DEF Opened
<1>5. TargetTyped'
  BY <1>3 DEF TargetTyped
<1>6. SwitchInv'
  <2>1. switches'[t].at \in {"joins", "mints", "activates"} => switches[t].at \in {"joins", "mints", "activates"}
    BY <1>3
  <2> QED
    BY <1>1, <1>3, <2>1, SwitchesStand
<1>7. ConnInv'
  <2>1. \A u \in SwitchThreads : switches'[u].conn = switches[u].conn /\ (Opened(u)' => Opened(u))
    BY <1>3, <1>4 DEF Opened
  <2>3. \A u \in SwitchThreads : switches'[u].at \in {"mints", "activates"} =>
          switches[u].at \in {"mints", "activates"}
    BY <1>3
  <2>4. ASSUME hangups' <= 1
        PROVE  /\ live # 0 => live \notin discarded'
               /\ \A u \in SwitchThreads : switches'[u].at \in {"mints", "activates"} =>
                     switches'[u].conn \notin discarded'
    <3>1. hangups <= 1
      BY <1>2, <2>4
    <3>2. CASE discarded' = discarded
      BY <2>1, <2>3, <3>1, <3>2 DEF ConnInv
    <3>3. CASE discarded' = discarded \cup {switches[t].conn} /\ switches[t].at = "discards"
      <4>1. switches[t].conn # live /\ Opened(t)
        BY <3>3 DEF ConnInv, Opened
      <4>2. \A u \in SwitchThreads : switches[u].at \in {"mints", "activates"} =>
              switches[u].conn # switches[t].conn
        BY <3>3, <4>1 DEF ConnInv, Opened
      <4> QED
        BY <2>1, <2>3, <3>1, <3>3, <4>1, <4>2 DEF ConnInv
    <3> QED
      BY <2>4, <3>2, <3>3
  <2> QED
    BY <2>1, <2>4 DEF ConnInv
<1>8. AskInv'
  BY <1>2, <1>3 DEF AskInv
<1> QED
  BY <1>1, <1>5, <1>6, <1>7, <1>8, StacksStand

\* activate_target keeps the invariant, and moves the stack by one.
LEMMA ActivateKept ==
  ASSUME TargetInv, NEW t \in SwitchThreads, ActivateTarget(t)
  PROVE  /\ TargetInv'
         /\ row'.revision # row.revision => MovedByOne(row'.target, row'.stack)
<1> USE DEF TargetInv
<1>1. switches[t].at = "activates" /\ UNCHANGED <<conns, hangups, refusals>>
  BY DEF ActivateTarget
<1>2. CASE Onward(t, [at |-> "discards"]) /\ UNCHANGED <<row, live, discarded, holder>>
  <2>1. WentOn(t, "discards", switches[t].told)
    BY <1>2, OnwardInPlace DEF Places
  <2>2. hangups \in Nat /\ discarded \subseteq 0 .. conns
    BY DEF TargetTyped
  <2> QED
    BY <1>1, <1>2, <2>1, <2>2, SwitchGoesOn
<1>3. ASSUME /\ Same(t)
             /\ row' = [revision |-> row.revision + 1, target |-> switches[t].target, conn |-> switches[t].conn,
                        stack |-> switches[t].stack, pending |-> "none", fresh |-> FALSE]
             /\ discarded' = discarded \union (IF live = 0 THEN {} ELSE {live})
             /\ live' = switches[t].conn /\ Onward(t, [at |-> "answers"])
      PROVE  /\ TargetInv'
             /\ row'.revision # row.revision => MovedByOne(row'.target, row'.stack)
  <2>1. switches[t] \in Switches /\ row \in TargetRows /\ row.revision \in Nat
    BY DEF TargetTyped, TargetRows
  <2>2. MovedByOne(switches[t].target, switches[t].stack)
    BY <1>1, <1>3 DEF SwitchInv, Same
  <2>3. /\ switches[t].target \in Targets /\ switches[t].stack \in Seq(Targets)
        /\ Len(switches[t].stack) <= MaxStack
        /\ switches[t].stack # <<>> => switches[t].stack[Len(switches[t].stack)] # switches[t].target
        /\ \A i \in 1 .. Len(switches[t].stack) : i > 1 =>
              switches[t].stack[i - 1] # switches[t].stack[i]
    BY <2>2, MovedWell
  <2>4. /\ switches[t].conn \in 1 .. conns /\ switches[t].conn # live /\ Opened(t)
        /\ hangups <= 1 => switches[t].conn \notin discarded
    BY <1>1 DEF ConnInv, Opened
  <2>5. /\ \A u \in SwitchThreads : u # t => switches'[u] = switches[u]
        /\ switches'[t].at = "answers" /\ switches'[t].told = switches[t].told
        /\ switches'[t].conn = switches[t].conn
        /\ switches' \in [SwitchThreads -> Switches]
    <3>1. DOMAIN [at |-> "answers"] = {"at"}
      OBVIOUS
    <3> QED
      BY <1>3, <2>1, <3>1, OnwardTo DEF Places, Switches
  <2>6. /\ row'.revision = row.revision + 1 /\ row'.target = switches[t].target
        /\ row'.conn = switches[t].conn /\ row'.stack = switches[t].stack
    BY <1>3
  <2>7. TargetTyped'
    <3>1. row' \in TargetRows
      BY <1>3, <2>1, <2>3 DEF TargetRows, Switches
    <3>2. discarded' \subseteq 0 .. conns /\ live' \in 0 .. conns
      BY <1>3, <2>4 DEF TargetTyped
    <3> QED
      BY <1>1, <2>3, <2>5, <2>6, <3>1, <3>2 DEF TargetTyped
  <2>8. StackInv'
    BY <2>3, <2>6, TargetAssumption DEF StackInv
  <2>9. SwitchInv'
    <3>1. \A u \in SwitchThreads : switches'[u].at \in {"joins", "mints", "activates"} =>
            u # t /\ switches'[u] = switches[u] /\ switches[u].revision <= row.revision
            /\ switches[u].revision \in Nat
      BY <2>5 DEF SwitchInv, TargetTyped, Switches
    <3> QED
      BY <2>1, <2>6, <3>1 DEF SwitchInv
  <2>10. ConnInv'
    <3>1. \A u \in SwitchThreads : Opened(u)' => u # t /\ switches'[u] = switches[u] /\ Opened(u)
      BY <2>5 DEF Opened
    <3>2. \A u \in SwitchThreads : Opened(u)' =>
            /\ switches'[u].conn \in 1 .. conns' /\ switches'[u].conn # live'
            /\ \A v \in SwitchThreads : Opened(v)' /\ switches'[v].conn = switches'[u].conn => v = u
      BY <1>1, <1>3, <2>4, <3>1 DEF ConnInv
    <3>4. ASSUME hangups' <= 1
          PROVE  /\ live' # 0 => live' \notin discarded'
                 /\ \A u \in SwitchThreads : switches'[u].at \in {"mints", "activates"} =>
                       switches'[u].conn \notin discarded'
      <4>1. switches[t].conn \notin discarded'
        BY <1>1, <1>3, <2>4, <3>4
      <4>2. \A u \in SwitchThreads : switches'[u].at \in {"mints", "activates"} =>
              /\ Opened(u) /\ switches'[u] = switches[u] /\ switches[u].conn # live
              /\ switches[u].conn \notin discarded
        BY <1>1, <2>5, <3>4 DEF ConnInv, Opened
      <4> QED
        BY <1>3, <4>1, <4>2
    <3> QED
      BY <1>3, <2>6, <3>2, <3>4 DEF ConnInv
  <2>11. AskInv'
    BY <1>1, <2>5 DEF AskInv
  <2> QED
    BY <2>2, <2>6, <2>7, <2>8, <2>9, <2>10, <2>11
<1> QED
  BY <1>2, <1>3 DEF ActivateTarget

\* What ends, ends a switch.
LEMMA EndsIt ==
  ASSUME TargetInv, switches' = [t \in SwitchThreads |-> switches'[t]],
         \A t \in SwitchThreads : switches'[t] \in {NoSwitch, switches[t]},
         row' \in TargetRows, RowStands, live' \in {0, live},
         discarded' = discarded, conns' = conns, hangups' = hangups
  PROVE  TargetInv'
<1> USE DEF TargetInv
<1>1. NoSwitch \in Switches
  <2>1. <<>> \in Seq(Targets) /\ 0 \in 0 .. MaxConns
    BY TargetAssumption
  <2> QED
    BY <2>1 DEF NoSwitch, Switches, Places
<1>2. \A t \in SwitchThreads : \/ switches'[t].at = "idle" /\ ~switches'[t].told /\ switches'[t].conn = 0
                               \/ switches'[t] = switches[t]
  BY DEF NoSwitch
<1>3. TargetTyped'
  <2>1. switches' \in [SwitchThreads -> Switches]
    BY <1>1 DEF TargetTyped
  <2> QED
    BY <2>1 DEF TargetTyped, RowStands
<1>4. SwitchInv'
  BY <1>2, SwitchesStand
<1>5. ConnInv'
  <2>1. \A t \in SwitchThreads : Opened(t)' => switches'[t] = switches[t] /\ Opened(t)
    BY <1>2 DEF Opened
  <2> QED
    BY <1>2, <2>1 DEF ConnInv, RowStands
<1>6. AskInv'
  BY <1>2 DEF AskInv, NoSwitch, TargetTyped
<1> QED
  BY <1>3, <1>4, <1>5, <1>6, StacksStand

\* Every step of the targets keeps the invariant and moves the stack by one at most.
LEMMA TargetStepKept ==
  ASSUME TargetInv, TargetNext
  PROVE  /\ TargetInv'
         /\ row'.revision # row.revision => MovedByOne(row'.target, row'.stack)
<1>0. /\ hangups \in Nat /\ conns \in Nat /\ live \in 0 .. conns /\ discarded \subseteq 0 .. conns
      /\ row \in TargetRows /\ switches \in [SwitchThreads -> Switches]
  BY TargetAssumption DEF TargetInv, TargetTyped
<1>1. CASE Lapses
  <2>1. row' = [row EXCEPT !.fresh = FALSE]
        /\ UNCHANGED <<live, discarded, holder, conns, switches, hangups>>
    BY <1>1 DEF Lapses
  <2>2. row' \in TargetRows /\ RowStands
    BY <1>0, <2>1 DEF TargetRows, RowStands
  <2>3. switches' = [t \in SwitchThreads |-> switches'[t]] /\ \A t \in SwitchThreads : switches'[t] = switches[t]
    BY <1>0, <2>1
  <2> QED
    BY <2>1, <2>2, <2>3, EndsIt DEF RowStands
<1>2. CASE Restart
  <2>1. live' = 0 /\ switches' = [t \in SwitchThreads |-> NoSwitch]
        /\ UNCHANGED <<row, discarded, holder, conns, hangups>>
    BY <1>2 DEF Restart
  <2>2. switches' = [t \in SwitchThreads |-> switches'[t]] /\ \A t \in SwitchThreads : switches'[t] = NoSwitch
    BY <2>1
  <2> QED
    BY <1>0, <2>1, <2>2, EndsIt DEF RowStands
<1>3. ASSUME NEW t \in SwitchThreads, AnswerSwitch(t) \/ Cancel(t)
      PROVE  TargetInv' /\ RowStands
  <2>1. /\ switches' = [switches EXCEPT ![t] = NoSwitch]
        /\ row' \in {row, [[row EXCEPT !.pending = "none"] EXCEPT !.fresh = FALSE]}
        /\ UNCHANGED <<live, discarded, holder, conns, hangups>>
    BY <1>0, <1>3 DEF AnswerSwitch, Cancel
  <2>2. [row EXCEPT !.pending = "none"] \in TargetRows
    BY <1>0 DEF TargetRows
  <2>3. row' \in TargetRows /\ RowStands
    BY <1>0, <2>1, <2>2 DEF TargetRows, RowStands
  <2>4. switches' = [u \in SwitchThreads |-> switches'[u]]
        /\ \A u \in SwitchThreads : switches'[u] \in {NoSwitch, switches[u]}
    BY <1>0, <2>1
  <2> QED
    BY <2>1, <2>3, <2>4, EndsIt
<1>4. ASSUME NEW t \in SwitchThreads, NEW place, Onward(t, [at |-> place]),
             row' = row, live' = live, conns' = conns, hangups' = hangups,
             \/ switches[t].at = "joins" /\ place = "frees"
             \/ switches[t].at = "mints" /\ place \in {"activates", "discards"}
             \/ switches[t].at = "activates" /\ place = "discards"
             \/ switches[t].at = "discards" /\ place = "frees",
             \/ discarded' = discarded
             \/ switches[t].at = "discards" /\ discarded' = discarded \cup {switches[t].conn}
      PROVE  TargetInv' /\ RowStands
  <2>1. place \in Places
    BY <1>4 DEF Places
  <2>2. WentOn(t, place, switches[t].told)
    BY <1>4, <2>1, OnwardInPlace DEF TargetInv
  <2>3. discarded' \subseteq 0 .. conns
    <3>1. switches[t].conn \in 0 .. conns
      BY <1>0 DEF TargetInv, AskInv
    <3>2. CASE discarded' = discarded
      BY <1>0, <3>2
    <3>3. CASE discarded' = discarded \cup {switches[t].conn}
      BY <1>0, <3>1, <3>3
    <3> QED
      BY <1>4, <3>2, <3>3
  <2> QED
    BY <1>0, <1>4, <2>2, <2>3, SwitchGoesOn
<1>5. ASSUME NEW t \in SwitchThreads, RouteChanged(t)
      PROVE  TargetInv' /\ RowStands
  <2> DEFINE place == IF switches[t].at = "joins" THEN "frees" ELSE "discards"
  <2>1. /\ switches[t].at \in {"joins", "activates"} /\ Onward(t, [at |-> place])
        /\ UNCHANGED <<row, live, discarded, holder, conns, hangups>>
    BY <1>5 DEF RouteChanged
  <2> QED
    BY <1>4, <2>1
<1>6. ASSUME NEW t \in SwitchThreads, Mints(t)
      PROVE  TargetInv' /\ RowStands
  BY <1>4, <1>6 DEF Mints
<1>7. ASSUME NEW t \in SwitchThreads, Discard(t)
      PROVE  TargetInv' /\ RowStands
  BY <1>4, <1>7 DEF Discard
<1>8. ASSUME NEW t \in SwitchThreads, Hangup(t)
      PROVE  TargetInv' /\ RowStands
  <2>1. /\ hangups' = hangups + 1 /\ hangups' \in Nat /\ hangups' >= 1 /\ hangups' >= hangups
        /\ row' = row /\ live' = live /\ discarded' = discarded /\ conns' = conns
    BY <1>0, <1>8 DEF Hangup, HangsUp
  <2>2. CASE switches[t].at = "mints" /\ Onward(t, [at |-> "discards", told |-> TRUE])
    <3>1. WentOn(t, "discards", TRUE)
      BY <2>2, OnwardInPlace DEF TargetInv, Places
    <3> QED
      BY <1>0, <2>1, <2>2, <3>1, SwitchGoesOn
  <2>3. CASE Onward(t, [told |-> TRUE])
    <3>1. WentOn(t, switches[t].at, TRUE)
      BY <2>3, OnwardInPlace DEF TargetInv, Places
    <3> QED
      BY <1>0, <2>1, <3>1, SwitchGoesOn
  <2> QED
    BY <1>8, <2>2, <2>3 DEF Hangup, Heeds
<1>9. ASSUME NEW t \in SwitchThreads, HangupAgain(t)
      PROVE  TargetInv' /\ RowStands
  <2>1. /\ hangups' = hangups + 1 /\ UNCHANGED <<row, live, conns, refusals>> /\ switches[t].told
        /\ discarded' = discarded \cup {switches[t].conn} /\ Onward(t, [told |-> TRUE])
        /\ row' = row /\ live' = live /\ conns' = conns
    BY <1>9 DEF HangupAgain, HangsUp
  <2>2. WentOn(t, switches[t].at, TRUE)
    BY <2>1, OnwardInPlace DEF TargetInv, Places
  <2>3. hangups' >= 2 /\ hangups' \in Nat /\ hangups' >= hangups
    BY <1>0, <2>1 DEF TargetInv, AskInv
  <2>4. discarded' \subseteq 0 .. conns
    BY <1>0, <2>1 DEF TargetInv, AskInv
  <2> QED
    BY <1>0, <2>1, <2>2, <2>3, <2>4, SwitchGoesOn
<1>10. ASSUME NEW t \in SwitchThreads, Reserve(t) \/ Joins(t)
       PROVE  TargetInv' /\ row'.revision = row.revision
  <2>1. TargetInv'
    BY <1>10, ReserveKept, JoinsKept
  <2> QED
    BY <1>0, <1>10, <2>1 DEF Reserve, Take, Joins, TargetRows
<1> QED
  BY <1>1, <1>2, <1>3, <1>5, <1>6, <1>7, <1>8, <1>9, <1>10, ActivateKept DEF TargetNext, RowStands, Lapses, Restart

\* The targets start in the invariant.
LEMMA TargetStarts ==
  ASSUME TargetInit
  PROVE  TargetInv
<1> USE DEF TargetInit
<1>1. 0 \in 0 .. MaxConns /\ 0 \in 0 .. 0 /\ <<>> \in Seq(Targets) /\ Len(<<>>) = 0 /\ 0 <= MaxStack
  BY TargetAssumption
<1>2. TargetTyped
  BY <1>1 DEF TargetTyped, TargetRows, Switches, Places, NoSwitch
<1>3. StackInv /\ SwitchInv
  BY <1>1 DEF StackInv, SwitchInv, NoSwitch
<1>4. ConnInv /\ AskInv
  BY <1>1 DEF ConnInv, AskInv, Opened, NoSwitch
<1> QED
  BY <1>2, <1>3, <1>4 DEF TargetInv

\* The invariant of the targets gives what the run checks of them.
LEMMA TargetInvIsEnough ==
  ASSUME TargetInv
  PROVE  TargetSafe
<1>1. /\ row \in TargetRows /\ conns \in 0 .. MaxConns /\ live \in 0 .. conns /\ Len(row.stack) <= MaxStack
  BY DEF TargetInv, TargetTyped
<1>2. TargetTypeOK
  BY <1>1, TargetAssumption DEF TargetTypeOK, TargetRows
<1>3. LiveIsSelected /\ SelectedIsOpen
  BY DEF TargetInv, ConnInv, LiveIsSelected, SelectedIsOpen
<1>4. ReturnGoesElsewhere
  BY DEF TargetInv, StackInv, ReturnGoesElsewhere, Last
<1> QED
  BY <1>2, <1>3, <1>4 DEF TargetSafe

\* The values of an interaction.
Progresses == [original : {"pending", "saved"}, attempted : Nat, finished : Nat]
Reports == [at : {"idle"}]
           \cup [at : {"persist", "flush", "link", "finish", "finals", "over"}, generation : Nat,
                 recover : BOOLEAN, finish : BOOLEAN, seen : Progresses, todo : SUBSET Asked]
AnswerRecs == [status : {"none", "started", "completed", "failed"}, previous : Asked \cup {"none"},
               calls : SUBSET {Call}, final : BOOLEAN, saved : BOOLEAN]
InterRecs == [staged : BOOLEAN, state : {"none", "staged", "incomplete", "pending", "saved", "execution_linked"},
              original : {"pending", "saved"}, attempted : Nat, finished : Nat,
              settled : Asked \cup {"none"}, answers : [Asked -> AnswerRecs]]

\* The interaction has its types.
InterTyped ==
  /\ inter \in InterRecs /\ reports \in [Reporters -> Reports] /\ canon \subseteq Asked \cup {"user"}
  /\ link \in [generation : Nat, trouble : Nat]

\* What a request has read is still so, and one that writes finals has a settled record.
Told(t) ==
  reports[t].at # "idle" =>
    /\ reports[t].seen.original = "saved" => inter.original = "saved"
    /\ reports[t].finish => inter.settled # "none"
    /\ reports[t].at \in {"finish", "finals"} => reports[t].finish
    /\ reports[t].at = "finals" => inter.original = "saved" /\ Finals \ reports[t].todo \subseteq canon
\* What each report was told is so.
ReportInv == \A t \in Reporters : Told(t)

\* A record that is shown as saved is settled, so nothing is added to it.
SavedInv == inter.state \in {"saved", "execution_linked"} => inter.settled # "none"

\* The inductive invariant of an interaction.
InterInv == InterTyped /\ ReportInv /\ SavedInv /\ UserFirst /\ SavedIsThere /\ SettledIsWhole

\* A report under way has the fields of a report.
LEMMA BusyReport ==
  ASSUME InterTyped, NEW t \in Reporters, reports[t].at # "idle"
  PROVE  /\ reports[t] \in [at : {"persist", "flush", "link", "finish", "finals", "over"}, generation : Nat,
                            recover : BOOLEAN, finish : BOOLEAN, seen : Progresses, todo : SUBSET Asked]
         /\ DOMAIN reports[t] = {"at", "generation", "recover", "finish", "seen", "todo"}
BY DEF InterTyped, Reports

\* The other requests stay as they are.
ReportsBut(t) == \A u \in Reporters : u # t => reports'[u] = reports[u]

\* A report that replaces another leaves the others as they were.
LEMMA ReportSet ==
  ASSUME InterTyped, NEW t \in Reporters, NEW r \in Reports, reports' = [reports EXCEPT ![t] = r]
  PROVE  reports' \in [Reporters -> Reports] /\ ReportsBut(t) /\ reports'[t] = r
BY DEF InterTyped, ReportsBut

\* A report that ends leaves its thread idle.
LEMMA EndsSo ==
  ASSUME InterTyped, NEW t \in Reporters, Ends0(t)
  PROVE  reports' \in [Reporters -> Reports] /\ ReportsBut(t) /\ reports'[t].at = "idle"
<1>1. Quiet0 \in Reports /\ Quiet0.at = "idle"
  BY DEF Quiet0, Reports
<1> QED
  BY <1>1, ReportSet DEF Ends0

\* What a request has become.
Became(t, at, seen, todo) ==
  /\ reports' \in [Reporters -> Reports] /\ ReportsBut(t)
  /\ reports'[t].at = at /\ reports'[t].seen = seen /\ reports'[t].todo = todo
  /\ reports'[t].finish = reports[t].finish

\* A report changes the fields it names and keeps the others.
LEMMA BecomesSo ==
  ASSUME InterTyped, NEW t \in Reporters, reports[t].at # "idle", NEW fields, To(t, fields),
         DOMAIN fields \subseteq {"at", "seen", "todo"},
         NEW at, NEW seen, NEW todo,
         at = (IF "at" \in DOMAIN fields THEN fields["at"] ELSE reports[t].at),
         seen = (IF "seen" \in DOMAIN fields THEN fields["seen"] ELSE reports[t].seen),
         todo = (IF "todo" \in DOMAIN fields THEN fields["todo"] ELSE reports[t].todo),
         at \in {"persist", "flush", "link", "finish", "finals", "over"}, seen \in Progresses, todo \in SUBSET Asked
  PROVE  Became(t, at, seen, todo)
<1>1. /\ reports \in [Reporters -> Reports]
      /\ reports[t] \in [at : {"persist", "flush", "link", "finish", "finals", "over"}, generation : Nat,
                         recover : BOOLEAN, finish : BOOLEAN, seen : Progresses, todo : SUBSET Asked]
      /\ DOMAIN reports[t] = {"at", "generation", "recover", "finish", "seen", "todo"}
  BY BusyReport DEF InterTyped
<1> DEFINE r == [f \in {"at", "generation", "recover", "finish", "seen", "todo"} |->
                   IF f \in DOMAIN fields THEN fields[f] ELSE reports[t][f]]
<1>2. reports' = [reports EXCEPT ![t] = r]
  BY <1>1 DEF To
<1>3. r.at = at /\ r.seen = seen /\ r.todo = todo
  OBVIOUS
<1>4. r.generation = reports[t].generation /\ r.recover = reports[t].recover /\ r.finish = reports[t].finish
  OBVIOUS
<1>5. r = [at |-> r.at, generation |-> r.generation, recover |-> r.recover, finish |-> r.finish,
           seen |-> r.seen, todo |-> r.todo]
  OBVIOUS
<1> HIDE DEF r
<1>6. r \in Reports
  BY <1>1, <1>3, <1>4, <1>5 DEF Reports
<1> QED
  BY <1>2, <1>3, <1>4, <1>6, ReportSet DEF Became

\* A report that goes to a place keeps what it saw and what it has to do.
LEMMA GoesToPlace ==
  ASSUME InterTyped, NEW t \in Reporters, reports[t].at # "idle",
         NEW at \in {"persist", "flush", "link", "finish", "finals", "over"}, To(t, [at |-> at])
  PROVE  Became(t, at, reports[t].seen, reports[t].todo)
<1> DEFINE fields == [at |-> at]
<1>1. DOMAIN fields = {"at"} /\ fields["at"] = at
  OBVIOUS
<1> HIDE DEF fields
<1>2. To(t, fields)
  BY DEF fields
<1>3. reports[t].seen \in Progresses /\ reports[t].todo \in SUBSET Asked
  BY BusyReport
<1> QED
  BY <1>1, <1>2, <1>3, BecomesSo

\* A report that goes to a place with a new reading keeps what it has to do.
LEMMA GoesToSeeing ==
  ASSUME InterTyped, NEW t \in Reporters, reports[t].at # "idle", NEW seen \in Progresses,
         NEW at \in {"persist", "flush", "link", "finish", "finals", "over"}, To(t, [at |-> at, seen |-> seen])
  PROVE  Became(t, at, seen, reports[t].todo)
<1> DEFINE fields == [at |-> at, seen |-> seen]
<1>1. DOMAIN fields = {"at", "seen"} /\ fields["at"] = at /\ fields["seen"] = seen
  OBVIOUS
<1> HIDE DEF fields
<1>2. To(t, fields)
  BY DEF fields
<1>3. reports[t].todo \in SUBSET Asked
  BY BusyReport
<1> QED
  BY <1>1, <1>2, <1>3, BecomesSo

\* A report that takes up a list of answers keeps what it saw.
LEMMA GoesToDo ==
  ASSUME InterTyped, NEW t \in Reporters, reports[t].at # "idle", NEW todo \in SUBSET Asked
  PROVE  /\ To(t, [at |-> "finals", todo |-> todo]) => Became(t, "finals", reports[t].seen, todo)
         /\ To(t, [todo |-> todo]) => Became(t, reports[t].at, reports[t].seen, todo)
<1>0. reports[t].seen \in Progresses /\ reports[t].at \in {"persist", "flush", "link", "finish", "finals", "over"}
  BY BusyReport
<1>1. ASSUME To(t, [at |-> "finals", todo |-> todo])
      PROVE  Became(t, "finals", reports[t].seen, todo)
  <2> DEFINE fields == [at |-> "finals", todo |-> todo]
  <2>1. DOMAIN fields = {"at", "todo"} /\ fields["at"] = "finals" /\ fields["todo"] = todo
    OBVIOUS
  <2> HIDE DEF fields
  <2>2. To(t, fields)
    BY <1>1 DEF fields
  <2> QED
    BY <1>0, <2>1, <2>2, BecomesSo
<1>2. ASSUME To(t, [todo |-> todo])
      PROVE  Became(t, reports[t].at, reports[t].seen, todo)
  <2> DEFINE fields == [todo |-> todo]
  <2>1. DOMAIN fields = {"todo"} /\ fields["todo"] = todo
    OBVIOUS
  <2> HIDE DEF fields
  <2>2. To(t, fields)
    BY <1>2 DEF fields
  <2> QED
    BY <1>0, <2>1, <2>2, BecomesSo
<1> QED
  BY <1>1, <1>2

\* A step of the record keeps what the requests have read of it.
RecordForward ==
  /\ inter.original = "saved" => inter'.original = "saved"
  /\ inter.settled # "none" => inter'.settled # "none" /\ Finals' = Finals
  /\ canon \subseteq canon'

\* What the other reports were told is still so when the record went forward.
LEMMA OthersStillTold ==
  ASSUME ReportInv, RecordForward, NEW t \in Reporters, ReportsBut(t), Told(t)'
  PROVE  ReportInv'
<1>1. ASSUME NEW u \in Reporters, u # t
      PROVE  Told(u)'
  <2>1. reports'[u] = reports[u]
    BY <1>1 DEF ReportsBut
  <2>2. Told(u)
    BY DEF ReportInv
  <2> QED
    BY <2>1, <2>2 DEF Told, RecordForward
<1> QED
  BY <1>1 DEF ReportInv

\* What the reports were told is still so when the record went forward.
LEMMA AllStillTold ==
  ASSUME ReportInv, RecordForward, reports' = reports
  PROVE  ReportInv'
<1>1. ASSUME NEW u \in Reporters
      PROVE  Told(u)'
  <2>1. Told(u) /\ reports'[u] = reports[u]
    BY DEF ReportInv
  <2> QED
    BY <2>1 DEF Told, RecordForward
<1> QED
  BY <1>1 DEF ReportInv

\* A step of the record alone: nothing of a settled one changes.
LEMMA RecordKept ==
  ASSUME InterInv, UNCHANGED <<reports, link, canon>>, inter' \in InterRecs,
         inter'.original = inter.original, inter'.settled = inter.settled,
         inter'.state \in {inter.state, "incomplete", "staged"},
         inter.settled # "none" => inter'.answers = inter.answers /\ act' = act,
         \A r \in Asked : inter'.answers[r].saved => inter.answers[r].saved
  PROVE  InterInv'
<1>1. InterTyped'
  BY DEF InterInv, InterTyped
<1>2. RecordForward
  BY DEF RecordForward, Finals
<1>3. ReportInv'
  BY <1>2, AllStillTold DEF InterInv
<1>4. SavedInv' /\ UserFirst'
  BY DEF InterInv, SavedInv, UserFirst
<1>5. SavedIsThere'
  <2>1. inter'.state \in {"saved", "execution_linked"} => Finals' \subseteq canon'
    BY DEF InterInv, SavedInv, SavedIsThere, Finals
  <2> QED
    BY <2>1 DEF InterInv, SavedIsThere
<1>6. SettledIsWhole'
  BY DEF InterInv, SettledIsWhole
<1> QED
  BY <1>1, <1>3, <1>4, <1>5, <1>6 DEF InterInv

\* A step of one request that leaves the record alone.
LEMMA RequestKept ==
  ASSUME InterInv, inter' = inter, act' = act, link' \in [generation : Nat, trouble : Nat],
         reports' \in [Reporters -> Reports], NEW t \in Reporters, ReportsBut(t), Told(t)',
         canon \subseteq canon', canon' \subseteq Asked \cup {"user"},
         canon' \cap Asked = canon \cap Asked \/ inter.original = "saved"
  PROVE  InterInv'
<1>1. InterTyped'
  BY DEF InterInv, InterTyped
<1>2. RecordForward
  BY DEF RecordForward, Finals
<1>3. ReportInv'
  BY <1>2, OthersStillTold DEF InterInv
<1>4. SavedInv'
  BY DEF InterInv, SavedInv
<1>5. UserFirst'
  BY DEF InterInv, UserFirst, SavedIsThere
<1>6. SavedIsThere'
  BY DEF InterInv, SavedIsThere, Finals
<1>7. SettledIsWhole'
  BY DEF InterInv, SettledIsWhole
<1> QED
  BY <1>1, <1>3, <1>4, <1>5, <1>6, <1>7 DEF InterInv

\* A step that changes the record and the requests.
LEMMA BothKept ==
  ASSUME InterInv, inter' \in InterRecs, link' \in [generation : Nat, trouble : Nat],
         reports' \in [Reporters -> Reports], NEW t \in Reporters, ReportsBut(t), Told(t)',
         canon \subseteq canon', canon' \subseteq Asked \cup {"user"},
         canon' \cap Asked = canon \cap Asked \/ inter.original = "saved",
         inter.original = "saved" => inter'.original = "saved",
         inter'.original = "saved" => "user" \in canon',
         inter.settled # "none" => inter'.settled # "none",
         \A r \in Asked : /\ inter'.answers[r].status = inter.answers[r].status
                          /\ inter'.answers[r].calls = inter.answers[r].calls
                          /\ inter'.answers[r].final = inter.answers[r].final
                          /\ inter'.answers[r].saved => r \in canon',
         inter'.settled = inter.settled,
         act' = act,
         inter'.state \in {"saved", "execution_linked"} => inter'.settled # "none" /\ Finals \subseteq canon'
  PROVE  InterInv'
<1>1. InterTyped'
  BY DEF InterTyped
<1>2. Finals' = Finals
  BY DEF Finals
<1>3. RecordForward
  BY <1>2 DEF RecordForward
<1>4. ReportInv'
  BY <1>3, OthersStillTold DEF InterInv
<1>5. SavedInv'
  BY DEF SavedInv
<1>6. UserFirst'
  BY DEF InterInv, UserFirst, SavedIsThere
<1>7. SavedIsThere'
  BY <1>2 DEF SavedIsThere
<1>8. SettledIsWhole'
  BY DEF InterInv, SettledIsWhole, Asked
<1> QED
  BY <1>1, <1>4, <1>5, <1>6, <1>7, <1>8 DEF InterInv

\* A report that ends on a failure keeps the invariant.
LEMMA Withdraws ==
  ASSUME InterInv, NEW t \in Reporters, Ends0(t), inter' = inter, act' = act,
         link' \in [generation : Nat, trouble : Nat], canon' = canon
  PROVE  InterInv'
<1>1. reports' \in [Reporters -> Reports] /\ ReportsBut(t) /\ reports'[t].at = "idle"
  BY EndsSo DEF InterInv
<1>2. Told(t)'
  BY <1>1 DEF Told
<1>3. canon \subseteq canon' /\ canon' \subseteq Asked \cup {"user"} /\ canon' \cap Asked = canon \cap Asked
  BY DEF InterInv, InterTyped
<1> QED
  BY <1>1, <1>2, <1>3, RequestKept

\* A failure of the link counts, and leaves it a link.
LEMMA LinkMoves ==
  ASSUME InterTyped
  PROVE  /\ UNCHANGED link => link' \in [generation : Nat, trouble : Nat]
         /\ Fails => link' \in [generation : Nat, trouble : Nat]
BY DEF InterTyped, Fails

\* What a report reads of the record is a reading of it.
LEMMA ReadsIt ==
  ASSUME InterTyped
  PROVE  /\ Progress(inter) \in Progresses /\ Progress(inter).original = inter.original
         /\ \A r \in InterRecs : Progress(r) \in Progresses /\ Progress(r).original = r.original
BY DEF InterTyped, Progress, Progresses, InterRecs

\* A request that starts, with what it has read.
LEMMA ReportStarts ==
  ASSUME InterTyped, NEW t \in Reporters, inter' \in InterRecs,
         NEW generation \in Nat, NEW recover \in BOOLEAN, NEW finish \in BOOLEAN,
         NEW seen \in Progresses, seen.original = "saved" => inter'.original = "saved",
         finish => inter'.settled # "none",
         reports' = [reports EXCEPT ![t] = [at |-> "persist", generation |-> generation, recover |-> recover,
                                           finish |-> finish, seen |-> seen, todo |-> {}]]
  PROVE  reports' \in [Reporters -> Reports] /\ ReportsBut(t) /\ Told(t)'
<1> DEFINE r == [at |-> "persist", generation |-> generation, recover |-> recover,
                 finish |-> finish, seen |-> seen, todo |-> {}]
<1>1. r \in Reports /\ r.at = "persist" /\ r.finish = finish /\ r.seen = seen
  BY DEF Reports
<1> HIDE DEF r
<1>2. reports' \in [Reporters -> Reports] /\ ReportsBut(t) /\ reports'[t] = r
  BY <1>1, ReportSet DEF r
<1> QED
  BY <1>1, <1>2 DEF Told

\* Staging an interaction keeps the invariant.
LEMMA StageKept ==
  ASSUME InterInv, NEW t \in Reporters, Stage(t)
  PROVE  InterInv'
<1>0. InterTyped /\ inter \in InterRecs /\ link.generation \in Nat
  BY DEF InterInv, InterTyped
<1>1. inter' = (IF inter.staged THEN inter ELSE [[inter EXCEPT !.staged = TRUE] EXCEPT !.state = "staged"])
      /\ UNCHANGED <<act, link, canon>>
  BY DEF Stage
<1>2. /\ inter' \in InterRecs /\ inter'.original = inter.original /\ inter'.settled = inter.settled
      /\ inter'.answers = inter.answers /\ inter'.state \in {inter.state, "staged"}
  BY <1>0, <1>1 DEF InterRecs
<1>3. reports' \in [Reporters -> Reports] /\ ReportsBut(t) /\ Told(t)'
  <2>1. /\ reports' = [reports EXCEPT ![t] = [at |-> "persist", generation |-> link.generation, recover |-> FALSE,
                                             finish |-> FALSE, seen |-> Progress(inter'), todo |-> {}]]
    BY DEF Stage, Report
  <2>2. Progress(inter') \in Progresses /\ Progress(inter').original = inter'.original
    BY <1>0, <1>2, ReadsIt
  <2> QED
    BY <1>0, <1>2, <2>1, <2>2, ReportStarts
<1>4. /\ canon \subseteq canon' /\ canon' \subseteq Asked \cup {"user"} /\ canon' \cap Asked = canon \cap Asked
      /\ link' \in [generation : Nat, trouble : Nat]
  BY <1>1 DEF InterInv, InterTyped
<1>5. /\ inter'.original = "saved" => "user" \in canon'
      /\ \A r \in Asked : inter'.answers[r].saved => r \in canon'
      /\ inter'.state \in {"saved", "execution_linked"} => inter'.settled # "none" /\ Finals \subseteq canon'
  BY <1>1, <1>2 DEF InterInv, SavedIsThere, SavedInv
<1> QED
  BY <1>1, <1>2, <1>3, <1>4, <1>5, BothKept

\* A record with one answer changed is a record with the rest as it was.
LEMMA AnswerChanged ==
  ASSUME InterTyped, NEW r \in Asked, NEW a \in AnswerRecs,
         inter' = [inter EXCEPT !.answers[r] = a]
  PROVE  /\ inter' \in InterRecs /\ inter'.original = inter.original /\ inter'.settled = inter.settled
         /\ inter'.state = inter.state /\ inter'.answers[r] = a
         /\ \A s \in Asked : s # r => inter'.answers[s] = inter.answers[s]
<1>1. inter \in InterRecs /\ inter.answers \in [Asked -> AnswerRecs]
  BY DEF InterTyped, InterRecs
<1> DEFINE b == [inter.answers EXCEPT ![r] = a]
<1>2. b \in [Asked -> AnswerRecs] /\ b[r] = a /\ \A s \in Asked : s # r => b[s] = inter.answers[s]
  BY <1>1
<1>3. inter' = [inter EXCEPT !.answers = b]
  BY <1>1 DEF InterRecs
<1> HIDE DEF b
<1> QED
  BY <1>1, <1>2, <1>3 DEF InterRecs

\* The steps of the voice connection on the record keep the invariant.
LEMMA RecordStepKept ==
  ASSUME InterInv,
         Incomplete \/ ActionEnds \/ \E r \in Asked : ResponseStarted(r) \/ ResponseFinal(r) \/ ResponseDone(r) \/ PrepareAction(r)
  PROVE  InterInv'
<1>0. InterTyped /\ inter \in InterRecs /\ \A r \in Asked : inter.answers[r] \in AnswerRecs
  BY DEF InterInv, InterTyped, InterRecs
<1>a. inter.settled # "none" => act # "prepared" /\ \A r \in Asked : inter.answers[r].status # "started"
  BY DEF InterInv, SettledIsWhole
<1>1. CASE Incomplete
  <2>1. inter' = [inter EXCEPT !.state = "incomplete"] /\ UNCHANGED <<act, reports, link, canon>>
    BY <1>1 DEF Incomplete, Change
  <2>2. /\ inter' \in InterRecs /\ inter'.original = inter.original /\ inter'.settled = inter.settled
        /\ inter'.answers = inter.answers /\ inter'.state = "incomplete"
    BY <1>0, <2>1 DEF InterRecs
  <2> QED
    BY <2>1, <2>2, RecordKept
<1>2. CASE ActionEnds
  BY <1>0, <1>a, <1>2, RecordKept DEF ActionEnds
<1>3. ASSUME NEW r \in Asked, ResponseStarted(r)
      PROVE  InterInv'
  <2> DEFINE a == [NoAnswer EXCEPT !.status = "started", !.previous = IF r = First THEN "none" ELSE First]
  <2>1. inter.settled = "none" /\ inter' = [inter EXCEPT !.answers[r] = a] /\ UNCHANGED <<act, reports, link, canon>>
    BY <1>3 DEF ResponseStarted, Change
  <2>2. a \in AnswerRecs /\ ~a.saved
    BY DEF NoAnswer, AnswerRecs, Asked
  <2> HIDE DEF a
  <2>3. /\ inter' \in InterRecs /\ inter'.original = inter.original /\ inter'.settled = inter.settled
        /\ inter'.state = inter.state /\ inter'.answers[r] = a
        /\ \A s \in Asked : s # r => inter'.answers[s] = inter.answers[s]
    BY <1>0, <2>1, <2>2, AnswerChanged
  <2>4. \A s \in Asked : inter'.answers[s].saved => inter.answers[s].saved
    BY <2>2, <2>3
  <2> QED
    BY <2>1, <2>3, <2>4, RecordKept
<1>4. ASSUME NEW r \in Asked, ResponseFinal(r)
      PROVE  InterInv'
  <2> DEFINE a == [inter.answers[r] EXCEPT !.final = TRUE]
  <2>1. inter.settled = "none" /\ inter' = [inter EXCEPT !.answers[r] = a] /\ UNCHANGED <<act, reports, link, canon>>
    <3>1. inter.settled = "none" /\ inter' = [inter EXCEPT !.answers[r].final = TRUE] /\ UNCHANGED <<act, reports, link, canon>>
      BY <1>4 DEF ResponseFinal, Change
    <3> QED
      BY <1>0, <3>1
  <2>2. a \in AnswerRecs /\ a.saved = inter.answers[r].saved
    BY <1>0 DEF AnswerRecs
  <2> HIDE DEF a
  <2>3. /\ inter' \in InterRecs /\ inter'.original = inter.original /\ inter'.settled = inter.settled
        /\ inter'.state = inter.state /\ inter'.answers[r] = a
        /\ \A s \in Asked : s # r => inter'.answers[s] = inter.answers[s]
    BY <1>0, <2>1, <2>2, AnswerChanged
  <2>4. \A s \in Asked : inter'.answers[s].saved => inter.answers[s].saved
    BY <2>2, <2>3
  <2> QED
    BY <2>1, <2>3, <2>4, RecordKept
<1>5. ASSUME NEW r \in Asked, ResponseDone(r)
      PROVE  InterInv'
  <2>1. PICK calls \in SUBSET {Call}, status \in {"completed", "failed"} :
          Change([inter EXCEPT !.answers[r] = [@ EXCEPT !.status = status, !.calls = calls],
                               !.state = IF status = "failed" THEN "incomplete" ELSE @])
    BY <1>5 DEF ResponseDone
  <2> DEFINE a == [[inter.answers[r] EXCEPT !.status = status] EXCEPT !.calls = calls]
             b == [inter.answers EXCEPT ![r] = a]
             st == IF status = "failed" THEN "incomplete" ELSE inter.state
  <2>2. a \in AnswerRecs /\ a.saved = inter.answers[r].saved
    BY <1>0, <2>1 DEF AnswerRecs
  <2>3. inter.answers \in [Asked -> AnswerRecs] /\ inter \in InterRecs
    BY <1>0 DEF InterRecs
  <2>4. inter' = [[inter EXCEPT !.answers = b] EXCEPT !.state = st] /\ UNCHANGED <<act, reports, link, canon>>
    BY <2>1, <2>3 DEF Change, InterRecs
  <2> HIDE DEF a
  <2>5. b \in [Asked -> AnswerRecs] /\ \A s \in Asked : b[s].saved => inter.answers[s].saved
    BY <2>2, <2>3
  <2>6. st \in {inter.state, "incomplete"}
    OBVIOUS
  <2> HIDE DEF b, st
  <2>7. /\ inter' \in InterRecs /\ inter'.original = inter.original /\ inter'.settled = inter.settled
        /\ inter'.state = st /\ inter'.answers = b
    BY <2>3, <2>4, <2>5, <2>6 DEF InterRecs
  <2>8. inter.settled = "none"
    BY <1>a, <1>5 DEF ResponseDone
  <2>9. inter'.state \in {inter.state, "incomplete", "staged"}
    BY <2>6, <2>7
  <2> QED
    BY <2>4, <2>5, <2>7, <2>8, <2>9, RecordKept
<1>6. ASSUME NEW r \in Asked, PrepareAction(r)
      PROVE  InterInv'
  BY <1>0, <1>6, RecordKept DEF PrepareAction
<1> QED
  BY <1>1, <1>2, <1>3, <1>4, <1>5, <1>6

\* Settling an answer keeps the invariant.
LEMMA SettleKept ==
  ASSUME InterInv, NEW t \in Reporters, NEW r \in Asked, Settle(t, r)
  PROVE  InterInv'
<1>0. InterTyped /\ inter \in InterRecs /\ link.generation \in Nat /\ r # "none"
  BY InteractionAssumption DEF InterInv, InterTyped
<1>1. /\ inter' = [inter EXCEPT !.settled = r] /\ Complete(r) /\ inter.settled \in {"none", r}
      /\ UNCHANGED <<act, link, canon>>
      /\ reports' = [reports EXCEPT ![t] = [at |-> "persist", generation |-> link.generation, recover |-> FALSE,
                                           finish |-> TRUE, seen |-> Progress(inter'), todo |-> {}]]
  BY DEF Settle
<1>2. /\ inter' \in InterRecs /\ inter'.original = inter.original /\ inter'.settled = r
      /\ inter'.answers = inter.answers /\ inter'.state = inter.state
  BY <1>0, <1>1 DEF InterRecs
<1>3. reports' \in [Reporters -> Reports] /\ ReportsBut(t) /\ Told(t)'
  <2>2. Progress(inter') \in Progresses /\ Progress(inter').original = inter'.original
    BY <1>0, <1>2, ReadsIt
  <2> QED
    BY <1>0, <1>1, <1>2, <2>2, ReportStarts
<1>4. RecordForward
  BY <1>0, <1>1, <1>2 DEF RecordForward, Finals
<1>5. ReportInv'
  BY <1>3, <1>4, OthersStillTold DEF InterInv
<1>6. InterTyped'
  BY <1>1, <1>2, <1>3 DEF InterInv, InterTyped
<1>7. SavedInv' /\ UserFirst' /\ SavedIsThere'
  BY <1>0, <1>1, <1>2 DEF InterInv, SavedInv, UserFirst, SavedIsThere, Finals
<1>8. SettledIsWhole'
  BY <1>1, <1>2 DEF SettledIsWhole, Complete
<1> QED
  BY <1>5, <1>6, <1>7, <1>8 DEF InterInv

\* Saving the words of the user keeps the invariant.
LEMMA PersistKept ==
  ASSUME InterInv, NEW t \in Reporters, Persist(t)
  PROVE  InterInv'
<1>0. /\ InterTyped /\ inter \in InterRecs /\ link.generation \in Nat /\ reports[t].at = "persist" /\ Told(t)
      /\ act' = act /\ canon' = canon /\ canon \subseteq Asked \cup {"user"}
      /\ reports[t].seen \in Progresses
  BY BusyReport DEF InterInv, InterTyped, Persist, ReportInv
<1>1. CASE UNCHANGED <<inter, link>> /\ To(t, [at |-> IF reports[t].finish THEN "finish" ELSE "over"])
  <2> DEFINE at == IF reports[t].finish THEN "finish" ELSE "over"
  <2>1. at \in {"finish", "over"} /\ (at = "finish" => reports[t].finish) /\ To(t, [at |-> at])
    BY <1>1
  <2> HIDE DEF at
  <2>2. Became(t, at, reports[t].seen, reports[t].todo)
    BY <1>0, <2>1, GoesToPlace
  <2>3. Told(t)'
    BY <1>0, <1>1, <2>1, <2>2 DEF Told, Became
  <2>4. link' \in [generation : Nat, trouble : Nat]
    BY <1>0, <1>1, LinkMoves
  <2> QED
    BY <1>0, <1>1, <2>2, <2>3, <2>4, RequestKept DEF Became
<1>2. CASE inter' = [inter EXCEPT !.attempted = link.generation] /\ To(t, [at |-> "flush"]) /\ UNCHANGED link
  <2>1. /\ inter' \in InterRecs /\ inter'.original = inter.original /\ inter'.settled = inter.settled
        /\ inter'.answers = inter.answers /\ inter'.state = inter.state
    BY <1>0, <1>2 DEF InterRecs
  <2>2. Became(t, "flush", reports[t].seen, reports[t].todo)
    BY <1>0, <1>2, GoesToPlace
  <2>3. Told(t)'
    BY <1>0, <2>1, <2>2 DEF Told, Became
  <2>4. link' \in [generation : Nat, trouble : Nat]
    BY <1>0, <1>2, LinkMoves
  <2>5. /\ inter'.original = "saved" => "user" \in canon'
        /\ \A r \in Asked : inter'.answers[r].saved => r \in canon'
        /\ inter'.state \in {"saved", "execution_linked"} => inter'.settled # "none" /\ Finals \subseteq canon'
    BY <1>0, <2>1 DEF InterInv, SavedIsThere, SavedInv
  <2> QED
    BY <1>0, <2>1, <2>2, <2>3, <2>4, <2>5, BothKept DEF Became
<1>3. CASE Ends0(t) /\ inter' = inter /\ (UNCHANGED link \/ Fails)
  BY <1>0, <1>3, LinkMoves, Withdraws
<1> QED
  BY <1>1, <1>2, <1>3 DEF Persist

\* Writing the words of the user to the history keeps the invariant.
LEMMA FlushUserKept ==
  ASSUME InterInv, NEW t \in Reporters, FlushUser(t)
  PROVE  InterInv'
<1>0. /\ InterTyped /\ reports[t].at = "flush" /\ Told(t) /\ inter' = inter /\ act' = act
      /\ canon' \in {canon, canon \cup {"user"}} /\ canon \subseteq Asked \cup {"user"} /\ "user" \notin Asked
      /\ link' \in [generation : Nat, trouble : Nat]
      /\ reports[t].seen \in Progresses
  BY BusyReport, LinkMoves, InteractionAssumption DEF InterInv, InterTyped, FlushUser, ReportInv
<1>1. canon \subseteq canon' /\ canon' \subseteq Asked \cup {"user"} /\ canon' \cap Asked = canon \cap Asked
  BY <1>0
<1>2. CASE To(t, [at |-> "link"])
  <2>1. Became(t, "link", reports[t].seen, reports[t].todo)
    BY <1>0, <1>2, GoesToPlace
  <2>2. Told(t)'
    BY <1>0, <2>1 DEF Told, Became
  <2> QED
    BY <1>0, <1>1, <2>1, <2>2, RequestKept DEF Became
<1>3. CASE To(t, [at |-> IF reports[t].finish THEN "finish" ELSE "over", seen |-> Progress(inter)])
  <2> DEFINE at == IF reports[t].finish THEN "finish" ELSE "over"
             seen == Progress(inter)
  <2>1. at \in {"finish", "over"} /\ (at = "finish" => reports[t].finish) /\ To(t, [at |-> at, seen |-> seen])
    BY <1>3
  <2>2. seen \in Progresses /\ seen.original = inter.original
    BY <1>0, ReadsIt
  <2> HIDE DEF at, seen
  <2>3. Became(t, at, seen, reports[t].todo)
    BY <1>0, <2>1, <2>2, GoesToSeeing
  <2>4. Told(t)'
    BY <1>0, <2>1, <2>2, <2>3 DEF Told, Became
  <2> QED
    BY <1>0, <1>1, <2>3, <2>4, RequestKept DEF Became
<1> QED
  BY <1>2, <1>3 DEF FlushUser

\* Linking the action to the words it came from keeps the invariant.
LEMMA LinkOriginKept ==
  ASSUME InterInv, NEW t \in Reporters, LinkOrigin(t)
  PROVE  InterInv'
<1>0. /\ InterTyped /\ inter \in InterRecs /\ reports[t].at = "link" /\ Told(t)
      /\ act' = act /\ canon' = canon /\ canon \subseteq Asked \cup {"user"}
  BY DEF InterInv, InterTyped, LinkOrigin, ReportInv
<1>1. CASE /\ "user" \in canon /\ UNCHANGED link /\ inter' = [inter EXCEPT !.original = "saved"]
           /\ To(t, [at |-> IF reports[t].finish THEN "finish" ELSE "over", seen |-> Progress(inter')])
  <2> DEFINE at == IF reports[t].finish THEN "finish" ELSE "over"
             seen == Progress(inter')
  <2>1. /\ inter' \in InterRecs /\ inter'.original = "saved" /\ inter'.settled = inter.settled
        /\ inter'.answers = inter.answers /\ inter'.state = inter.state
    BY <1>0, <1>1 DEF InterRecs
  <2>2. at \in {"finish", "over"} /\ (at = "finish" => reports[t].finish) /\ To(t, [at |-> at, seen |-> seen])
    BY <1>1
  <2>3. seen \in Progresses
    BY <1>0, <2>1, ReadsIt
  <2> HIDE DEF at, seen
  <2>4. Became(t, at, seen, reports[t].todo)
    BY <1>0, <2>2, <2>3, GoesToSeeing
  <2>5. Told(t)'
    BY <1>0, <2>1, <2>2, <2>4 DEF Told, Became
  <2>6. link' \in [generation : Nat, trouble : Nat]
    BY <1>0, <1>1, LinkMoves
  <2>7. /\ inter'.original = "saved" => "user" \in canon'
        /\ \A r \in Asked : inter'.answers[r].saved => r \in canon'
        /\ inter'.state \in {"saved", "execution_linked"} => inter'.settled # "none" /\ Finals \subseteq canon'
    BY <1>0, <1>1, <2>1 DEF InterInv, SavedIsThere, SavedInv
  <2> QED
    BY <1>0, <2>1, <2>4, <2>5, <2>6, <2>7, BothKept DEF Became
<1>2. CASE Ends0(t) /\ inter' = inter /\ (UNCHANGED link \/ Fails)
  BY <1>0, <1>2, LinkMoves, Withdraws
<1> QED
  BY <1>1, <1>2 DEF LinkOrigin

\* Going on to the answers keeps the invariant.
LEMMA FinishKept ==
  ASSUME InterInv, NEW t \in Reporters, Finish(t)
  PROVE  InterInv'
<1>0. /\ InterTyped /\ inter \in InterRecs /\ reports[t].at = "finish" /\ Told(t) /\ link.generation \in Nat
      /\ act' = act /\ canon' = canon /\ link' = link /\ canon \subseteq Asked \cup {"user"}
      /\ link' \in [generation : Nat, trouble : Nat]
  BY LinkMoves DEF InterInv, InterTyped, Finish, ReportInv
<1>1. CASE /\ OriginalSaved(t)
           /\ inter' = [inter EXCEPT !.state = "pending", !.finished = link.generation]
           /\ To(t, [at |-> "finals", todo |-> Finals])
  <2>1. inter' = [[inter EXCEPT !.state = "pending"] EXCEPT !.finished = link.generation]
    BY <1>1
  <2>2. /\ inter' \in InterRecs /\ inter'.original = inter.original /\ inter'.settled = inter.settled
        /\ inter'.answers = inter.answers /\ inter'.state = "pending"
    BY <1>0, <2>1 DEF InterRecs
  <2>3. Finals \in SUBSET Asked /\ Finals' = Finals
    BY <2>2 DEF Finals
  <2>4. Became(t, "finals", reports[t].seen, Finals)
    BY <1>0, <1>1, <2>3, GoesToDo
  <2>5. Told(t)'
    BY <1>0, <1>1, <2>2, <2>3, <2>4 DEF Told, Became, OriginalSaved
  <2>6. /\ inter'.original = "saved" => "user" \in canon'
        /\ \A r \in Asked : inter'.answers[r].saved => r \in canon'
    BY <1>0, <2>2 DEF InterInv, SavedIsThere
  <2> QED
    BY <1>0, <2>2, <2>4, <2>5, <2>6, BothKept DEF Became
<1>2. CASE Ends0(t) /\ inter' = inter
  BY <1>0, <1>2, Withdraws
<1> QED
  BY <1>1, <1>2 DEF Finish

\* Writing an answer to the history keeps the invariant: its question stands before it.
LEMMA FlushFinalKept ==
  ASSUME InterInv, NEW t \in Reporters, FlushFinal(t)
  PROVE  InterInv'
<1> DEFINE r == IF First \in reports[t].todo THEN First ELSE Second
<1>0. /\ InterTyped /\ inter \in InterRecs /\ reports[t].at = "finals" /\ Told(t) /\ reports[t].todo \in SUBSET Asked
      /\ reports[t].todo # {} /\ act' = act /\ canon \subseteq Asked \cup {"user"}
  BY BusyReport DEF InterInv, InterTyped, FlushFinal, ReportInv
<1>1. r \in reports[t].todo /\ r \in Asked
  BY <1>0 DEF Asked
<1>2. \/ /\ canon' = canon \cup {r} /\ UNCHANGED link
         /\ inter' = [inter EXCEPT !.answers[r].saved = TRUE]
         /\ To(t, [todo |-> reports[t].todo \ {r}])
      \/ Fails /\ canon' \in {canon, canon \cup {r}} /\ Ends0(t) /\ inter' = inter
      \/ Ends0(t) /\ UNCHANGED <<inter, link, canon>>
  BY DEF FlushFinal, StopsAt
<1> HIDE DEF r
<1>3. CASE /\ canon' = canon \cup {r} /\ UNCHANGED link
           /\ inter' = [inter EXCEPT !.answers[r].saved = TRUE]
           /\ To(t, [todo |-> reports[t].todo \ {r}])
  <2> DEFINE a == [inter.answers[r] EXCEPT !.saved = TRUE]
  <2>1. inter' = [inter EXCEPT !.answers[r] = a] /\ inter.answers[r] \in AnswerRecs
    BY <1>0, <1>1, <1>3 DEF InterRecs
  <2>2. /\ a \in AnswerRecs /\ a.status = inter.answers[r].status /\ a.calls = inter.answers[r].calls
        /\ a.final = inter.answers[r].final
    BY <2>1 DEF AnswerRecs
  <2> HIDE DEF a
  <2>3. /\ inter' \in InterRecs /\ inter'.original = inter.original /\ inter'.settled = inter.settled
        /\ inter'.state = inter.state /\ inter'.answers[r] = a
        /\ \A s \in Asked : s # r => inter'.answers[s] = inter.answers[s]
    BY <1>0, <1>1, <2>1, <2>2, AnswerChanged
  <2>4. /\ \A s \in Asked : /\ inter'.answers[s].status = inter.answers[s].status
                            /\ inter'.answers[s].calls = inter.answers[s].calls
                            /\ inter'.answers[s].final = inter.answers[s].final
    BY <2>2, <2>3
  <2>5. Finals' = Finals
    BY <2>4 DEF Finals
  <2>6. Became(t, "finals", reports[t].seen, reports[t].todo \ {r})
    BY <1>0, <1>1, <1>3, GoesToDo
  <2>7. Told(t)'
    BY <1>0, <1>3, <2>3, <2>5, <2>6 DEF Told, Became
  <2>8. link' \in [generation : Nat, trouble : Nat]
    BY <1>0, <1>3, LinkMoves
  <2>9. inter.original = "saved" /\ "user" \in canon
    BY <1>0 DEF Told, InterInv, SavedIsThere
  <2>10. \A s \in Asked : inter'.answers[s].saved => s \in canon'
    BY <1>3, <2>3 DEF InterInv, SavedIsThere
  <2>11. inter'.state \in {"saved", "execution_linked"} => inter'.settled # "none" /\ Finals \subseteq canon'
    BY <1>3, <2>3 DEF InterInv, SavedIsThere, SavedInv
  <2>12. canon \subseteq canon' /\ canon' \subseteq Asked \cup {"user"}
    BY <1>0, <1>1, <1>3
  <2> QED
    BY <1>0, <1>3, <2>3, <2>4, <2>6, <2>7, <2>8, <2>9, <2>10, <2>11, <2>12, BothKept DEF Became
<1>4. CASE Ends0(t) /\ inter' = inter /\ canon' \in {canon, canon \cup {r}} /\ (Fails \/ UNCHANGED link)
  <2>1. reports' \in [Reporters -> Reports] /\ ReportsBut(t) /\ reports'[t].at = "idle"
    BY <1>0, <1>4, EndsSo
  <2>2. Told(t)'
    BY <2>1 DEF Told
  <2>3. canon \subseteq canon' /\ canon' \subseteq Asked \cup {"user"}
    BY <1>0, <1>1, <1>4
  <2>4. inter.original = "saved"
    BY <1>0 DEF Told
  <2>5. link' \in [generation : Nat, trouble : Nat]
    BY <1>0, <1>4, LinkMoves
  <2> QED
    BY <1>0, <1>4, <2>1, <2>2, <2>3, <2>4, <2>5, RequestKept
<1> QED
  BY <1>2, <1>3, <1>4

\* Marking the interaction settled keeps the invariant.
LEMMA FinishedKept ==
  ASSUME InterInv, NEW t \in Reporters, Finished(t)
  PROVE  InterInv'
<1>0. /\ InterTyped /\ inter \in InterRecs /\ reports[t].at = "finals" /\ Told(t) /\ reports[t].todo = {}
      /\ act' = act /\ link' = link /\ canon' = canon /\ Ends0(t) /\ canon \subseteq Asked \cup {"user"}
      /\ link' \in [generation : Nat, trouble : Nat]
  BY LinkMoves DEF InterInv, InterTyped, Finished, ReportInv
<1>1. CASE inter' = inter
  BY <1>0, <1>1, Withdraws
<1>2. CASE inter' = [inter EXCEPT !.state = IF act = "none" THEN "saved" ELSE "execution_linked"]
  <2> DEFINE st == IF act = "none" THEN "saved" ELSE "execution_linked"
  <2>1. st \in {"saved", "execution_linked"} /\ inter' = [inter EXCEPT !.state = st]
    BY <1>2
  <2> HIDE DEF st
  <2>2. /\ inter' \in InterRecs /\ inter'.original = inter.original /\ inter'.settled = inter.settled
        /\ inter'.answers = inter.answers /\ inter'.state = st
    BY <1>0, <2>1 DEF InterRecs
  <2>3. reports' \in [Reporters -> Reports] /\ ReportsBut(t) /\ reports'[t].at = "idle"
    BY <1>0, EndsSo
  <2>4. Told(t)'
    BY <2>3 DEF Told
  <2>5. inter'.settled # "none" /\ Finals \subseteq canon'
    BY <1>0, <2>2 DEF Told
  <2>6. /\ inter'.original = "saved" => "user" \in canon'
        /\ \A r \in Asked : inter'.answers[r].saved => r \in canon'
    BY <1>0, <2>2 DEF InterInv, SavedIsThere
  <2> QED
    BY <1>0, <2>2, <2>3, <2>4, <2>5, <2>6, BothKept
<1> QED
  BY <1>1, <1>2 DEF Finished

\* Recovery after a rejoin keeps the invariant.
LEMMA RejoinKept ==
  ASSUME InterInv, NEW t \in Reporters, Rejoin(t)
  PROVE  InterInv'
<1> DEFINE finish == inter.settled # "none" /\ inter.state \notin {"saved", "execution_linked", "incomplete"}
<1>0. /\ InterTyped /\ inter' = inter /\ inter \in InterRecs /\ act' = act /\ canon' = canon
      /\ canon \subseteq Asked \cup {"user"} /\ link \in [generation : Nat, trouble : Nat]
      /\ link' = [link EXCEPT !.generation = @ + 1]
      /\ reports' = [reports EXCEPT ![t] = [at |-> "persist", generation |-> link.generation + 1, recover |-> TRUE,
                                           finish |-> finish, seen |-> Progress(inter), todo |-> {}]]
  BY DEF InterInv, InterTyped, Rejoin
<1>1. link' \in [generation : Nat, trouble : Nat] /\ link.generation + 1 \in Nat
  BY <1>0
<1>2. finish \in BOOLEAN /\ (finish => inter.settled # "none")
  OBVIOUS
<1> HIDE DEF finish
<1>3. Progress(inter) \in Progresses /\ Progress(inter).original = inter.original
  BY <1>0, ReadsIt
<1>4. reports' \in [Reporters -> Reports] /\ ReportsBut(t) /\ Told(t)'
  BY <1>0, <1>1, <1>2, <1>3, ReportStarts
<1> QED
  BY <1>0, <1>1, <1>4, RequestKept

\* Every step of an interaction keeps the invariant.
LEMMA InterStepKept ==
  ASSUME InterInv, InterNext
  PROVE  InterInv'
<1>1. ASSUME NEW t \in Reporters, Reported(t)
      PROVE  InterInv'
  <2>1. link' \in [generation : Nat, trouble : Nat] /\ Ends0(t) /\ inter' = inter /\ act' = act /\ canon' = canon
    BY <1>1, LinkMoves DEF Reported, InterInv
  <2> QED
    BY <2>1, Withdraws
<1> QED
  BY <1>1, RecordStepKept, StageKept, SettleKept, PersistKept, FlushUserKept, LinkOriginKept, FinishKept,
     FlushFinalKept, FinishedKept, RejoinKept DEF InterNext

\* An interaction that does not run keeps its invariant.
LEMMA InterRests ==
  ASSUME InterInv, UNCHANGED interVars
  PROVE  InterInv'
<1>1. inter' = inter /\ act' = act /\ reports' = reports /\ link' = link /\ canon' = canon
  BY DEF interVars
<1>2. InterTyped' /\ SavedInv' /\ UserFirst'
  BY <1>1 DEF InterInv, InterTyped, SavedInv, UserFirst
<1>3. ReportInv'
  BY <1>1, AllStillTold DEF InterInv, RecordForward, Finals
<1>4. SavedIsThere' /\ SettledIsWhole'
  BY <1>1 DEF InterInv, SavedIsThere, SettledIsWhole, Finals
<1> QED
  BY <1>2, <1>3, <1>4 DEF InterInv

\* An interaction starts in the invariant.
LEMMA InterStarts ==
  ASSUME InterInit
  PROVE  InterInv
<1> USE DEF InterInit, NoAnswer, Quiet0
<1>1. InterTyped
  BY DEF InterTyped, InterRecs, AnswerRecs, Reports
<1>2. ReportInv /\ SavedInv /\ UserFirst
  BY DEF ReportInv, Told, SavedInv, UserFirst
<1>3. SavedIsThere /\ SettledIsWhole
  BY DEF SavedIsThere, SettledIsWhole
<1> QED
  BY <1>1, <1>2, <1>3 DEF InterInv

\* The invariant of an interaction gives what the run checks of it.
LEMMA InterInvIsEnough ==
  ASSUME InterInv
  PROVE  InterSafe
<1>1. InterTypeOK
  BY DEF InterInv, InterTyped, InterTypeOK, InterRecs
<1> QED
  BY <1>1 DEF InterInv, InterSafe

\* The values of the actions.
ActStates == {"none", "prepared", "submitting", "uncertain", "accepted", "failed", "returned",
              "approval_checking", "approval_submitting"}
Phases == {"none", "settled", "unconfirmed", "pending_origin", "submitting"}
Receipts == {"none", "queued", "rejected", "unknown"}
ActRecs == [name : Names \cup {"none"}, state : ActStates, key : 0 .. 2, run : BOOLEAN, phase : Phases,
            body : 0 .. 2, receipt : Receipts, host : BOOLEAN]
Findings == [receipt : Receipts, host : BOOLEAN, phase : Phases]
Gateways == [jobs : [DashCalls -> SUBSET (0 .. 2)], refused : SUBSET DashCalls, turn : 1 .. 2, pending : BOOLEAN,
             decisions : [DashCalls -> 0 .. 2], posted : [DashCalls -> SUBSET (0 .. 2)],
             queued : [DashCalls -> Receipts]]

\* The actions have their types.
DashTyped ==
  /\ tabSide \in [generation : 0 .. MaxJoins, bound : 0 .. MaxJoins] /\ tabSide.bound <= tabSide.generation
  /\ acts \in [DashCalls -> ActRecs] /\ gateway \in Gateways /\ dashFaults \in 0 .. MaxDashFaults
  /\ DOMAIN requests = DashThreads

\* A call id that is used has one record for good, and the job's is a child job.
ActsInv ==
  \A a \in DashCalls :
    /\ acts[a].name = "none" => acts[a] = NoAct
    /\ acts[a].name # "none" => acts[a].key = 1 /\ (a = Job <=> acts[a].name = "child")

\* The host may run a job of this call, and the record says so (records A, refusals F).
Known(A, F, a) == A[a].run \/ A[a].state \in {"submitting", "uncertain"} \/ a \in F
\* A job at the host is of an action that was submitted, and there is one.
JobInv ==
  \A a \in DashCalls :
    gateway.jobs[a] \subseteq {1} /\ (gateway.jobs[a] # {} => acts[a].name = "child" /\ Known(acts, gateway.refused, a))

\* What was posted is what was frozen.
BodyInv == \A a \in DashCalls : gateway.posted[a] \subseteq {acts[a].body} \ {0}

\* What was read of a record still goes for it.
StillSo(A, a, seen) ==
  /\ a \in DashCalls /\ seen \in ActRecs /\ A[a].name # "none" /\ seen.key = 1
  /\ seen.body # 0 => A[a].body = seen.body

\* The places of a request, by what it is about.
ChildAt == {"child", "dispatch", "dispatched"}
StopAt == {"stop", "stopping", "stopped"}
ApproveAt == {"approve", "reads", "decides", "decided"}
SteerAt == {"steer", "freezes", "steers", "posts", "saves"}
JoinAt == {"join", "activate"}
BusyAt == ChildAt \cup StopAt \cup ApproveAt \cup SteerAt \cup JoinAt \cup {"recover"}

\* A request is where actions of its kind go.
KindOk(at, name) ==
  /\ at = "recover" => name \in {"child", "steer"}
  /\ at \in ChildAt => name = "child"
  /\ at \in StopAt => name = "stop"
  /\ at \in ApproveAt => name = "approve"
  /\ at \in SteerAt => name = "steer"

\* The fields of a request under way.
Fields == {"at", "act", "seen", "generation", "mine", "joins", "todo"}
Entries == [act : DashCalls, seen : ActRecs]

\* A request r that works is well-formed, what it read still goes, and it is where it may be,
\* with records A, refusals F and generation g.
RequestShape(r, g) ==
  /\ Fields \subseteq DOMAIN r /\ r.at \in BusyAt /\ r.act \in DashCalls /\ r.generation \in 0 .. g
  /\ r.joins \in BOOLEAN /\ r.mine \in BOOLEAN /\ r.todo \in Seq(Entries)
\* What a request has read was so: the action has only gone forward since.
RequestReads(r, A) ==
  /\ \A n \in 1 .. Len(r.todo) : StillSo(A, r.todo[n].act, r.todo[n].seen) /\ A[r.todo[n].act].name \in {"child", "steer"}
  /\ r.at \notin JoinAt => StillSo(A, r.act, r.seen) /\ KindOk(r.at, A[r.act].name)
\* What a request knows of the host is so.
RequestKnows(r, A, F) ==
  /\ r.at \in {"dispatch", "dispatched"} => Known(A, F, r.act)
  /\ r.at = "dispatched" => r.news \in {"accepted", "uncertain", "failed"} /\ (r.news = "failed" => r.act \in F)
  /\ r.at = "freezes" => r.turn \in 1 .. 2
  /\ r.at \in {"steers", "posts"} => r.seen.body # 0
  /\ r.at = "saves" => r.news \in Findings
\* A request under way is typed, and what it read and knows is true.
RequestOk(r, A, F, g) == r.at # "idle" => RequestShape(r, g) /\ RequestReads(r, A) /\ RequestKnows(r, A, F)

\* Every thread's request is well.
RequestInv == \A t \in DashThreads : RequestOk(requests[t], acts, gateway.refused, tabSide.generation)

\* One request decides, and what the record says of it is so.
Deciding(t) == requests[t].at \in {"reads", "decides", "decided"}
\* An approval has one request deciding it, is decided once, and its record says so.
ApproveInv ==
  /\ \A t \in DashThreads : Deciding(t) =>
       /\ acts[requests[t].act].state = IF requests[t].at = "reads" THEN "approval_checking" ELSE "approval_submitting"
       /\ requests[t].at # "decided" => gateway.decisions[requests[t].act] = 0
       /\ \A u \in DashThreads : Deciding(u) /\ requests[u].act = requests[t].act => u = t
  /\ \A a \in DashCalls : /\ gateway.decisions[a] <= 1
                          /\ gateway.decisions[a] > 0 => acts[a].name = "approve" /\ acts[a].state \in {"approval_submitting", "returned"}

\* The inductive invariant of the actions.
DashInv == DashTyped /\ ActsInv /\ JobInv /\ BodyInv /\ RequestInv /\ ApproveInv

\* What a request may have read keeps true: from records A, refusals F to A2, F2.
Forward(A, F, A2, F2) ==
  /\ A2 \in [DashCalls -> ActRecs] /\ F \subseteq F2
  /\ \A a \in DashCalls : A[a].name # "none" =>
       /\ A2[a].name = A[a].name /\ (A[a].body # 0 => A2[a].body = A[a].body)
       /\ A[a].name = "child" /\ Known(A, F, a) => Known(A2, F2, a)

\* What a request knows stays true while the actions and the host go forward.
LEMMA RequestForward ==
  ASSUME NEW A, NEW F, NEW A2, NEW F2, NEW g \in Nat, NEW g2 \in Nat, g <= g2, Forward(A, F, A2, F2),
         NEW r, RequestOk(r, A, F, g)
  PROVE  RequestOk(r, A2, F2, g2)
<1> SUFFICES ASSUME r.at # "idle" PROVE RequestShape(r, g2) /\ RequestReads(r, A2) /\ RequestKnows(r, A2, F2)
  BY DEF RequestOk
<1>1. RequestShape(r, g) /\ RequestReads(r, A) /\ RequestKnows(r, A, F)
  BY DEF RequestOk
<1>2. \A a, seen : StillSo(A, a, seen) => StillSo(A2, a, seen) /\ A2[a].name = A[a].name
  BY DEF Forward, StillSo
<1>3. RequestShape(r, g2)
  BY <1>1 DEF RequestShape
<1>4. RequestReads(r, A2)
  BY <1>1, <1>2 DEF RequestReads
<1>5. r.at \in {"dispatch", "dispatched"} => r.act \in DashCalls /\ A[r.act].name = "child"
  BY <1>1 DEF RequestShape, RequestReads, KindOk, ChildAt, JoinAt
<1>6. RequestKnows(r, A2, F2)
  BY <1>1, <1>5 DEF RequestKnows, Forward
<1> QED
  BY <1>3, <1>4, <1>6

\* Amended changes the fields it is given and keeps the others.
LEMMA AmendedIs ==
  ASSUME NEW r, NEW fields
  PROVE  /\ DOMAIN Amended(r, fields) = DOMAIN r \cup DOMAIN fields
         /\ \A f \in DOMAIN r \cup DOMAIN fields :
              Amended(r, fields)[f] = IF f \in DOMAIN fields THEN fields[f] ELSE r[f]
BY DEF Amended

\* A request that goes on with what it read is still a request.
LEMMA RequestAmended ==
  ASSUME NEW A, NEW F, NEW g, NEW r, RequestOk(r, A, F, g), r.at # "idle",
         NEW fields, DOMAIN fields \subseteq {"at", "seen", "news", "turn"}, "at" \in DOMAIN fields,
         NEW at \in BusyAt \ JoinAt, at = fields["at"],
         NEW seen, seen = (IF "seen" \in DOMAIN fields THEN fields["seen"] ELSE r.seen),
         StillSo(A, r.act, seen), KindOk(at, A[r.act].name),
         at \in {"dispatch", "dispatched"} => Known(A, F, r.act),
         at = "dispatched" => /\ "news" \in DOMAIN fields /\ fields["news"] \in {"accepted", "uncertain", "failed"}
                              /\ fields["news"] = "failed" => r.act \in F,
         at = "freezes" => "turn" \in DOMAIN fields /\ fields["turn"] \in 1 .. 2,
         at \in {"steers", "posts"} => seen.body # 0,
         at = "saves" => "news" \in DOMAIN fields /\ fields["news"] \in Findings
  PROVE  RequestOk(Amended(r, fields), A, F, g) /\ Amended(r, fields).at = at /\ Amended(r, fields).act = r.act
<1> DEFINE q == Amended(r, fields)
<1>1. RequestShape(r, g) /\ RequestReads(r, A) /\ RequestKnows(r, A, F)
  BY DEF RequestOk
<1>2. Fields \subseteq DOMAIN r
  BY <1>1 DEF RequestShape
<1>3. /\ DOMAIN q = DOMAIN r \cup DOMAIN fields
      /\ \A f \in DOMAIN r \cup DOMAIN fields : q[f] = IF f \in DOMAIN fields THEN fields[f] ELSE r[f]
  BY AmendedIs
<1> HIDE DEF q
<1>4. /\ q.act = r.act /\ q.generation = r.generation /\ q.mine = r.mine /\ q.joins = r.joins /\ q.todo = r.todo
      /\ q.at = at /\ q.seen = seen
  BY <1>2, <1>3 DEF Fields
<1>5. /\ "news" \in DOMAIN fields => q.news = fields["news"]
      /\ "turn" \in DOMAIN fields => q.turn = fields["turn"]
  BY <1>3
<1>6. RequestShape(q, g)
  BY <1>1, <1>2, <1>3, <1>4 DEF RequestShape
<1>7. RequestReads(q, A)
  BY <1>1, <1>4 DEF RequestReads
<1>8. RequestKnows(q, A, F)
  BY <1>4, <1>5 DEF RequestKnows
<1> QED
  BY <1>4, <1>6, <1>7, <1>8 DEF RequestOk, q

\* Where a request goes when its action is done.
Next1(r) ==
  IF r.todo # <<>>
  THEN [r EXCEPT !.at = "recover", !.act = Head(r.todo).act, !.seen = Head(r.todo).seen, !.todo = Tail(r.todo)]
  ELSE IF r.joins THEN [r EXCEPT !.at = "activate"] ELSE Idle

\* A request that is over turns to the next action it joins, or ends.
LEMMA RequestOver ==
  ASSUME NEW A, NEW F, NEW g, NEW r, RequestOk(r, A, F, g), r.at # "idle"
  PROVE  RequestOk(Next1(r), A, F, g) /\ Next1(r).at \in {"idle", "activate", "recover"}
<1>1. RequestShape(r, g) /\ RequestReads(r, A) /\ RequestKnows(r, A, F)
  BY DEF RequestOk
<1>2. Fields \subseteq DOMAIN r /\ r.todo \in Seq(Entries)
  BY <1>1 DEF RequestShape
<1>3. CASE r.todo # <<>>
  <2> DEFINE q1 == [r EXCEPT !.at = "recover"]
             q2 == [q1 EXCEPT !.act = Head(r.todo).act]
             q3 == [q2 EXCEPT !.seen = Head(r.todo).seen]
             q == [q3 EXCEPT !.todo = Tail(r.todo)]
  <2>1. Next1(r) = q
    BY <1>3 DEF Next1
  <2>2. DOMAIN q1 = DOMAIN r /\ \A f \in DOMAIN r : q1[f] = IF f = "at" THEN "recover" ELSE r[f]
    BY <1>2 DEF Fields
  <2> HIDE DEF q1
  <2>3. DOMAIN q2 = DOMAIN r /\ \A f \in DOMAIN r : q2[f] = IF f = "act" THEN Head(r.todo).act ELSE q1[f]
    BY <1>2, <2>2 DEF Fields
  <2> HIDE DEF q2
  <2>4. DOMAIN q3 = DOMAIN r /\ \A f \in DOMAIN r : q3[f] = IF f = "seen" THEN Head(r.todo).seen ELSE q2[f]
    BY <1>2, <2>3 DEF Fields
  <2> HIDE DEF q3
  <2>5. DOMAIN q = DOMAIN r /\ \A f \in DOMAIN r : q[f] = IF f = "todo" THEN Tail(r.todo) ELSE q3[f]
    BY <1>2, <2>4 DEF Fields
  <2> HIDE DEF q
  <2>6. /\ q.at = "recover" /\ q.act = Head(r.todo).act /\ q.seen = Head(r.todo).seen /\ q.todo = Tail(r.todo)
        /\ q.generation = r.generation /\ q.joins = r.joins /\ q.mine = r.mine
    BY <1>2, <2>2, <2>3, <2>4, <2>5 DEF Fields
  <2>7. /\ Len(r.todo) \in Nat /\ Len(r.todo) >= 1 /\ Head(r.todo) = r.todo[1] /\ Head(r.todo) \in Entries
        /\ Tail(r.todo) \in Seq(Entries) /\ Len(Tail(r.todo)) = Len(r.todo) - 1
        /\ \A n \in 1 .. Len(Tail(r.todo)) : Tail(r.todo)[n] = r.todo[n + 1]
    BY <1>2, <1>3, HeadTailProperties
  <2>8. StillSo(A, q.act, q.seen) /\ A[q.act].name \in {"child", "steer"}
    <3>1. 1 \in 1 .. Len(r.todo)
      BY <2>7
    <3>2. StillSo(A, r.todo[1].act, r.todo[1].seen) /\ A[r.todo[1].act].name \in {"child", "steer"}
      BY <1>1, <3>1 DEF RequestReads
    <3> QED
      BY <2>6, <2>7, <3>2
  <2>9. \A n \in 1 .. Len(q.todo) : StillSo(A, q.todo[n].act, q.todo[n].seen) /\ A[q.todo[n].act].name \in {"child", "steer"}
    <3> TAKE n \in 1 .. Len(q.todo)
    <3>1. n + 1 \in 1 .. Len(r.todo) /\ q.todo[n] = r.todo[n + 1]
      BY <2>6, <2>7
    <3> QED
      BY <1>1, <3>1 DEF RequestReads
  <2>10. RequestShape(q, g)
    BY <1>1, <2>5, <2>6, <2>7, <2>8 DEF RequestShape, BusyAt, StillSo
  <2>11. RequestReads(q, A)
    BY <2>6, <2>8, <2>9 DEF RequestReads, KindOk, ChildAt, StopAt, ApproveAt, SteerAt
  <2>12. RequestKnows(q, A, F)
    BY <2>6 DEF RequestKnows
  <2> QED
    BY <2>1, <2>6, <2>10, <2>11, <2>12 DEF RequestOk
<1>4. CASE r.todo = <<>> /\ r.joins
  <2> DEFINE q == [r EXCEPT !.at = "activate"]
  <2>1. Next1(r) = q
    BY <1>4 DEF Next1
  <2>2. DOMAIN q = DOMAIN r /\ \A f \in DOMAIN r : q[f] = IF f = "at" THEN "activate" ELSE r[f]
    BY <1>2 DEF Fields
  <2> HIDE DEF q
  <2>3. /\ q.at = "activate" /\ q.act = r.act /\ q.seen = r.seen /\ q.todo = r.todo
        /\ q.generation = r.generation /\ q.joins = r.joins /\ q.mine = r.mine
    BY <1>2, <2>2 DEF Fields
  <2>4. RequestShape(q, g)
    BY <1>1, <2>2, <2>3 DEF RequestShape, BusyAt, JoinAt
  <2>5. RequestReads(q, A)
    BY <1>1, <2>3 DEF RequestReads, JoinAt
  <2>6. RequestKnows(q, A, F)
    BY <2>3 DEF RequestKnows
  <2> QED
    BY <2>1, <2>3, <2>4, <2>5, <2>6 DEF RequestOk
<1>5. CASE r.todo = <<>> /\ ~r.joins
  BY <1>5 DEF Next1, Idle, RequestOk
<1> QED
  BY <1>3, <1>4, <1>5


\* Over puts the next of a request in its place.
LEMMA OversIt ==
  ASSUME NEW t, Over(t)
  PROVE  requests' = [requests EXCEPT ![t] = Next1(requests[t])]
<1> DEFINE r == requests[t]
<1>1. CASE r.todo # <<>>
  BY <1>1 DEF Over, Next1
<1>2. CASE r.todo = <<>> /\ r.joins
  BY <1>2 DEF Over, Next1
<1>3. CASE r.todo = <<>> /\ ~r.joins
  BY <1>3 DEF Over, Next1
<1> QED
  BY <1>1, <1>2, <1>3

\* What the invariant says of one thread's request.
LEMMA Working ==
  ASSUME DashInv, NEW t \in DashThreads, requests[t].at # "idle"
  PROVE  /\ RequestOk(requests[t], acts, gateway.refused, tabSide.generation)
         /\ RequestShape(requests[t], tabSide.generation) /\ RequestReads(requests[t], acts)
         /\ RequestKnows(requests[t], acts, gateway.refused)
         /\ requests[t].act \in DashCalls /\ acts[requests[t].act] \in ActRecs
         /\ requests[t].at \notin JoinAt =>
              /\ StillSo(acts, requests[t].act, requests[t].seen) /\ requests[t].seen \in ActRecs
              /\ acts[requests[t].act].name # "none" /\ KindOk(requests[t].at, acts[requests[t].act].name)
<1>1. RequestOk(requests[t], acts, gateway.refused, tabSide.generation)
  BY DEF DashInv, RequestInv
<1>2. /\ RequestShape(requests[t], tabSide.generation) /\ RequestReads(requests[t], acts)
      /\ RequestKnows(requests[t], acts, gateway.refused)
  BY <1>1 DEF RequestOk
<1>3. requests[t].act \in DashCalls /\ acts[requests[t].act] \in ActRecs
  BY <1>2 DEF DashInv, DashTyped, RequestShape
<1> QED
  BY <1>1, <1>2, <1>3 DEF RequestReads, StillSo

\* Faults are counted up to their bound.
LEMMA Faults ==
  ASSUME DashInv
  PROVE  /\ Faulty => dashFaults' \in 0 .. MaxDashFaults
         /\ UNCHANGED dashFaults => dashFaults' \in 0 .. MaxDashFaults
BY DashAssumption DEF DashInv, DashTyped, Faulty

\* Any step: the parts of the invariant, put together.
LEMMA DashKept ==
  ASSUME DashInv, tabSide' \in [generation : 0 .. MaxJoins, bound : 0 .. MaxJoins],
         tabSide'.bound <= tabSide'.generation, tabSide.generation <= tabSide'.generation,
         gateway' \in Gateways, dashFaults' \in 0 .. MaxDashFaults,
         Forward(acts, gateway.refused, acts', gateway'.refused),
         ActsInv', JobInv', BodyInv', ApproveInv',
         NEW t \in DashThreads, NEW q, requests' = [requests EXCEPT ![t] = q],
         RequestOk(q, acts', gateway'.refused, tabSide'.generation)
  PROVE  DashInv'
<1>1. DOMAIN requests = DashThreads
  BY DEF DashInv, DashTyped
<1>2. DOMAIN requests' = DashThreads /\ requests'[t] = q /\ \A u \in DashThreads : u # t => requests'[u] = requests[u]
  BY <1>1
<1>3. DashTyped'
  BY <1>2 DEF DashTyped, Forward
<1>4. tabSide.generation \in Nat /\ tabSide'.generation \in Nat
  BY DashAssumption DEF DashInv, DashTyped
<1>5. ASSUME NEW u \in DashThreads
      PROVE  RequestOk(requests'[u], acts', gateway'.refused, tabSide'.generation)
  <2>1. CASE u = t
    BY <1>2, <2>1
  <2>2. CASE u # t
    <3>1. RequestOk(requests[u], acts, gateway.refused, tabSide.generation)
      BY DEF DashInv, RequestInv
    <3>2. RequestOk(requests[u], acts', gateway'.refused, tabSide'.generation)
      BY <1>4, <3>1, RequestForward
    <3> QED
      BY <1>2, <2>2, <3>2
  <2> QED
    BY <2>1, <2>2
<1>6. RequestInv'
  BY <1>5 DEF RequestInv
<1> QED
  BY <1>3, <1>6 DEF DashInv

\* The records stay, and the host refuses no less.
LEMMA ActsStay ==
  ASSUME DashInv, acts' = acts, gateway.refused \subseteq gateway'.refused
  PROVE  Forward(acts, gateway.refused, acts', gateway'.refused) /\ ActsInv'
<1>1. acts \in [DashCalls -> ActRecs] /\ ActsInv
  BY DEF DashInv, DashTyped
<1>2. ActsInv'
  BY <1>1 DEF ActsInv
<1>3. \A a \in DashCalls : Known(acts, gateway.refused, a) => Known(acts', gateway'.refused, a)
  BY DEF Known
<1> QED
  BY <1>1, <1>2, <1>3 DEF Forward

\* An action that only goes forward keeps what the invariant says of actions.
LEMMA ActsMove ==
  ASSUME DashInv, NEW a \in DashCalls, NEW x \in ActRecs, acts' = [acts EXCEPT ![a] = x],
         acts[a].name # "none", x.name = acts[a].name, x.key = acts[a].key,
         acts[a].body = 0 \/ x.body = acts[a].body, gateway.refused \subseteq gateway'.refused,
         acts[a].name = "child" => x.run \/ x.state \in {"submitting", "uncertain"} \/ a \in gateway'.refused
  PROVE  /\ Forward(acts, gateway.refused, acts', gateway'.refused) /\ ActsInv'
         /\ acts'[a] = x /\ \A b \in DashCalls : b # a => acts'[b] = acts[b]
         /\ gateway'.posted = gateway.posted => BodyInv'
<1>1. acts \in [DashCalls -> ActRecs] /\ ActsInv /\ BodyInv
  BY DEF DashInv, DashTyped
<1>2. acts' \in [DashCalls -> ActRecs] /\ acts'[a] = x /\ \A b \in DashCalls : b # a => acts'[b] = acts[b]
  BY <1>1
<1>3. Forward(acts, gateway.refused, acts', gateway'.refused)
  BY <1>1, <1>2 DEF Forward, Known
<1>4. ActsInv'
  BY <1>1, <1>2 DEF ActsInv
<1>5. gateway'.posted = gateway.posted => BodyInv'
  BY <1>1, <1>2 DEF BodyInv
<1> QED
  BY <1>2, <1>3, <1>4, <1>5

\* What the invariant says of jobs stays while the host starts none.
LEMMA JobsStay ==
  ASSUME DashInv, Forward(acts, gateway.refused, acts', gateway'.refused), gateway'.jobs = gateway.jobs
  PROVE  JobInv'
<1>1. JobInv
  BY DEF DashInv
<1> QED
  BY <1>1 DEF JobInv, Forward

\* What is decided stays, if the records of the decisions do.
LEMMA ApprovalsStay ==
  ASSUME DashInv, gateway'.decisions = gateway.decisions,
         NEW t \in DashThreads, NEW q, requests' = [requests EXCEPT ![t] = q],
         q.at \notin {"reads", "decides", "decided"},
         \A b \in DashCalls : acts[b].name = "approve" => acts'[b].state = acts[b].state /\ acts'[b].name = "approve"
  PROVE  ApproveInv'
<1>1. DOMAIN requests = DashThreads /\ ApproveInv
  BY DEF DashInv, DashTyped
<1>2. requests'[t] = q /\ \A u \in DashThreads : u # t => requests'[u] = requests[u]
  BY <1>1
<1>3. \A u \in DashThreads : Deciding(u)' => u # t /\ requests'[u] = requests[u] /\ Deciding(u)
  BY <1>2 DEF Deciding
<1>4. \A u \in DashThreads : Deciding(u) => requests[u].act \in DashCalls /\ acts[requests[u].act].name = "approve"
  <2> TAKE u \in DashThreads
  <2> HAVE Deciding(u)
  <2>1. requests[u].at # "idle" /\ requests[u].at \notin JoinAt /\ requests[u].at \in ApproveAt
    BY DEF Deciding, JoinAt, ApproveAt
  <2> QED
    BY <2>1, Working DEF KindOk
<1>5. \A u \in DashThreads : Deciding(u)' =>
        /\ acts'[requests'[u].act].state = IF requests'[u].at = "reads" THEN "approval_checking" ELSE "approval_submitting"
        /\ requests'[u].at # "decided" => gateway'.decisions[requests'[u].act] = 0
  BY <1>1, <1>3, <1>4 DEF ApproveInv
<1>6. \A u \in DashThreads : Deciding(u)' =>
        \A v \in DashThreads : Deciding(v)' /\ requests'[v].act = requests'[u].act => v = u
  BY <1>1, <1>3 DEF ApproveInv
<1>7. \A a \in DashCalls : /\ gateway'.decisions[a] <= 1
                           /\ gateway'.decisions[a] > 0 => acts'[a].name = "approve" /\ acts'[a].state \in {"approval_submitting", "returned"}
  BY <1>1 DEF ApproveInv
<1> QED
  BY <1>5, <1>6, <1>7 DEF ApproveInv

\* The record of an action with some fields changed.
LEMMA ActAmended ==
  ASSUME NEW x \in ActRecs, NEW fields, DOMAIN fields \subseteq {"state", "run", "phase", "body", "receipt", "host"},
         "state" \in DOMAIN fields => fields["state"] \in ActStates,
         "run" \in DOMAIN fields => fields["run"] \in BOOLEAN,
         "phase" \in DOMAIN fields => fields["phase"] \in Phases,
         "body" \in DOMAIN fields => fields["body"] \in 0 .. 2,
         "receipt" \in DOMAIN fields => fields["receipt"] \in Receipts,
         "host" \in DOMAIN fields => fields["host"] \in BOOLEAN
  PROVE  /\ Amended(x, fields) \in ActRecs
         /\ Amended(x, fields).name = x.name /\ Amended(x, fields).key = x.key
         /\ Amended(x, fields).state = (IF "state" \in DOMAIN fields THEN fields["state"] ELSE x.state)
         /\ Amended(x, fields).run = (IF "run" \in DOMAIN fields THEN fields["run"] ELSE x.run)
         /\ Amended(x, fields).body = (IF "body" \in DOMAIN fields THEN fields["body"] ELSE x.body)
<1> DEFINE D == {"name", "state", "key", "run", "phase", "body", "receipt", "host"}
<1>1. DOMAIN x = D
  BY DEF ActRecs
<1>2. DOMAIN x \cup DOMAIN fields = D
  BY <1>1
<1> DEFINE r == [f \in D |-> IF f \in DOMAIN fields THEN fields[f] ELSE x[f]]
<1>3. Amended(x, fields) = r
  BY <1>2 DEF Amended
<1>4. /\ r.name = x.name /\ r.key = x.key
      /\ r.state = (IF "state" \in DOMAIN fields THEN fields["state"] ELSE x.state)
      /\ r.run = (IF "run" \in DOMAIN fields THEN fields["run"] ELSE x.run)
      /\ r.body = (IF "body" \in DOMAIN fields THEN fields["body"] ELSE x.body)
      /\ r.phase = (IF "phase" \in DOMAIN fields THEN fields["phase"] ELSE x.phase)
      /\ r.receipt = (IF "receipt" \in DOMAIN fields THEN fields["receipt"] ELSE x.receipt)
      /\ r.host = (IF "host" \in DOMAIN fields THEN fields["host"] ELSE x.host)
  OBVIOUS
<1>5. r = [name |-> r.name, state |-> r.state, key |-> r.key, run |-> r.run, phase |-> r.phase,
           body |-> r.body, receipt |-> r.receipt, host |-> r.host]
  OBVIOUS
<1>6. /\ x.name \in Names \cup {"none"} /\ x.state \in ActStates /\ x.key \in 0 .. 2 /\ x.run \in BOOLEAN
      /\ x.phase \in Phases /\ x.body \in 0 .. 2 /\ x.receipt \in Receipts /\ x.host \in BOOLEAN
  BY DEF ActRecs
<1> HIDE DEF r
<1>7. /\ r.state \in ActStates /\ r.run \in BOOLEAN /\ r.phase \in Phases /\ r.body \in 0 .. 2
      /\ r.receipt \in Receipts /\ r.host \in BOOLEAN /\ r.name \in Names \cup {"none"} /\ r.key \in 0 .. 2
  BY <1>4, <1>6
<1>8. r \in ActRecs
  BY <1>5, <1>7 DEF ActRecs
<1> QED
  BY <1>3, <1>4, <1>8

\* A state is recorded.
LEMMA RecordsState ==
  ASSUME DashInv, NEW t, requests[t].act \in DashCalls, NEW s \in ActStates, Records(t, [state |-> s])
  PROVE  \E x \in ActRecs : /\ acts' = [acts EXCEPT ![requests[t].act] = x] /\ x.state = s
                            /\ x.name = acts[requests[t].act].name /\ x.key = acts[requests[t].act].key
                            /\ x.body = acts[requests[t].act].body /\ x.run = acts[requests[t].act].run
<1> DEFINE fields == [state |-> s]
           old == acts[requests[t].act]
<1>1. DOMAIN fields = {"state"} /\ fields["state"] = s
  OBVIOUS
<1>2. old \in ActRecs
  BY DEF DashInv, DashTyped
<1>3. acts' = [acts EXCEPT ![requests[t].act] = Amended(old, fields)]
  BY DEF Records
<1> HIDE DEF fields, old
<1>4. /\ Amended(old, fields) \in ActRecs /\ Amended(old, fields).state = s
      /\ Amended(old, fields).name = old.name /\ Amended(old, fields).key = old.key
      /\ Amended(old, fields).body = old.body /\ Amended(old, fields).run = old.run
  BY <1>1, <1>2, ActAmended
<1> QED
  BY <1>3, <1>4 DEF old

\* A request goes on, by what it read.
LEMMA GoesTo ==
  ASSUME NEW A, NEW F, NEW g, NEW r, RequestOk(r, A, F, g), r.at # "idle", r.at \notin JoinAt,
         NEW fields, DOMAIN fields = {"at"}, NEW at \in BusyAt \ JoinAt, at = fields["at"],
         at \notin {"dispatched", "freezes", "saves"}, KindOk(at, A[r.act].name),
         at = "dispatch" => Known(A, F, r.act), at \in {"steers", "posts"} => r.seen.body # 0
  PROVE  RequestOk(Amended(r, fields), A, F, g) /\ Amended(r, fields).at = at /\ Amended(r, fields).act = r.act
<1> DEFINE seen == r.seen
<1>1. StillSo(A, r.act, seen)
  BY DEF RequestOk, RequestReads
<1>2. seen = (IF "seen" \in DOMAIN fields THEN fields["seen"] ELSE r.seen)
  OBVIOUS
<1> HIDE DEF seen
<1>3. at \in {"steers", "posts"} => seen.body # 0
  BY DEF seen
<1> QED
  BY <1>1, <1>2, <1>3, RequestAmended

\* A request goes on, by what it has just written.
LEMMA GoesReading ==
  ASSUME NEW A, NEW F, NEW g, NEW r, RequestOk(r, A, F, g), r.at # "idle",
         NEW fields, DOMAIN fields = {"at", "seen"}, NEW at \in BusyAt \ JoinAt, at = fields["at"],
         at \notin {"dispatched", "freezes", "saves"}, StillSo(A, r.act, fields["seen"]), KindOk(at, A[r.act].name),
         at = "dispatch" => Known(A, F, r.act), at \in {"steers", "posts"} => fields["seen"].body # 0
  PROVE  RequestOk(Amended(r, fields), A, F, g) /\ Amended(r, fields).at = at /\ Amended(r, fields).act = r.act
<1> DEFINE seen == fields["seen"]
<1>2. seen = (IF "seen" \in DOMAIN fields THEN fields["seen"] ELSE r.seen)
  OBVIOUS
<1>3. (at \in {"steers", "posts"} => seen.body # 0) /\ StillSo(A, r.act, seen)
  OBVIOUS
<1> HIDE DEF seen
<1> QED
  BY <1>2, <1>3, RequestAmended

\* A request goes on, with what the host told it.
LEMMA GoesHearing ==
  ASSUME NEW A, NEW F, NEW g, NEW r, RequestOk(r, A, F, g), r.at # "idle", r.at \notin JoinAt,
         NEW fields, DOMAIN fields = {"at", "news"}, NEW at \in {"dispatched", "saves"}, at = fields["at"],
         KindOk(at, A[r.act].name),
         at = "dispatched" => Known(A, F, r.act) /\ fields["news"] \in {"accepted", "uncertain", "failed"}
                              /\ (fields["news"] = "failed" => r.act \in F),
         at = "saves" => fields["news"] \in Findings
  PROVE  RequestOk(Amended(r, fields), A, F, g) /\ Amended(r, fields).at = at /\ Amended(r, fields).act = r.act
<1> DEFINE seen == r.seen
<1>1. StillSo(A, r.act, seen)
  BY DEF RequestOk, RequestReads
<1>2. seen = (IF "seen" \in DOMAIN fields THEN fields["seen"] ELSE r.seen)
  OBVIOUS
<1> HIDE DEF seen
<1>3. at \in BusyAt \ JoinAt
  BY DEF BusyAt, JoinAt, ChildAt, SteerAt
<1>4. DOMAIN fields \subseteq {"at", "seen", "news", "turn"} /\ "at" \in DOMAIN fields /\ "news" \in DOMAIN fields
  OBVIOUS
<1> QED
  BY <1>1, <1>2, <1>3, <1>4, RequestAmended

\* A step of a request that decides nothing, and of which the host learns nothing.
LEMMA Steps ==
  ASSUME DashInv, NEW t \in DashThreads, tabSide' = tabSide, gateway' = gateway, dashFaults' \in 0 .. MaxDashFaults,
         Forward(acts, gateway.refused, acts', gateway.refused), ActsInv', BodyInv',
         NEW q, requests' = [requests EXCEPT ![t] = q], RequestOk(q, acts', gateway.refused, tabSide.generation),
         q.at \notin {"reads", "decides", "decided"},
         \A b \in DashCalls : acts[b].name = "approve" => acts'[b].state = acts[b].state
  PROVE  DashInv'
<1>1. gateway'.refused = gateway.refused /\ gateway'.jobs = gateway.jobs /\ gateway'.decisions = gateway.decisions
  OBVIOUS
<1>2. JobInv'
  BY <1>1, JobsStay
<1>3. \A b \in DashCalls : acts[b].name = "approve" => acts'[b].state = acts[b].state /\ acts'[b].name = "approve"
  BY DEF Forward
<1>4. ApproveInv'
  BY <1>1, <1>3, ApprovalsStay
<1>5. /\ tabSide' \in [generation : 0 .. MaxJoins, bound : 0 .. MaxJoins] /\ tabSide'.bound <= tabSide'.generation
      /\ gateway' \in Gateways
  BY DEF DashInv, DashTyped
<1>6. tabSide.generation <= tabSide'.generation
  BY DashAssumption DEF DashInv, DashTyped
<1>7. RequestOk(q, acts', gateway'.refused, tabSide'.generation) /\ Forward(acts, gateway.refused, acts', gateway'.refused)
  BY <1>1
<1> QED
  BY <1>2, <1>4, <1>5, <1>6, <1>7, DashKept

\* A request is done with its action, whose record stays.
LEMMA GoesOver ==
  ASSUME DashInv, NEW t \in DashThreads, requests[t].at # "idle", Over(t), tabSide' = tabSide, gateway' = gateway,
         acts' = acts, dashFaults' \in 0 .. MaxDashFaults
  PROVE  DashInv'
<1> DEFINE q == Next1(requests[t])
<1>1. requests' = [requests EXCEPT ![t] = q]
  BY OversIt
<1>2. RequestOk(q, acts', gateway.refused, tabSide.generation) /\ q.at \in {"idle", "activate", "recover"}
  BY Working, RequestOver
<1>3. Forward(acts, gateway.refused, acts', gateway.refused) /\ ActsInv'
  BY ActsStay
<1>4. BodyInv'
  BY DEF DashInv, BodyInv
<1> HIDE DEF q
<1>5. q.at \notin {"reads", "decides", "decided"}
  BY <1>2
<1> QED
  BY <1>1, <1>2, <1>3, <1>4, <1>5, Steps

\* A request is over at once, or goes on, and no record moves.
LEMMA GoesIdle ==
  ASSUME DashInv, NEW t \in DashThreads, requests' = [requests EXCEPT ![t] = Idle], tabSide' = tabSide,
         gateway' = gateway, acts' = acts, dashFaults' \in 0 .. MaxDashFaults
  PROVE  DashInv'
<1>1. RequestOk(Idle, acts', gateway.refused, tabSide.generation) /\ Idle.at = "idle"
  BY DEF RequestOk, Idle
<1>2. Forward(acts, gateway.refused, acts', gateway.refused) /\ ActsInv'
  BY ActsStay
<1>3. BodyInv'
  BY DEF DashInv, BodyInv
<1>4. Idle.at \notin {"reads", "decides", "decided"}
  BY <1>1
<1> QED
  BY <1>1, <1>2, <1>3, <1>4, Steps

\* A request that only reads and goes on keeps the invariant.
LEMMA GoesOnReading ==
  ASSUME DashInv, NEW t \in DashThreads, requests[t].at \notin JoinAt \cup {"idle"}, tabSide' = tabSide, gateway' = gateway,
         acts' = acts, dashFaults' \in 0 .. MaxDashFaults, NEW q, requests' = [requests EXCEPT ![t] = q],
         RequestOk(q, acts, gateway.refused, tabSide.generation), q.at \notin {"reads", "decides", "decided"}
  PROVE  DashInv'
<1>2. Forward(acts, gateway.refused, acts', gateway.refused) /\ ActsInv'
  BY ActsStay
<1>3. BodyInv'
  BY DEF DashInv, BodyInv
<1> QED
  BY <1>2, <1>3, Steps

\* The record of a request's action moves, and the request is done with it.
LEMMA ActGoesOver ==
  ASSUME DashInv, NEW t \in DashThreads, requests[t].at \notin JoinAt \cup {"idle"}, Over(t), tabSide' = tabSide,
         gateway' = gateway, dashFaults' \in 0 .. MaxDashFaults,
         NEW x \in ActRecs, acts' = [acts EXCEPT ![requests[t].act] = x],
         x.name = acts[requests[t].act].name, x.key = acts[requests[t].act].key,
         acts[requests[t].act].body = 0 \/ x.body = acts[requests[t].act].body,
         acts[requests[t].act].name = "child" => x.run \/ x.state \in {"submitting", "uncertain"} \/ requests[t].act \in gateway.refused,
         acts[requests[t].act].name # "approve"
  PROVE  DashInv'
<1> DEFINE q == Next1(requests[t])
           a == requests[t].act
<1>1. requests' = [requests EXCEPT ![t] = q]
  BY OversIt
<1>2. a \in DashCalls /\ acts[a].name # "none" /\ RequestOk(requests[t], acts, gateway.refused, tabSide.generation)
  BY Working
<1>3. /\ Forward(acts, gateway.refused, acts', gateway.refused) /\ ActsInv' /\ BodyInv' /\ acts'[a] = x
      /\ \A b \in DashCalls : b # a => acts'[b] = acts[b]
  BY <1>2, ActsMove
<1>4. tabSide.generation \in Nat
  BY DashAssumption DEF DashInv, DashTyped
<1>5. RequestOk(requests[t], acts', gateway.refused, tabSide.generation)
  BY <1>2, <1>3, <1>4, RequestForward
<1>6. RequestOk(q, acts', gateway.refused, tabSide.generation) /\ q.at \in {"idle", "activate", "recover"}
  BY <1>5, RequestOver
<1> HIDE DEF q
<1>7. q.at \notin {"reads", "decides", "decided"}
  BY <1>6
<1>8. \A b \in DashCalls : acts[b].name = "approve" => acts'[b].state = acts[b].state
  BY <1>3
<1> QED
  BY <1>1, <1>3, <1>6, <1>7, <1>8, Steps

\* The record of a request's action moves, and the request goes on.
LEMMA ActGoesOn ==
  ASSUME DashInv, NEW t \in DashThreads, requests[t].at \notin JoinAt \cup {"idle"}, tabSide' = tabSide,
         gateway' = gateway, dashFaults' \in 0 .. MaxDashFaults,
         NEW x \in ActRecs, acts' = [acts EXCEPT ![requests[t].act] = x],
         x.name = acts[requests[t].act].name, x.key = acts[requests[t].act].key,
         acts[requests[t].act].body = 0 \/ x.body = acts[requests[t].act].body,
         acts[requests[t].act].name = "child" => x.run \/ x.state \in {"submitting", "uncertain"} \/ requests[t].act \in gateway.refused,
         acts[requests[t].act].name # "approve",
         NEW at \in {"child", "dispatch", "stopping", "steers", "posts"}, KindOk(at, x.name),
         NEW q, requests' = [requests EXCEPT ![t] = q],
         NEW fields, q = Amended(requests[t], fields), fields["at"] = at,
         \/ DOMAIN fields = {"at"} /\ at \notin {"steers", "posts"}
         \/ DOMAIN fields = {"at", "seen"} /\ fields["seen"] = x /\ (at \in {"steers", "posts"} => x.body # 0)
  PROVE  DashInv'
<1> DEFINE a == requests[t].act
<1>2. /\ a \in DashCalls /\ acts[a].name # "none" /\ RequestOk(requests[t], acts, gateway.refused, tabSide.generation)
      /\ StillSo(acts, a, requests[t].seen)
  BY Working
<1>3. /\ Forward(acts, gateway.refused, acts', gateway.refused) /\ ActsInv' /\ BodyInv' /\ acts'[a] = x
      /\ \A b \in DashCalls : b # a => acts'[b] = acts[b]
  BY <1>2, ActsMove
<1>4. tabSide.generation \in Nat
  BY DashAssumption DEF DashInv, DashTyped
<1>5. RequestOk(requests[t], acts', gateway.refused, tabSide.generation)
  BY <1>2, <1>3, <1>4, RequestForward
<1>6. StillSo(acts', a, requests[t].seen) /\ StillSo(acts', a, x)
  <2>1. acts[a].key = 1
    BY <1>2 DEF DashInv, ActsInv
  <2> QED
    BY <1>2, <1>3, <2>1 DEF StillSo, Forward
<1>7. at \in BusyAt \ JoinAt /\ at \notin {"dispatched", "freezes", "saves"}
  BY DEF BusyAt, JoinAt, ChildAt, StopAt, SteerAt
<1>8. at = "dispatch" => Known(acts', gateway.refused, a)
  <2> HAVE at = "dispatch"
  <2>1. acts[a].name = "child"
    BY DEF KindOk, ChildAt
  <2> QED
    BY <1>3, <2>1 DEF Known
<1>9. KindOk(at, acts'[a].name)
  BY <1>3
<1>10. RequestOk(q, acts', gateway.refused, tabSide.generation) /\ q.at = at
  <2>0. requests[t].at # "idle"
    OBVIOUS
  <2> DEFINE r == requests[t]
             A == acts'
             F == gateway.refused
             g == tabSide.generation
  <2>1. /\ RequestOk(r, A, F, g) /\ r.at # "idle" /\ r.at \notin JoinAt /\ KindOk(at, A[r.act].name)
        /\ at = "dispatch" => Known(A, F, r.act)
    BY <1>5, <1>8, <1>9, <2>0
  <2>2. StillSo(A, r.act, x) /\ q = Amended(r, fields)
    BY <1>6
  <2> HIDE DEF r, A, F, g
  <2>3. RequestOk(q, A, F, g) /\ q.at = at
    <3>1. CASE DOMAIN fields = {"at"} /\ at \notin {"steers", "posts"}
      BY <1>7, <2>1, <2>2, <3>1, GoesTo
    <3>2. CASE DOMAIN fields = {"at", "seen"} /\ fields["seen"] = x /\ (at \in {"steers", "posts"} => x.body # 0)
      BY <1>7, <2>1, <2>2, <3>2, GoesReading
    <3> QED
      BY <3>1, <3>2
  <2> QED
    BY <2>3 DEF A, F, g
<1>11. q.at \notin {"reads", "decides", "decided"}
  BY <1>10
<1>12. \A b \in DashCalls : acts[b].name = "approve" => acts'[b].state = acts[b].state
  BY <1>3
<1> QED
  BY <1>3, <1>10, <1>11, <1>12, Steps

\* A request moves, and the tab or the host with it, and no record does.
LEMMA HostMoved ==
  ASSUME DashInv, NEW t \in DashThreads, acts' = acts, dashFaults' \in 0 .. MaxDashFaults,
         tabSide' \in [generation : 0 .. MaxJoins, bound : 0 .. MaxJoins],
         tabSide'.bound <= tabSide'.generation, tabSide.generation <= tabSide'.generation,
         gateway' \in Gateways, gateway.refused \subseteq gateway'.refused, gateway'.decisions = gateway.decisions,
         JobInv', BodyInv',
         NEW q, requests' = [requests EXCEPT ![t] = q], RequestOk(q, acts, gateway'.refused, tabSide'.generation),
         q.at \notin {"reads", "decides", "decided"}
  PROVE  DashInv'
<1>1. Forward(acts, gateway.refused, acts', gateway'.refused) /\ ActsInv'
  BY ActsStay
<1>2. \A b \in DashCalls : acts[b].name = "approve" => acts'[b].state = acts[b].state /\ acts'[b].name = "approve"
  OBVIOUS
<1>3. ApproveInv'
  BY <1>2, ApprovalsStay
<1> QED
  BY <1>1, <1>3, DashKept

\* Only the tab moves.
LEMMA TabMoved ==
  ASSUME DashInv, NEW t \in DashThreads, acts' = acts, gateway' = gateway, dashFaults' = dashFaults,
         tabSide' \in [generation : 0 .. MaxJoins, bound : 0 .. MaxJoins],
         tabSide'.bound <= tabSide'.generation, tabSide.generation <= tabSide'.generation,
         NEW q, requests' = [requests EXCEPT ![t] = q], RequestOk(q, acts, gateway.refused, tabSide'.generation),
         q.at \notin {"reads", "decides", "decided"}
  PROVE  DashInv'
<1>1. JobInv' /\ BodyInv' /\ gateway' \in Gateways /\ dashFaults' \in 0 .. MaxDashFaults
  BY DEF DashInv, DashTyped, JobInv, BodyInv, Known
<1>2. gateway.refused \subseteq gateway'.refused /\ gateway'.decisions = gateway.decisions
  OBVIOUS
<1>3. RequestOk(q, acts, gateway'.refused, tabSide'.generation)
  OBVIOUS
<1> QED
  BY <1>1, <1>2, <1>3, HostMoved

\* The end of a join keeps the invariant.
LEMMA JoinedKept ==
  ASSUME DashInv, NEW t \in DashThreads, Joined(t)
  PROVE  DashInv'
<1>1. requests[t].at # "idle" /\ UNCHANGED <<tabSide, acts, gateway>>
  BY DEF Joined
<1>2. CASE Over(t) /\ UNCHANGED dashFaults
  BY <1>1, <1>2, Faults, GoesOver
<1>3. CASE requests' = [requests EXCEPT ![t] = Idle] /\ Faulty
  BY <1>1, <1>3, Faults, GoesIdle
<1> QED
  BY <1>2, <1>3 DEF Joined

\* activate keeps the invariant.
LEMMA TabActivateKept ==
  ASSUME DashInv, NEW t \in DashThreads, Activate(t)
  PROVE  DashInv'
<1>1. /\ requests[t].at # "idle" /\ UNCHANGED <<acts, gateway, dashFaults>>
      /\ tabSide' = [tabSide EXCEPT !.bound = requests[t].generation]
      /\ requests' = [requests EXCEPT ![t] = Idle]
  BY DEF Activate
<1>2. requests[t].generation \in 0 .. tabSide.generation
  BY <1>1, Working DEF RequestShape
<1>3. tabSide \in [generation : 0 .. MaxJoins, bound : 0 .. MaxJoins]
  BY DEF DashInv, DashTyped
<1>4. /\ tabSide' \in [generation : 0 .. MaxJoins, bound : 0 .. MaxJoins]
      /\ tabSide'.bound <= tabSide'.generation /\ tabSide.generation <= tabSide'.generation
  BY <1>1, <1>2, <1>3, DashAssumption
<1>5. RequestOk(Idle, acts, gateway.refused, tabSide'.generation) /\ Idle.at = "idle"
  BY DEF RequestOk, Idle
<1>6. Idle.at \notin {"reads", "decides", "decided"}
  BY <1>5
<1> QED
  BY <1>1, <1>4, <1>5, <1>6, TabMoved

\* Closing the tab keeps the invariant.
LEMMA CloseTabKept ==
  ASSUME DashInv, CloseTab
  PROVE  DashInv'
<1>1. UNCHANGED <<acts, requests, gateway, dashFaults>> /\ tabSide' = [tabSide EXCEPT !.bound = 0]
  BY DEF CloseTab
<1>2. tabSide \in [generation : 0 .. MaxJoins, bound : 0 .. MaxJoins]
  BY DEF DashInv, DashTyped
<1>3. /\ tabSide' \in [generation : 0 .. MaxJoins, bound : 0 .. MaxJoins]
      /\ tabSide'.bound = 0 /\ tabSide'.generation = tabSide.generation
  BY <1>1, <1>2, DashAssumption
<1>4. DashTyped'
  BY <1>1, <1>3, DashAssumption DEF DashInv, DashTyped
<1>5. ActsInv' /\ JobInv' /\ BodyInv' /\ ApproveInv'
  BY <1>1 DEF DashInv, ActsInv, JobInv, Known, BodyInv, ApproveInv, Deciding
<1>6. RequestInv'
  BY <1>1, <1>3 DEF DashInv, RequestInv
<1> QED
  BY <1>4, <1>5, <1>6 DEF DashInv

\* A crash keeps the invariant.
LEMMA DiesKept ==
  ASSUME DashInv, Dies
  PROVE  DashInv'
<1>1. /\ UNCHANGED <<acts, gateway>> /\ tabSide' = [tabSide EXCEPT !.bound = 0] /\ Faulty
      /\ requests' = [t \in DashThreads |-> Idle]
  BY DEF Dies
<1>2. tabSide \in [generation : 0 .. MaxJoins, bound : 0 .. MaxJoins]
  BY DEF DashInv, DashTyped
<1>3. /\ tabSide' \in [generation : 0 .. MaxJoins, bound : 0 .. MaxJoins]
      /\ tabSide'.bound = 0 /\ tabSide'.generation = tabSide.generation
  BY <1>1, <1>2, DashAssumption
<1>4. DashTyped'
  BY <1>1, <1>3, DashAssumption, Faults DEF DashInv, DashTyped
<1>5. ActsInv' /\ JobInv' /\ BodyInv'
  BY <1>1 DEF DashInv, ActsInv, JobInv, Known, BodyInv
<1>6. \A t \in DashThreads : requests'[t].at = "idle"
  BY <1>1 DEF Idle
<1>7. RequestInv'
  BY <1>6 DEF RequestInv, RequestOk
<1>8. ApproveInv'
  BY <1>1, <1>6 DEF DashInv, ApproveInv, Deciding
<1> QED
  BY <1>4, <1>5, <1>7, <1>8 DEF DashInv

\* A new turn of the conversation keeps the invariant.
LEMMA TurnMovesKept ==
  ASSUME DashInv, TurnMoves
  PROVE  DashInv'
<1>1. /\ UNCHANGED <<tabSide, acts, requests, dashFaults>>
      /\ gateway' = [gateway EXCEPT !.turn = @ + 1] /\ gateway.turn < 2
  BY DEF TurnMoves
<1>2. gateway \in Gateways
  BY DEF DashInv, DashTyped
<1>3. /\ gateway' \in Gateways /\ gateway'.jobs = gateway.jobs /\ gateway'.refused = gateway.refused
      /\ gateway'.decisions = gateway.decisions /\ gateway'.posted = gateway.posted
  BY <1>1, <1>2 DEF Gateways
<1>4. DashTyped'
  BY <1>1, <1>3 DEF DashInv, DashTyped
<1>5. ActsInv' /\ JobInv' /\ BodyInv' /\ ApproveInv'
  BY <1>1, <1>3 DEF DashInv, ActsInv, JobInv, Known, BodyInv, ApproveInv, Deciding
<1>6. RequestInv'
  BY <1>1, <1>3 DEF DashInv, RequestInv
<1> QED
  BY <1>4, <1>5, <1>6 DEF DashInv

\* What is read of a record that is there goes for it.
LEMMA ReadsItself ==
  ASSUME DashInv, NEW a \in DashCalls, acts[a].name # "none"
  PROVE  StillSo(acts, a, acts[a]) /\ acts[a] \in ActRecs
BY DEF DashInv, DashTyped, ActsInv, StillSo

\* Recovery of an action keeps the invariant.
LEMMA RecoverKept ==
  ASSUME DashInv, NEW t \in DashThreads, Recover(t)
  PROVE  DashInv'
<1> DEFINE a == requests[t].act
<1>1. requests[t].at = "recover" /\ UNCHANGED <<tabSide, gateway>>
  BY DEF Recover
<1>2. requests[t].at # "idle" /\ requests[t].at \notin JoinAt
  BY <1>1 DEF JoinAt
<1>3. /\ a \in DashCalls /\ acts[a] \in ActRecs /\ acts[a].name # "none"
      /\ StillSo(acts, a, acts[a]) /\ StillSo(acts, a, requests[t].seen)
      /\ RequestOk(requests[t], acts, gateway.refused, tabSide.generation)
  BY <1>2, Working, ReadsItself
<1>4. dashFaults' = dashFaults => dashFaults' \in 0 .. MaxDashFaults
  BY Faults
<1>5. {"steer", "child"} \subseteq BusyAt \ JoinAt
  BY DEF BusyAt, JoinAt, ChildAt, SteerAt
<1>6. CASE acts[a].name = "steer" /\ At(t, [at |-> "steer", seen |-> acts[a]]) /\ UNCHANGED <<acts, dashFaults>>
  <2> DEFINE fields == [at |-> "steer", seen |-> acts[a]]
             r == requests[t]
             q == Amended(r, fields)
             at == "steer"
             A == acts
             F == gateway.refused
             g == tabSide.generation
  <2>1. requests' = [requests EXCEPT ![t] = q]
    BY <1>6 DEF At
  <2>2. DOMAIN fields = {"at", "seen"} /\ at = fields["at"] /\ fields["seen"] = acts[a]
    OBVIOUS
  <2>3. RequestOk(r, A, F, g) /\ r.at # "idle" /\ StillSo(A, r.act, fields["seen"]) /\ KindOk(at, A[r.act].name)
    BY <1>2, <1>3, <1>6 DEF KindOk, ChildAt, StopAt, ApproveAt, SteerAt
  <2>4. at \in BusyAt \ JoinAt /\ at \notin {"dispatched", "freezes", "saves", "dispatch", "steers", "posts", "reads", "decides", "decided"}
    BY <1>5
  <2> HIDE DEF fields, r, at, A, F, g
  <2>5. RequestOk(q, A, F, g) /\ q.at = at
    BY <2>2, <2>3, <2>4, GoesReading
  <2>6. q.at \notin {"reads", "decides", "decided"}
    BY <2>4, <2>5
  <2> HIDE DEF q
  <2> QED
    BY <1>1, <1>2, <1>4, <1>6, <2>1, <2>5, <2>6, GoesOnReading DEF A, F, g
<1>7. CASE /\ acts[a].name = "child" /\ At(t, [at |-> "child"]) /\ UNCHANGED <<acts, dashFaults>>
  <2> DEFINE fields == [at |-> "child"]
             r == requests[t]
             q == Amended(r, fields)
             at == "child"
             A == acts
             F == gateway.refused
             g == tabSide.generation
  <2>1. requests' = [requests EXCEPT ![t] = q]
    BY <1>7 DEF At
  <2>2. DOMAIN fields = {"at"} /\ at = fields["at"]
    OBVIOUS
  <2>3. RequestOk(r, A, F, g) /\ r.at # "idle" /\ r.at \notin JoinAt /\ KindOk(at, A[r.act].name)
    BY <1>2, <1>3, <1>7 DEF KindOk, ChildAt, StopAt, ApproveAt, SteerAt
  <2>4. at \in BusyAt \ JoinAt /\ at \notin {"dispatched", "freezes", "saves", "dispatch", "steers", "posts", "reads", "decides", "decided"}
    BY <1>5
  <2> HIDE DEF fields, r, at, A, F, g
  <2>5. RequestOk(q, A, F, g) /\ q.at = at
    BY <2>2, <2>3, <2>4, GoesTo
  <2>6. q.at \notin {"reads", "decides", "decided"}
    BY <2>4, <2>5
  <2> HIDE DEF q
  <2> QED
    BY <1>1, <1>2, <1>4, <1>7, <2>1, <2>5, <2>6, GoesOnReading DEF A, F, g
<1>8. CASE /\ acts[a].name = "child" /\ acts' = [acts EXCEPT ![a].state = "uncertain"]
           /\ At(t, [at |-> "child", seen |-> acts'[a]]) /\ UNCHANGED dashFaults
  <2> DEFINE x == [acts[a] EXCEPT !.state = "uncertain"]
             fields == [at |-> "child", seen |-> acts'[a]]
             q == Amended(requests[t], fields)
             at == "child"
  <2>1. acts' = [acts EXCEPT ![a] = x] /\ acts'[a] = x
    BY <1>3, <1>8 DEF DashInv, DashTyped
  <2>2. x \in ActRecs /\ x.name = acts[a].name /\ x.key = acts[a].key /\ x.body = acts[a].body /\ x.state = "uncertain"
    BY <1>3 DEF ActRecs, ActStates
  <2>3. DOMAIN fields = {"at", "seen"} /\ fields["at"] = at /\ fields["seen"] = x
    BY <2>1
  <2>4. requests' = [requests EXCEPT ![t] = q]
    BY <1>8 DEF At
  <2>5. KindOk(at, x.name)
    BY <1>8, <2>2 DEF KindOk, ChildAt, StopAt, ApproveAt, SteerAt
  <2>6. at \in {"child", "dispatch", "stopping", "steers", "posts"} /\ at \notin {"steers", "posts"}
    OBVIOUS
  <2> HIDE DEF x, fields, at
  <2>7. q = Amended(requests[t], fields)
    OBVIOUS
  <2> HIDE DEF q
  <2>8. /\ requests[t].at \notin JoinAt \cup {"idle"} /\ tabSide' = tabSide /\ gateway' = gateway
        /\ dashFaults' \in 0 .. MaxDashFaults
    BY <1>1, <1>2, <1>4, <1>8
  <2>9. acts[requests[t].act].name = "child" /\ acts[requests[t].act].name # "approve"
    BY <1>8
  <2>10. DOMAIN fields = {"at", "seen"} /\ fields["at"] = at /\ fields["seen"] = x /\ (at \in {"steers", "posts"} => x.body # 0)
    BY <2>3, <2>6
  <2> QED
    BY <2>1, <2>2, <2>4, <2>5, <2>6, <2>7, <2>8, <2>9, <2>10, ActGoesOn
<1>9. CASE requests' = [requests EXCEPT ![t] = Idle] /\ UNCHANGED <<acts, dashFaults>>
  BY <1>1, <1>4, <1>9, GoesIdle
<1> QED
  BY <1>6, <1>7, <1>8, <1>9 DEF Recover

\* A record that is unfinished is of a job or a correction, and was just read.
LEMMA RecoversWell ==
  ASSUME DashInv, NEW a \in DashCalls
  PROVE  /\ Recovers(a) \in Seq(Entries)
         /\ \A n \in 1 .. Len(Recovers(a)) : /\ StillSo(acts, Recovers(a)[n].act, Recovers(a)[n].seen)
                                             /\ acts[Recovers(a)[n].act].name \in {"child", "steer"}
<1>1. CASE Unfinished(a)
  <2> DEFINE e == [act |-> a, seen |-> acts[a]]
  <2>1. acts[a].name \in {"child", "steer"} /\ acts[a].name # "none"
    BY <1>1 DEF Unfinished
  <2>2. StillSo(acts, a, acts[a]) /\ acts[a] \in ActRecs
    BY <2>1, ReadsItself
  <2>3. e \in Entries /\ e.act = a /\ e.seen = acts[a]
    BY <2>2 DEF Entries
  <2>4. Recovers(a) = <<e>>
    BY <1>1 DEF Recovers
  <2> HIDE DEF e
  <2>5. <<e>> \in Seq(Entries) /\ Len(<<e>>) = 1 /\ <<e>>[1] = e
    BY <2>3
  <2> QED
    BY <2>1, <2>2, <2>3, <2>4, <2>5
<1>2. CASE ~Unfinished(a)
  <2>1. Recovers(a) = <<>>
    BY <1>2 DEF Recovers
  <2> QED
    BY <2>1
<1> QED
  BY <1>1, <1>2

\* A join, with the actions it has to recover, keeps the invariant.
LEMMA JoinKept ==
  ASSUME DashInv, NEW t \in DashThreads, Join(t)
  PROVE  DashInv'
<1> DEFINE todo == Recovers(Job) \o Recovers(Control)
           q == [at |-> "join", act |-> Job, seen |-> NoAct, generation |-> tabSide.generation + 1,
                 mine |-> FALSE, joins |-> TRUE, todo |-> todo]
<1>1. /\ requests' = [requests EXCEPT ![t] = q] /\ UNCHANGED <<acts, gateway, dashFaults>>
      /\ tabSide' = [tabSide EXCEPT !.generation = @ + 1] /\ tabSide.generation < MaxJoins
  BY DEF Join
<1>2. tabSide \in [generation : 0 .. MaxJoins, bound : 0 .. MaxJoins] /\ tabSide.bound <= tabSide.generation
  BY DEF DashInv, DashTyped
<1>3. /\ tabSide' \in [generation : 0 .. MaxJoins, bound : 0 .. MaxJoins]
      /\ tabSide'.bound <= tabSide'.generation /\ tabSide'.generation = tabSide.generation + 1
      /\ tabSide.generation <= tabSide'.generation /\ tabSide.generation \in Nat
  BY <1>1, <1>2, DashAssumption
<1>4. Job \in DashCalls /\ Control \in DashCalls
  BY DEF DashCalls
<1>5. todo \in Seq(Entries) /\ \A n \in 1 .. Len(todo) : StillSo(acts, todo[n].act, todo[n].seen) /\ acts[todo[n].act].name \in {"child", "steer"}
  <2> DEFINE s == Recovers(Job)
             u == Recovers(Control)
  <2>1. /\ s \in Seq(Entries)
        /\ \A n \in 1 .. Len(s) : StillSo(acts, s[n].act, s[n].seen) /\ acts[s[n].act].name \in {"child", "steer"}
    BY <1>4, RecoversWell
  <2>2. /\ u \in Seq(Entries)
        /\ \A n \in 1 .. Len(u) : StillSo(acts, u[n].act, u[n].seen) /\ acts[u[n].act].name \in {"child", "steer"}
    BY <1>4, RecoversWell
  <2> HIDE DEF s, u
  <2>3. /\ s \o u \in Seq(Entries) /\ Len(s \o u) = Len(s) + Len(u) /\ Len(s) \in Nat /\ Len(u) \in Nat
        /\ \A n \in 1 .. Len(s) + Len(u) : (s \o u)[n] = IF n <= Len(s) THEN s[n] ELSE u[n - Len(s)]
    BY <2>1, <2>2, ConcatProperties, LenProperties
  <2>4. ASSUME NEW n \in 1 .. Len(s \o u)
        PROVE  StillSo(acts, (s \o u)[n].act, (s \o u)[n].seen) /\ acts[(s \o u)[n].act].name \in {"child", "steer"}
    <3>1. CASE n <= Len(s)
      <4>1. n \in 1 .. Len(s) /\ (s \o u)[n] = s[n]
        BY <2>3, <3>1
      <4> QED
        BY <2>1, <4>1
    <3>2. CASE ~(n <= Len(s))
      <4>1. n - Len(s) \in 1 .. Len(u) /\ (s \o u)[n] = u[n - Len(s)]
        BY <2>3, <3>2
      <4> QED
        BY <2>2, <4>1
    <3> QED
      BY <3>1, <3>2
  <2> QED
    BY <2>3, <2>4 DEF s, u
<1> HIDE DEF todo
<1>6. /\ DOMAIN q = Fields /\ q.at = "join" /\ q.act = Job /\ q.generation = tabSide.generation + 1
      /\ q.mine = FALSE /\ q.joins = TRUE /\ q.todo = todo
  BY DEF Fields
<1> HIDE DEF q
<1>7. RequestShape(q, tabSide'.generation)
  <2>1. q.generation \in 0 .. tabSide'.generation
    BY <1>3, <1>6
  <2>2. q.at \in BusyAt /\ q.joins \in BOOLEAN /\ q.mine \in BOOLEAN
    BY <1>6 DEF BusyAt, JoinAt
  <2>3. Fields \subseteq DOMAIN q /\ q.act \in DashCalls /\ q.todo \in Seq(Entries)
    BY <1>4, <1>5, <1>6
  <2> QED
    BY <2>1, <2>2, <2>3 DEF RequestShape
<1>8. RequestReads(q, acts) /\ RequestKnows(q, acts, gateway.refused)
  BY <1>5, <1>6 DEF RequestReads, RequestKnows, JoinAt
<1>9. RequestOk(q, acts, gateway.refused, tabSide'.generation)
  BY <1>7, <1>8 DEF RequestOk
<1>10. q.at \notin {"reads", "decides", "decided"}
  BY <1>6
<1> QED
  BY <1>1, <1>3, <1>9, <1>10, TabMoved

\* A tool call of the voice keeps the invariant.
LEMMA ToolKept ==
  ASSUME DashInv, NEW t \in DashThreads, NEW a \in DashCalls, NEW name \in Names, Tool(t, a, name)
  PROVE  DashInv'
<1> DEFINE q == [at |-> name, act |-> a, seen |-> acts'[a], generation |-> tabSide.generation,
                 mine |-> TRUE, joins |-> FALSE, todo |-> <<>>]
           n0 == [NoAct EXCEPT !.name = name, !.state = "prepared", !.key = acts[a].key + 1]
<1>1. /\ requests' = [requests EXCEPT ![t] = q] /\ UNCHANGED <<tabSide, gateway, dashFaults>>
      /\ acts[a].name \in {"none", name} /\ (a = Job <=> name = "child")
      /\ acts' = IF Prior(a) THEN acts ELSE [acts EXCEPT ![a] = n0]
  BY DEF Tool
<1>2. acts \in [DashCalls -> ActRecs] /\ ActsInv /\ JobInv /\ BodyInv
  BY DEF DashInv, DashTyped
<1>3. name \in {"child", "stop", "approve", "steer"} /\ name # "none"
  BY DEF Names
<1>4. ~Prior(a) => n0 = [name |-> name, state |-> "prepared", key |-> 1, run |-> FALSE, phase |-> "none",
                         body |-> 0, receipt |-> "none", host |-> FALSE] /\ acts[a].name = "none"
  <2> HAVE ~Prior(a)
  <2>1. acts[a] = NoAct /\ acts[a].name = "none"
    BY <1>2 DEF Prior, ActsInv
  <2>2. acts[a].key + 1 = 1
    BY <2>1 DEF NoAct
  <2>3. n0 = [NoAct EXCEPT !.name = name, !.state = "prepared", !.key = 1]
    BY <2>2
  <2> HIDE DEF n0
  <2> QED
    BY <2>1, <2>3 DEF NoAct
<1>5. ~Prior(a) => n0 \in ActRecs /\ n0.name = name /\ n0.key = 1 /\ n0.body = 0
  <2> HAVE ~Prior(a)
  <2>1. n0 = [name |-> name, state |-> "prepared", key |-> 1, run |-> FALSE, phase |-> "none",
              body |-> 0, receipt |-> "none", host |-> FALSE]
    BY <1>4
  <2> HIDE DEF n0
  <2> QED
    BY <1>3, <2>1 DEF ActRecs, ActStates, Phases, Receipts, Names
<1> HIDE DEF n0
<1>6. /\ acts' \in [DashCalls -> ActRecs] /\ \A b \in DashCalls : b # a \/ Prior(a) => acts'[b] = acts[b]
      /\ ~Prior(a) => acts'[a] = n0
  BY <1>1, <1>2, <1>5
<1>7. acts'[a].name = name /\ acts'[a].key = 1 /\ acts'[a] \in ActRecs
  <2>1. CASE Prior(a)
    BY <1>1, <1>2, <1>6, <2>1 DEF Prior, ActsInv
  <2>2. CASE ~Prior(a)
    BY <1>5, <1>6, <2>2
  <2> QED
    BY <2>1, <2>2
<1>8. \A b \in DashCalls : acts[b].name # "none" => acts'[b] = acts[b]
  BY <1>6 DEF Prior
<1>9. Forward(acts, gateway.refused, acts', gateway.refused)
  BY <1>6, <1>8 DEF Forward, Known
<1>10. ActsInv'
  <2> SUFFICES ASSUME NEW b \in DashCalls
               PROVE  /\ acts'[b].name = "none" => acts'[b] = NoAct
                      /\ acts'[b].name # "none" => acts'[b].key = 1 /\ (b = Job <=> acts'[b].name = "child")
    BY DEF ActsInv
  <2>1. CASE b = a
    BY <1>1, <1>3, <1>7, <2>1
  <2>2. CASE b # a
    BY <1>2, <1>6, <2>2 DEF ActsInv
  <2> QED
    BY <2>1, <2>2
<1>11. BodyInv'
  <2> SUFFICES ASSUME NEW b \in DashCalls PROVE gateway.posted[b] \subseteq {acts'[b].body} \ {0}
    BY <1>1 DEF BodyInv
  <2>1. gateway.posted[b] \subseteq {acts[b].body} \ {0}
    BY <1>2 DEF BodyInv
  <2>2. CASE acts[b].name # "none"
    BY <1>8, <2>1, <2>2
  <2>3. CASE acts[b].name = "none"
    <3>1. acts[b].body = 0
      BY <1>2, <2>3 DEF ActsInv, NoAct
    <3> QED
      BY <2>1, <3>1
  <2> QED
    BY <2>2, <2>3
<1>12. /\ DOMAIN q = Fields /\ q.at = name /\ q.act = a /\ q.seen = acts'[a] /\ q.generation = tabSide.generation
       /\ q.mine = TRUE /\ q.joins = FALSE /\ q.todo = <<>>
  BY DEF Fields
<1> HIDE DEF q
<1>13. StillSo(acts', a, acts'[a])
  BY <1>3, <1>7 DEF StillSo
<1>14. RequestShape(q, tabSide.generation)
  <2>1. tabSide.generation \in 0 .. tabSide.generation
    BY DashAssumption DEF DashInv, DashTyped
  <2>2. name \in BusyAt
    BY <1>3 DEF BusyAt, ChildAt, StopAt, ApproveAt, SteerAt
  <2>3. <<>> \in Seq(Entries)
    OBVIOUS
  <2> QED
    BY <1>12, <2>1, <2>2, <2>3 DEF RequestShape
<1>15. RequestReads(q, acts')
  <2>1. KindOk(name, name)
    BY <1>3 DEF KindOk, ChildAt, StopAt, ApproveAt, SteerAt
  <2>2. Len(q.todo) = 0
    BY <1>12
  <2> QED
    BY <1>7, <1>12, <1>13, <2>1, <2>2 DEF RequestReads
<1>16. RequestKnows(q, acts', gateway.refused)
  BY <1>3, <1>12 DEF RequestKnows
<1>17. RequestOk(q, acts', gateway.refused, tabSide.generation)
  BY <1>14, <1>15, <1>16 DEF RequestOk
<1>18. q.at \notin {"reads", "decides", "decided"}
  BY <1>3, <1>12
<1>19. \A b \in DashCalls : acts[b].name = "approve" => acts'[b].state = acts[b].state
  BY <1>8
<1>20. dashFaults' \in 0 .. MaxDashFaults /\ tabSide' = tabSide /\ gateway' = gateway
  BY <1>1, Faults
<1> QED
  BY <1>1, <1>9, <1>10, <1>11, <1>17, <1>18, <1>19, <1>20, Steps

\* The state of the record is written, and the request goes on with what it wrote or with what it read.
LEMMA RecordsAndGoes ==
  ASSUME DashInv, NEW t \in DashThreads, requests[t].at \notin JoinAt \cup {"idle"},
         UNCHANGED <<tabSide, gateway, dashFaults>>, Records(t, [state |-> "submitting"]),
         acts[requests[t].act].name \in {"child", "stop"},
         NEW at \in {"dispatch", "stopping"}, KindOk(at, acts[requests[t].act].name),
         \/ At(t, [at |-> at])
         \/ At(t, [at |-> at, seen |-> acts'[requests[t].act]])
  PROVE  DashInv'
<1>1. requests[t].act \in DashCalls
  BY Working
<1>2. "submitting" \in ActStates
  BY DEF ActStates
<1>3. PICK x \in ActRecs : /\ acts' = [acts EXCEPT ![requests[t].act] = x] /\ x.state = "submitting"
                           /\ x.name = acts[requests[t].act].name /\ x.key = acts[requests[t].act].key
                           /\ x.body = acts[requests[t].act].body /\ x.run = acts[requests[t].act].run
  BY <1>1, <1>2, RecordsState
<1>4. acts'[requests[t].act] = x
  BY <1>1, <1>3 DEF DashInv, DashTyped
<1>5. PICK fields : /\ requests' = [requests EXCEPT ![t] = Amended(requests[t], fields)] /\ fields["at"] = at
                    /\ \/ DOMAIN fields = {"at"}
                       \/ DOMAIN fields = {"at", "seen"} /\ fields["seen"] = x
  <2>1. CASE At(t, [at |-> at])
    <3> DEFINE f0 == [at |-> at]
    <3>1. f0["at"] = at /\ DOMAIN f0 = {"at"}
      OBVIOUS
    <3>2. requests' = [requests EXCEPT ![t] = Amended(requests[t], f0)]
      BY <2>1 DEF At
    <3> HIDE DEF f0
    <3> QED
      BY <3>1, <3>2
  <2>2. CASE At(t, [at |-> at, seen |-> acts'[requests[t].act]])
    <3> DEFINE f0 == [at |-> at, seen |-> acts'[requests[t].act]]
    <3>1. f0["at"] = at /\ DOMAIN f0 = {"at", "seen"} /\ f0["seen"] = x
      BY <1>4
    <3>2. requests' = [requests EXCEPT ![t] = Amended(requests[t], f0)]
      BY <2>2 DEF At
    <3> HIDE DEF f0
    <3> QED
      BY <3>1, <3>2
  <2> QED
    BY <2>1, <2>2
<1> DEFINE q == Amended(requests[t], fields)
<1>6. requests' = [requests EXCEPT ![t] = q] /\ q = Amended(requests[t], fields)
  BY <1>5
<1> HIDE DEF q
<1>7. dashFaults' \in 0 .. MaxDashFaults
  BY Faults
<1>8. KindOk(at, x.name) /\ acts[requests[t].act].name # "approve" /\ at \notin {"steers", "posts"}
  BY <1>3
<1>9. at \in {"child", "dispatch", "stopping", "steers", "posts"}
  OBVIOUS
<1>10. \/ DOMAIN fields = {"at"} /\ at \notin {"steers", "posts"}
       \/ DOMAIN fields = {"at", "seen"} /\ fields["seen"] = x /\ (at \in {"steers", "posts"} => x.body # 0)
  BY <1>5, <1>8
<1>11. tabSide' = tabSide /\ gateway' = gateway /\ fields["at"] = at
  BY <1>5
<1>12. /\ acts' = [acts EXCEPT ![requests[t].act] = x] /\ x \in ActRecs
       /\ x.name = acts[requests[t].act].name /\ x.key = acts[requests[t].act].key
       /\ acts[requests[t].act].body = 0 \/ x.body = acts[requests[t].act].body
       /\ acts[requests[t].act].name = "child" => x.run \/ x.state \in {"submitting", "uncertain"} \/ requests[t].act \in gateway.refused
  BY <1>3
<1>13. CASE DOMAIN fields = {"at"}
  BY <1>6, <1>7, <1>8, <1>9, <1>11, <1>12, <1>13, ActGoesOn, ZenonT(30)
<1>14. CASE DOMAIN fields = {"at", "seen"} /\ fields["seen"] = x
  BY <1>6, <1>7, <1>8, <1>9, <1>11, <1>12, <1>14, ActGoesOn, ZenonT(30)
<1> QED
  BY <1>10, <1>13, <1>14

\* The checks before a dispatch keep the invariant.
LEMMA DispatchChecksKept ==
  ASSUME DashInv, NEW t \in DashThreads, DispatchChecks(t)
  PROVE  DashInv'
<1>1. requests[t].at = "child" /\ UNCHANGED <<tabSide, gateway, dashFaults>>
  BY DEF DispatchChecks
<1>2. requests[t].at \notin JoinAt \cup {"idle"} /\ requests[t].at # "idle" /\ requests[t].at \notin JoinAt
  BY <1>1 DEF JoinAt
<1>3. acts[requests[t].act].name = "child"
  BY <1>1, <1>2, Working DEF KindOk, ChildAt
<1>4. KindOk("dispatch", acts[requests[t].act].name)
  BY <1>3 DEF KindOk, ChildAt, StopAt, ApproveAt, SteerAt
<1>5. CASE /\ Records(t, [state |-> "submitting"])
           /\ At(t, [at |-> "dispatch", seen |-> acts'[requests[t].act]])
  BY <1>1, <1>2, <1>3, <1>4, <1>5, RecordsAndGoes
<1>6. CASE Over(t) /\ UNCHANGED acts
  BY <1>1, <1>2, <1>6, Faults, GoesOver
<1> QED
  BY <1>5, <1>6 DEF DispatchChecks

\* The start of a stop keeps the invariant.
LEMMA StopBeginsKept ==
  ASSUME DashInv, NEW t \in DashThreads, StopBegins(t)
  PROVE  DashInv'
<1>1. requests[t].at = "stop" /\ UNCHANGED <<tabSide, gateway, dashFaults>>
  BY DEF StopBegins
<1>2. requests[t].at \notin JoinAt \cup {"idle"} /\ requests[t].at # "idle" /\ requests[t].at \notin JoinAt
  BY <1>1 DEF JoinAt
<1>3. acts[requests[t].act].name = "stop"
  BY <1>1, <1>2, Working DEF KindOk, StopAt
<1>4. KindOk("stopping", acts[requests[t].act].name)
  BY <1>3 DEF KindOk, ChildAt, StopAt, ApproveAt, SteerAt
<1>5. CASE Records(t, [state |-> "submitting"]) /\ At(t, [at |-> "stopping"])
  BY <1>1, <1>2, <1>3, <1>4, <1>5, RecordsAndGoes
<1>6. CASE Over(t) /\ UNCHANGED acts
  BY <1>1, <1>2, <1>6, Faults, GoesOver
<1> QED
  BY <1>5, <1>6 DEF StopBegins

\* The host hears of the job of an action and answers, or is not heard.
LEMMA JobAsked ==
  ASSUME DashInv, NEW t \in DashThreads, requests[t].at = "dispatch", tabSide' = tabSide, acts' = acts,
         dashFaults' \in 0 .. MaxDashFaults,
         \/ gateway' = Runs(requests[t].act, requests[t].seen.key) \/ gateway' = gateway
         \/ gateway' = [gateway EXCEPT !.refused = @ \union {requests[t].act}],
         NEW heard \in {"accepted", "uncertain", "failed"},
         heard = "failed" => gateway' = [gateway EXCEPT !.refused = @ \union {requests[t].act}],
         At(t, [at |-> "dispatched", news |-> heard])
  PROVE  DashInv'
<1> DEFINE a == requests[t].act
<1>1. requests[t].at # "idle" /\ requests[t].at \notin JoinAt /\ requests[t].at \in ChildAt
  BY DEF JoinAt, ChildAt
<1>2. /\ a \in DashCalls /\ acts[a].name = "child" /\ requests[t].seen.key = 1 /\ Known(acts, gateway.refused, a)
      /\ RequestOk(requests[t], acts, gateway.refused, tabSide.generation)
  BY <1>1, Working DEF KindOk, StillSo, RequestKnows
<1>3. gateway \in Gateways /\ JobInv /\ BodyInv /\ tabSide \in [generation : 0 .. MaxJoins, bound : 0 .. MaxJoins]
      /\ tabSide.bound <= tabSide.generation
  BY DEF DashInv, DashTyped
<1>4. /\ gateway' \in Gateways /\ gateway'.decisions = gateway.decisions /\ gateway'.posted = gateway.posted
      /\ gateway.refused \subseteq gateway'.refused
      /\ \A b \in DashCalls : gateway'.jobs[b] = gateway.jobs[b] \/ (b = a /\ gateway'.jobs[b] = gateway.jobs[b] \cup {1})
      /\ heard = "failed" => a \in gateway'.refused
  <2>1. CASE gateway' = Runs(a, requests[t].seen.key) /\ heard # "failed"
    <3>1. gateway' = [gateway EXCEPT !.jobs[a] = @ \union {1}]
      BY <1>2, <2>1 DEF Runs
    <3> QED
      BY <1>2, <1>3, <2>1, <3>1 DEF Gateways
  <2>2. CASE gateway' = gateway /\ heard # "failed"
    BY <1>3, <2>2
  <2>3. CASE gateway' = [gateway EXCEPT !.refused = @ \union {a}]
    BY <1>2, <1>3, <2>3 DEF Gateways
  <2> QED
    BY <2>1, <2>2, <2>3
<1>5. JobInv'
  <2> SUFFICES ASSUME NEW b \in DashCalls
               PROVE  gateway'.jobs[b] \subseteq {1} /\ (gateway'.jobs[b] # {} => acts[b].name = "child" /\ Known(acts, gateway'.refused, b))
    BY DEF JobInv
  <2>1. gateway.jobs[b] \subseteq {1} /\ (gateway.jobs[b] # {} => acts[b].name = "child" /\ Known(acts, gateway.refused, b))
    BY <1>3 DEF JobInv
  <2>2. Known(acts, gateway.refused, b) => Known(acts, gateway'.refused, b)
    BY <1>4 DEF Known
  <2> QED
    BY <1>2, <1>4, <2>1, <2>2
<1>6. BodyInv'
  BY <1>3, <1>4 DEF BodyInv
<1>7. tabSide.generation \in Nat /\ tabSide.generation <= tabSide'.generation
  BY <1>3, DashAssumption
<1> DEFINE fields == [at |-> "dispatched", news |-> heard]
           r == requests[t]
           q == Amended(r, fields)
           at == "dispatched"
           A == acts
           F == gateway'.refused
           g == tabSide'.generation
<1>8. requests' = [requests EXCEPT ![t] = q]
  BY DEF At
<1>9. DOMAIN fields = {"at", "news"} /\ at = fields["at"] /\ fields["news"] = heard
  OBVIOUS
<1>10. Forward(acts, gateway.refused, acts, gateway'.refused)
  BY <1>4, ActsStay
<1>11. RequestOk(r, A, F, g)
  BY <1>2, <1>7, <1>10, RequestForward
<1>12. r.at # "idle" /\ r.at \notin JoinAt /\ KindOk(at, A[r.act].name) /\ Known(A, F, r.act)
  <2>1. Known(A, F, a)
    BY <1>2, <1>4 DEF Known
  <2> QED
    BY <1>1, <1>2, <2>1 DEF KindOk, ChildAt, StopAt, ApproveAt, SteerAt
<1>13. heard = "failed" => r.act \in F
  BY <1>4
<1>14. at \in {"dispatched", "saves"} /\ at # "saves" /\ at \notin {"reads", "decides", "decided"}
  OBVIOUS
<1> HIDE DEF fields, r, at, A, F, g
<1>15. RequestOk(q, A, F, g) /\ q.at = at
  BY <1>9, <1>11, <1>12, <1>13, <1>14, GoesHearing
<1>16. q.at \notin {"reads", "decides", "decided"}
  BY <1>14, <1>15
<1> HIDE DEF q
<1>17. RequestOk(q, acts, gateway'.refused, tabSide'.generation)
  BY <1>15 DEF A, F, g
<1>18. tabSide' \in [generation : 0 .. MaxJoins, bound : 0 .. MaxJoins] /\ tabSide'.bound <= tabSide'.generation
  BY <1>3
<1> QED
  BY <1>4, <1>5, <1>6, <1>7, <1>8, <1>16, <1>17, <1>18, HostMoved

\* A dispatch at the host keeps the invariant: one job runs for a call.
LEMMA DispatchKept ==
  ASSUME DashInv, NEW t \in DashThreads, Dispatch(t)
  PROVE  DashInv'
<1> DEFINE a == requests[t].act
           k == requests[t].seen.key
<1>1. requests[t].at = "dispatch" /\ tabSide' = tabSide /\ acts' = acts
  BY DEF Dispatch
<1>2. Unanswered("lost") = "uncertain" /\ Unanswered("refused") = "failed"
  BY DEF Unanswered
<1>3. CASE /\ gateway' = Runs(a, k) /\ UNCHANGED dashFaults
           /\ At(t, [at |-> "dispatched", news |-> "accepted"])
  BY <1>1, <1>3, Faults, JobAsked
<1>4. CASE /\ Faulty /\ gateway' = Runs(a, k)
           /\ At(t, [at |-> "dispatched", news |-> Unanswered("lost")])
  BY <1>1, <1>2, <1>4, Faults, JobAsked
<1>5. CASE /\ Faulty /\ UNCHANGED gateway
           /\ At(t, [at |-> "dispatched", news |-> Unanswered("lost")])
  BY <1>1, <1>2, <1>5, Faults, JobAsked
<1>6. CASE /\ Faulty /\ gateway' = [gateway EXCEPT !.refused = @ \union {a}]
           /\ At(t, [at |-> "dispatched", news |-> Unanswered("refused")])
  BY <1>1, <1>2, <1>6, Faults, JobAsked
<1> QED
  BY <1>3, <1>4, <1>5, <1>6 DEF Dispatch

\* Noting a dispatch keeps the invariant.
LEMMA DispatchedKept ==
  ASSUME DashInv, NEW t \in DashThreads, Dispatched(t)
  PROVE  DashInv'
<1> DEFINE a == requests[t].act
           old == acts[a]
           fields == [state |-> requests[t].news, run |-> old.run \/ requests[t].news = "accepted"]
           x == Amended(old, fields)
<1>1. requests[t].at = "dispatched" /\ Over(t) /\ UNCHANGED <<tabSide, gateway, dashFaults>> /\ acts' = [acts EXCEPT ![a] = x]
  BY DEF Dispatched, Records
<1>2. requests[t].at \notin JoinAt \cup {"idle"} /\ requests[t].at # "idle" /\ requests[t].at \notin JoinAt /\ requests[t].at \in ChildAt
  BY <1>1 DEF JoinAt, ChildAt
<1>3. /\ a \in DashCalls /\ old \in ActRecs /\ old.name = "child"
      /\ requests[t].news \in {"accepted", "uncertain", "failed"} /\ (requests[t].news = "failed" => a \in gateway.refused)
  BY <1>1, <1>2, Working DEF KindOk, RequestKnows
<1>4. /\ DOMAIN fields = {"state", "run"} /\ fields["state"] = requests[t].news
      /\ fields["run"] = (old.run \/ requests[t].news = "accepted")
  OBVIOUS
<1>5. fields["state"] \in ActStates /\ fields["run"] \in BOOLEAN
  BY <1>3, <1>4 DEF ActStates
<1> HIDE DEF fields, old
<1>6. /\ x \in ActRecs /\ x.name = old.name /\ x.key = old.key /\ x.state = fields["state"] /\ x.run = fields["run"] /\ x.body = old.body
  BY <1>3, <1>4, <1>5, ActAmended
<1> HIDE DEF x
<1>7. x.run \/ x.state \in {"submitting", "uncertain"} \/ a \in gateway.refused
  BY <1>3, <1>4, <1>6
<1>8. old = acts[a]
  BY DEF old
<1>9. tabSide' = tabSide /\ gateway' = gateway /\ dashFaults' \in 0 .. MaxDashFaults
  BY <1>1, Faults
<1> QED
  BY <1>1, <1>2, <1>3, <1>6, <1>7, <1>8, <1>9, ActGoesOver

\* Posting a stop keeps the invariant.
LEMMA StopPostsKept ==
  ASSUME DashInv, NEW t \in DashThreads, StopPosts(t)
  PROVE  DashInv'
<1>1. requests[t].at = "stopping" /\ UNCHANGED <<tabSide, acts, gateway>>
  BY DEF StopPosts
<1>2. requests[t].at \notin JoinAt \cup {"idle"} /\ requests[t].at # "idle" /\ requests[t].at \notin JoinAt
  BY <1>1 DEF JoinAt
<1>3. CASE Over(t) /\ Faulty
  BY <1>1, <1>2, <1>3, Faults, GoesOver
<1>4. CASE At(t, [at |-> "stopped"]) /\ UNCHANGED dashFaults
  <2> DEFINE fields == [at |-> "stopped"]
             r == requests[t]
             q == Amended(r, fields)
             at == "stopped"
             A == acts
             F == gateway.refused
             g == tabSide.generation
  <2>1. requests' = [requests EXCEPT ![t] = q]
    BY <1>4 DEF At
  <2>2. DOMAIN fields = {"at"} /\ at = fields["at"]
    OBVIOUS
  <2>3. RequestOk(r, A, F, g) /\ r.at # "idle" /\ r.at \notin JoinAt /\ KindOk(at, A[r.act].name)
    BY <1>1, <1>2, Working DEF KindOk, ChildAt, StopAt, ApproveAt, SteerAt
  <2>4. at \in BusyAt \ JoinAt /\ at \notin {"dispatched", "freezes", "saves", "dispatch", "steers", "posts", "reads", "decides", "decided"}
    BY DEF BusyAt, JoinAt, StopAt
  <2> HIDE DEF fields, r, at, A, F, g
  <2>5. RequestOk(q, A, F, g) /\ q.at = at
    BY <2>2, <2>3, <2>4, GoesTo
  <2>6. q.at \notin {"reads", "decides", "decided"}
    BY <2>4, <2>5
  <2> HIDE DEF q
  <2>7. dashFaults' \in 0 .. MaxDashFaults
    BY <1>4, Faults
  <2> QED
    BY <1>1, <1>2, <2>1, <2>5, <2>6, <2>7, GoesOnReading DEF A, F, g
<1> QED
  BY <1>3, <1>4 DEF StopPosts

\* Noting a stop keeps the invariant.
LEMMA StopReturnsKept ==
  ASSUME DashInv, NEW t \in DashThreads, StopReturns(t)
  PROVE  DashInv'
<1> DEFINE a == requests[t].act
           x == [acts[a] EXCEPT !.state = "returned"]
<1>1. /\ requests[t].at = "stopped" /\ Over(t) /\ UNCHANGED <<tabSide, gateway, dashFaults>>
      /\ acts' = IF Fenced(t) THEN [acts EXCEPT ![a].state = "returned"] ELSE acts
  BY DEF StopReturns
<1>2. requests[t].at \notin JoinAt \cup {"idle"} /\ requests[t].at # "idle" /\ requests[t].at \notin JoinAt /\ requests[t].at \in StopAt
  BY <1>1 DEF JoinAt, StopAt
<1>3. a \in DashCalls /\ acts[a] \in ActRecs /\ acts[a].name = "stop"
  BY <1>2, Working DEF KindOk
<1>4. dashFaults' \in 0 .. MaxDashFaults
  BY <1>1, Faults
<1>5. CASE ~Fenced(t)
  BY <1>1, <1>2, <1>4, <1>5, GoesOver
<1>6. CASE Fenced(t)
  <2>1. acts' = [acts EXCEPT ![a] = x]
    BY <1>1, <1>3, <1>6 DEF DashInv, DashTyped
  <2>2. x \in ActRecs /\ x.name = acts[a].name /\ x.key = acts[a].key /\ x.body = acts[a].body
    BY <1>3 DEF ActRecs, ActStates
  <2> HIDE DEF x
  <2> QED
    BY <1>1, <1>2, <1>3, <1>4, <2>1, <2>2, ActGoesOver
<1> QED
  BY <1>5, <1>6

\* A receipt is recorded, or the one that is there stays, and the request is done.
LEMMA SavesOver ==
  ASSUME DashInv, NEW t \in DashThreads, requests[t].at \in SteerAt, UNCHANGED <<tabSide, gateway>>,
         dashFaults' \in 0 .. MaxDashFaults, NEW heard \in Findings, Saves(t, heard), Over(t)
  PROVE  DashInv'
<1> DEFINE a == requests[t].act
           old == acts[a]
           fields == [receipt |-> heard.receipt, host |-> heard.host, phase |-> heard.phase,
                      state |-> IF heard.phase = "settled" THEN "returned" ELSE "uncertain"]
           x == Amended(old, fields)
<1>1. requests[t].at \notin JoinAt \cup {"idle"} /\ requests[t].at # "idle" /\ requests[t].at \notin JoinAt
  BY DEF JoinAt, SteerAt
<1>2. a \in DashCalls /\ old \in ActRecs /\ old.name = "steer"
  BY <1>1, Working DEF KindOk
<1>3. CASE Keeps(t, heard)
  BY <1>1, <1>3, GoesOver DEF Saves
<1>4. CASE ~Keeps(t, heard)
  <2>1. acts' = [acts EXCEPT ![a] = x]
    BY <1>4 DEF Saves
  <2>2. /\ DOMAIN fields = {"receipt", "host", "phase", "state"} /\ fields["receipt"] = heard.receipt
        /\ fields["host"] = heard.host /\ fields["phase"] = heard.phase /\ fields["state"] \in {"returned", "uncertain"}
    OBVIOUS
  <2>3. heard.receipt \in Receipts /\ heard.host \in BOOLEAN /\ heard.phase \in Phases /\ {"returned", "uncertain"} \subseteq ActStates
    BY DEF Findings, ActStates
  <2> HIDE DEF fields, old
  <2>4. x \in ActRecs /\ x.name = old.name /\ x.key = old.key /\ x.body = old.body
    BY <1>2, <2>2, <2>3, ActAmended
  <2> HIDE DEF x
  <2>5. old = acts[a]
    BY DEF old
  <2> QED
    BY <1>1, <1>2, <2>1, <2>4, <2>5, ActGoesOver
<1> QED
  BY <1>3, <1>4

\* Saving a correction keeps the invariant.
LEMMA SteerSavesKept ==
  ASSUME DashInv, NEW t \in DashThreads, SteerSaves(t)
  PROVE  DashInv'
<1>1. /\ requests[t].at = "saves" /\ Saves(t, requests[t].news) /\ Over(t)
      /\ UNCHANGED <<tabSide, gateway, dashFaults>>
  BY DEF SteerSaves
<1>2. requests[t].at # "idle" /\ requests[t].at \in SteerAt
  BY <1>1 DEF SteerAt
<1>3. requests[t].news \in Findings
  BY <1>1, <1>2, Working DEF RequestKnows
<1>4. dashFaults' \in 0 .. MaxDashFaults
  BY <1>1, Faults
<1> QED
  BY <1>1, <1>2, <1>3, <1>4, SavesOver

\* Looking at the run a correction is for keeps the invariant.
LEMMA SteerLooksKept ==
  ASSUME DashInv, NEW t \in DashThreads, SteerLooks(t)
  PROVE  DashInv'
<1> DEFINE a == requests[t].act
           s == requests[t].seen
           mine == requests[t].mine /\ s.phase # "settled"
<1>1. requests[t].at = "steer" /\ UNCHANGED <<tabSide, gateway>>
  BY DEF SteerLooks
<1>2. requests[t].at # "idle" /\ requests[t].at \in SteerAt /\ requests[t].at \notin JoinAt \cup {"idle"} /\ requests[t].at \notin JoinAt
  BY <1>1 DEF SteerAt, JoinAt
<1>3. a \in DashCalls /\ gateway \in Gateways /\ gateway.queued[a] \in Receipts /\ gateway.turn \in 1 .. 2
  BY <1>2, Working DEF DashInv, DashTyped, Gateways
<1>4. /\ FromHost(a) \in Findings /\ Observed("unknown", "unconfirmed") \in Findings
      /\ Observed("rejected", "settled") \in Findings /\ Observed("unknown", "pending_origin") \in Findings
  BY <1>3 DEF FromHost, Observed, Findings, Receipts, Phases
<1>5. (Faulty => dashFaults' \in 0 .. MaxDashFaults) /\ (UNCHANGED dashFaults => dashFaults' \in 0 .. MaxDashFaults)
  BY Faults
<1>6. CASE Over(t) /\ UNCHANGED <<acts, dashFaults>>
  BY <1>1, <1>2, <1>5, <1>6, GoesOver
<1>7. CASE \E n \in Findings : Saves(t, n) /\ Over(t) /\ (Faulty \/ UNCHANGED dashFaults)
  BY <1>1, <1>2, <1>5, <1>7, SavesOver
<1>8. CASE s.body # 0 /\ At(t, [at |-> "steers"]) /\ UNCHANGED <<acts, dashFaults>>
  <2> DEFINE fields == [at |-> "steers"]
             r == requests[t]
             q == Amended(r, fields)
             at == "steers"
             A == acts
             F == gateway.refused
             g == tabSide.generation
  <2>1. requests' = [requests EXCEPT ![t] = q]
    BY <1>8 DEF At
  <2>2. DOMAIN fields = {"at"} /\ at = fields["at"]
    OBVIOUS
  <2>3. RequestOk(r, A, F, g) /\ r.at # "idle" /\ r.at \notin JoinAt /\ KindOk(at, A[r.act].name) /\ r.seen.body # 0
    BY <1>2, <1>8, Working DEF KindOk, ChildAt, StopAt, ApproveAt, SteerAt
  <2>4. at \in BusyAt \ JoinAt /\ at \notin {"dispatched", "freezes", "saves", "dispatch", "reads", "decides", "decided"}
    BY DEF BusyAt, JoinAt, SteerAt
  <2> HIDE DEF fields, r, at, A, F, g
  <2>5. RequestOk(q, A, F, g) /\ q.at = at
    BY <2>2, <2>3, <2>4, GoesTo
  <2>6. q.at \notin {"reads", "decides", "decided"}
    BY <2>4, <2>5
  <2> HIDE DEF q
  <2>7. dashFaults' \in 0 .. MaxDashFaults
    BY <1>5, <1>8
  <2> QED
    BY <1>1, <1>2, <1>8, <2>1, <2>5, <2>6, <2>7, GoesOnReading DEF A, F, g
<1>9. CASE At(t, [at |-> "freezes", turn |-> gateway.turn]) /\ UNCHANGED <<acts, dashFaults>>
  <2> DEFINE fields == [at |-> "freezes", turn |-> gateway.turn]
             r == requests[t]
             q == Amended(r, fields)
             at == "freezes"
             A == acts
             F == gateway.refused
             g == tabSide.generation
             seen == r.seen
  <2>1. requests' = [requests EXCEPT ![t] = q]
    BY <1>9 DEF At
  <2>2. DOMAIN fields = {"at", "turn"} /\ at = fields["at"] /\ fields["turn"] \in 1 .. 2
    BY <1>3
  <2>3. RequestOk(r, A, F, g) /\ r.at # "idle" /\ KindOk(at, A[r.act].name) /\ StillSo(A, r.act, seen)
    BY <1>2, Working DEF KindOk, ChildAt, StopAt, ApproveAt, SteerAt
  <2>4. at \in BusyAt \ JoinAt /\ at = "freezes"
    BY DEF BusyAt, JoinAt, SteerAt
  <2>5. seen = (IF "seen" \in DOMAIN fields THEN fields["seen"] ELSE r.seen)
    BY <2>2
  <2> HIDE DEF fields, r, at, A, F, g, seen
  <2>6. /\ DOMAIN fields \subseteq {"at", "seen", "news", "turn"} /\ "at" \in DOMAIN fields
        /\ at = "freezes" => "turn" \in DOMAIN fields /\ fields["turn"] \in 1 .. 2
        /\ at = fields["at"] /\ at \in BusyAt \ JoinAt
    BY <2>2, <2>4
  <2>10. /\ at \in {"dispatch", "dispatched"} => Known(A, F, r.act)
         /\ at = "dispatched" => /\ "news" \in DOMAIN fields /\ fields["news"] \in {"accepted", "uncertain", "failed"}
                                 /\ fields["news"] = "failed" => r.act \in F
         /\ at \in {"steers", "posts"} => seen.body # 0
         /\ at = "saves" => "news" \in DOMAIN fields /\ fields["news"] \in Findings
    BY <2>4
  <2>7. RequestOk(q, A, F, g) /\ q.at = at
    BY <2>3, <2>5, <2>6, <2>10, RequestAmended
  <2>8. q.at \notin {"reads", "decides", "decided"}
    BY <2>4, <2>7
  <2> HIDE DEF q
  <2>9. dashFaults' \in 0 .. MaxDashFaults
    BY <1>5, <1>9
  <2> QED
    BY <1>1, <1>2, <1>9, <2>1, <2>7, <2>8, <2>9, GoesOnReading DEF A, F, g
<1>10. \/ SettledForGood(s) /\ Over(t) /\ UNCHANGED <<acts, dashFaults>>
       \/ /\ ~SettledForGood(s) /\ s.body # 0
          /\ \/ /\ gateway.queued[a] # "none"
                /\ Saves(t, FromHost(a)) /\ Over(t) /\ UNCHANGED dashFaults
             \/ /\ gateway.queued[a] = "none" /\ mine
                /\ At(t, [at |-> "steers"]) /\ UNCHANGED <<acts, dashFaults>>
             \/ /\ gateway.queued[a] = "none" /\ ~mine
                /\ Over(t) /\ UNCHANGED <<acts, dashFaults>>
             \/ /\ Saves(t, Observed("unknown", "unconfirmed")) /\ Over(t) /\ Faulty
       \/ /\ ~SettledForGood(s) /\ s.body = 0 /\ ~mine
          /\ Over(t) /\ UNCHANGED <<acts, dashFaults>>
       \/ /\ ~SettledForGood(s) /\ s.body = 0 /\ mine
          /\ \/ /\ At(t, [at |-> "freezes", turn |-> gateway.turn])
                /\ UNCHANGED <<acts, dashFaults>>
             \/ /\ \E n \in {Observed("rejected", "settled"), Observed("unknown", "pending_origin")} :
                     Saves(t, n)
                /\ Over(t) /\ Faulty
  BY DEF SteerLooks
<1> QED
  BY <1>4, <1>6, <1>7, <1>8, <1>9, <1>10

\* Freezing the body of a correction keeps the invariant: the first body stands.
LEMMA FreezeControlKept ==
  ASSUME DashInv, NEW t \in DashThreads, FreezeControl(t)
  PROVE  DashInv'
<1> DEFINE a == requests[t].act
           old == acts[a]
           changed == [body |-> Frozen(t)]
           x == Amended(old, changed)
           fields == [at |-> "steers", seen |-> acts'[a]]
           q == Amended(requests[t], fields)
           at == "steers"
<1>1. requests[t].at = "freezes" /\ tabSide' = tabSide /\ gateway' = gateway /\ dashFaults' = dashFaults
  BY DEF FreezeControl
<1>2. /\ requests[t].at # "idle" /\ requests[t].at \in SteerAt /\ requests[t].at \notin JoinAt \cup {"idle"}
      /\ requests[t].at \notin JoinAt /\ dashFaults' \in 0 .. MaxDashFaults
  BY <1>1, Faults DEF SteerAt, JoinAt
<1>3. a \in DashCalls /\ old \in ActRecs /\ old.name = "steer" /\ requests[t].turn \in 1 .. 2
  BY <1>1, <1>2, Working DEF KindOk, RequestKnows
<1>4. CASE Over(t) /\ UNCHANGED acts
  BY <1>1, <1>2, <1>4, GoesOver
<1>5. CASE Records(t, changed) /\ At(t, fields)
  <2>1. acts' = [acts EXCEPT ![a] = x] /\ requests' = [requests EXCEPT ![t] = q]
    BY <1>5 DEF Records, At
  <2>2. acts'[a] = x
    BY <1>3, <2>1 DEF DashInv, DashTyped
  <2>3. Frozen(t) \in 0 .. 2 /\ Frozen(t) # 0 /\ (old.body = 0 \/ Frozen(t) = old.body)
    BY <1>3 DEF Frozen, ActRecs
  <2>4. DOMAIN changed = {"body"} /\ changed["body"] = Frozen(t)
    OBVIOUS
  <2>5. DOMAIN fields = {"at", "seen"} /\ fields["at"] = at /\ fields["seen"] = x
    BY <2>2
  <2>6. q = Amended(requests[t], fields) /\ KindOk(at, "steer") /\ old = acts[a]
    BY DEF KindOk, ChildAt, StopAt, ApproveAt, SteerAt
  <2>7. at \in {"child", "dispatch", "stopping", "steers", "posts"}
    OBVIOUS
  <2> HIDE DEF changed, old, fields, q, at
  <2>8. x \in ActRecs /\ x.name = old.name /\ x.key = old.key /\ x.body = Frozen(t)
    BY <1>3, <2>3, <2>4, ActAmended
  <2> HIDE DEF x
  <2>9. /\ x \in ActRecs /\ x.name = acts[requests[t].act].name /\ x.key = acts[requests[t].act].key
        /\ acts[requests[t].act].body = 0 \/ x.body = acts[requests[t].act].body
        /\ acts[requests[t].act].name # "child" /\ acts[requests[t].act].name # "approve" /\ KindOk(at, x.name)
        /\ x.body # 0
    BY <1>3, <2>3, <2>6, <2>8
  <2> QED
    BY <1>1, <1>2, <2>1, <2>5, <2>6, <2>7, <2>9, ActGoesOn, ZenonT(30)
<1> QED
  BY <1>4, <1>5 DEF FreezeControl

\* Submitting a correction keeps the invariant.
LEMMA SteerSubmitsKept ==
  ASSUME DashInv, NEW t \in DashThreads, SteerSubmits(t)
  PROVE  DashInv'
<1> DEFINE a == requests[t].act
           old == acts[a]
           changed == [state |-> "submitting", phase |-> "submitting"]
           x == Amended(old, changed)
           fields == [at |-> "posts", seen |-> acts'[a]]
           q == Amended(requests[t], fields)
           at == "posts"
<1>1. requests[t].at = "steers" /\ tabSide' = tabSide /\ gateway' = gateway /\ dashFaults' = dashFaults
  BY DEF SteerSubmits
<1>2. /\ requests[t].at # "idle" /\ requests[t].at \in SteerAt /\ requests[t].at \notin JoinAt \cup {"idle"}
      /\ requests[t].at \notin JoinAt /\ dashFaults' \in 0 .. MaxDashFaults
  BY <1>1, Faults DEF SteerAt, JoinAt
<1>3. a \in DashCalls /\ old \in ActRecs /\ old.name = "steer" /\ old.body # 0
  BY <1>1, <1>2, Working DEF KindOk, RequestKnows, StillSo
<1>4. CASE Over(t) /\ UNCHANGED acts
  BY <1>1, <1>2, <1>4, GoesOver
<1>5. CASE Records(t, changed) /\ At(t, fields)
  <2>1. acts' = [acts EXCEPT ![a] = x] /\ requests' = [requests EXCEPT ![t] = q]
    BY <1>5 DEF Records, At
  <2>2. acts'[a] = x
    BY <1>3, <2>1 DEF DashInv, DashTyped
  <2>4. /\ DOMAIN changed = {"state", "phase"} /\ changed["state"] \in ActStates /\ changed["phase"] \in Phases
    BY DEF ActStates, Phases
  <2>5. DOMAIN fields = {"at", "seen"} /\ fields["at"] = at /\ fields["seen"] = x
    BY <2>2
  <2>6. q = Amended(requests[t], fields) /\ KindOk(at, "steer") /\ old = acts[a]
    BY DEF KindOk, ChildAt, StopAt, ApproveAt, SteerAt
  <2>7. at \in {"child", "dispatch", "stopping", "steers", "posts"}
    OBVIOUS
  <2> HIDE DEF changed, old, fields, q, at
  <2>8. x \in ActRecs /\ x.name = old.name /\ x.key = old.key /\ x.body = old.body
    BY <1>3, <2>4, ActAmended
  <2> HIDE DEF x
  <2>9. /\ x \in ActRecs /\ x.name = acts[requests[t].act].name /\ x.key = acts[requests[t].act].key
        /\ acts[requests[t].act].body = 0 \/ x.body = acts[requests[t].act].body
        /\ acts[requests[t].act].name # "child" /\ acts[requests[t].act].name # "approve" /\ KindOk(at, x.name)
        /\ x.body # 0
    BY <1>3, <2>6, <2>8
  <2> QED
    BY <1>1, <1>2, <2>1, <2>5, <2>6, <2>7, <2>9, ActGoesOn, ZenonT(30)
<1> QED
  BY <1>4, <1>5 DEF SteerSubmits

\* The correction was posted, or was not, and the answer is to be saved.
LEMMA CorrectionPosted ==
  ASSUME DashInv, NEW t \in DashThreads, requests[t].at = "posts", tabSide' = tabSide, acts' = acts,
         dashFaults' \in 0 .. MaxDashFaults, gateway' \in Gateways, gateway'.jobs = gateway.jobs,
         gateway'.refused = gateway.refused, gateway'.decisions = gateway.decisions,
         \A b \in DashCalls : \/ gateway'.posted[b] = gateway.posted[b]
                              \/ b = requests[t].act /\ gateway'.posted[b] = gateway.posted[b] \cup {requests[t].seen.body},
         NEW heard \in Findings, At(t, [at |-> "saves", news |-> heard])
  PROVE  DashInv'
<1> DEFINE a == requests[t].act
           s == requests[t].seen
           fields == [at |-> "saves", news |-> heard]
           r == requests[t]
           q == Amended(r, fields)
           at == "saves"
           A == acts
           F == gateway.refused
           g == tabSide.generation
<1>1. requests[t].at # "idle" /\ requests[t].at \in SteerAt /\ requests[t].at \notin JoinAt
  BY DEF SteerAt, JoinAt
<1>2. a \in DashCalls /\ acts[a].name = "steer" /\ s.body # 0 /\ acts[a].body = s.body
  BY <1>1, Working DEF KindOk, RequestKnows, StillSo
<1>3. BodyInv'
  <2> SUFFICES ASSUME NEW b \in DashCalls PROVE gateway'.posted[b] \subseteq {acts[b].body} \ {0}
    BY DEF BodyInv
  <2>1. gateway.posted[b] \subseteq {acts[b].body} \ {0}
    BY DEF DashInv, BodyInv
  <2> QED
    BY <1>2, <2>1
<1>4. JobInv'
  <2>1. Forward(acts, gateway.refused, acts', gateway'.refused)
    BY ActsStay
  <2> QED
    BY <2>1, JobsStay
<1>5. requests' = [requests EXCEPT ![t] = q]
  BY DEF At
<1>6. DOMAIN fields = {"at", "news"} /\ at = fields["at"] /\ fields["news"] = heard
  OBVIOUS
<1>7. RequestOk(r, A, F, g) /\ r.at # "idle" /\ r.at \notin JoinAt /\ KindOk(at, A[r.act].name)
  BY <1>1, <1>2, Working DEF KindOk, ChildAt, StopAt, ApproveAt, SteerAt
<1>8. at \in {"dispatched", "saves"} /\ at # "dispatched" /\ at \notin {"reads", "decides", "decided"}
  OBVIOUS
<1> HIDE DEF fields, r, at, A, F, g
<1>9. RequestOk(q, A, F, g) /\ q.at = at
  BY <1>6, <1>7, <1>8, GoesHearing
<1>10. q.at \notin {"reads", "decides", "decided"}
  BY <1>8, <1>9
<1> HIDE DEF q
<1>11. RequestOk(q, acts, gateway'.refused, tabSide'.generation)
  BY <1>9 DEF A, F, g
<1>12. /\ tabSide' \in [generation : 0 .. MaxJoins, bound : 0 .. MaxJoins] /\ tabSide'.bound <= tabSide'.generation
       /\ tabSide.generation <= tabSide'.generation /\ gateway.refused \subseteq gateway'.refused
  BY DashAssumption DEF DashInv, DashTyped
<1> QED
  BY <1>3, <1>4, <1>5, <1>10, <1>11, <1>12, HostMoved

\* Posting a correction keeps the invariant: what is posted was frozen.
LEMMA SteerPostsKept ==
  ASSUME DashInv, NEW t \in DashThreads, SteerPosts(t)
  PROVE  DashInv'
<1> DEFINE a == requests[t].act
           b == requests[t].seen.body
           word == IF gateway.queued[a] = "none" THEN (IF b = gateway.turn THEN "queued" ELSE "rejected")
                   ELSE gateway.queued[a]
           g1 == [gateway EXCEPT !.posted = [gateway.posted EXCEPT ![a] = gateway.posted[a] \union {b}]]
           g2 == [g1 EXCEPT !.queued = [g1.queued EXCEPT ![a] = word]]
           Posted == [gateway EXCEPT !.posted[a] = @ \union {b},
                        !.queued[a] = IF @ = "none" THEN (IF b = gateway.turn THEN "queued" ELSE "rejected") ELSE @]
<1>1. requests[t].at = "posts" /\ tabSide' = tabSide /\ acts' = acts
  BY DEF SteerPosts
<1>2. requests[t].at # "idle" /\ requests[t].at \in SteerAt /\ requests[t].at \notin JoinAt
  BY <1>1 DEF SteerAt, JoinAt
<1>3. a \in DashCalls /\ b \in 0 .. 2 /\ gateway \in Gateways
  BY <1>2, Working DEF DashInv, DashTyped, ActRecs
<1>4. /\ g1 \in Gateways /\ g1.jobs = gateway.jobs /\ g1.refused = gateway.refused /\ g1.decisions = gateway.decisions
      /\ g1.queued = gateway.queued /\ g1.posted[a] = gateway.posted[a] \cup {b}
      /\ \A c \in DashCalls : c # a => g1.posted[c] = gateway.posted[c]
  BY <1>3 DEF Gateways
<1>5. Posted = g2
  BY <1>3 DEF Gateways
<1>6. word \in Receipts
  BY <1>3 DEF Gateways, Receipts
<1> HIDE DEF g1, word
<1>7. /\ g2 \in Gateways /\ g2.jobs = g1.jobs /\ g2.refused = g1.refused /\ g2.decisions = g1.decisions
      /\ g2.posted = g1.posted /\ g2.queued[a] \in Receipts
  BY <1>3, <1>4, <1>6 DEF Gateways
<1> HIDE DEF g2
<1>8. /\ Posted \in Gateways /\ Posted.jobs = gateway.jobs /\ Posted.refused = gateway.refused
      /\ Posted.decisions = gateway.decisions /\ Posted.posted[a] = gateway.posted[a] \cup {b}
      /\ Posted.queued[a] \in Receipts
      /\ \A c \in DashCalls : c # a => Posted.posted[c] = gateway.posted[c]
  BY <1>4, <1>5, <1>7
<1> HIDE DEF Posted
<1>9. Observed("unknown", "unconfirmed") \in Findings
  BY DEF Observed, Findings, Receipts, Phases
<1>10. (Faulty => dashFaults' \in 0 .. MaxDashFaults) /\ (UNCHANGED dashFaults => dashFaults' \in 0 .. MaxDashFaults)
  BY Faults
<1>11. CASE /\ gateway' = Posted /\ UNCHANGED dashFaults
            /\ At(t, [at |-> "saves", news |-> [receipt |-> gateway'.queued[a], host |-> TRUE, phase |-> "settled"]])
  <2> DEFINE heard == [receipt |-> gateway'.queued[a], host |-> TRUE, phase |-> "settled"]
  <2>1. heard \in Findings
    BY <1>8, <1>11 DEF Findings, Phases
  <2>2. At(t, [at |-> "saves", news |-> heard])
    BY <1>11
  <2> HIDE DEF heard
  <2> QED
    BY <1>1, <1>8, <1>10, <1>11, <2>1, <2>2, CorrectionPosted
<1>12. CASE gateway' = Posted /\ Faulty /\ At(t, [at |-> "saves", news |-> Observed("unknown", "unconfirmed")])
  BY <1>1, <1>8, <1>9, <1>10, <1>12, CorrectionPosted
<1>13. CASE UNCHANGED gateway /\ Faulty /\ At(t, [at |-> "saves", news |-> Observed("unknown", "unconfirmed")])
  BY <1>1, <1>3, <1>9, <1>10, <1>13, CorrectionPosted
<1> QED
  BY <1>11, <1>12, <1>13 DEF SteerPosts, Posted

\* One request decides, and its record and the host move with it.
LEMMA ApprovalMoves ==
  ASSUME DashInv, NEW t \in DashThreads, requests[t].at \in ApproveAt, tabSide' = tabSide,
         dashFaults' \in 0 .. MaxDashFaults,
         NEW x \in ActRecs, acts' = [acts EXCEPT ![requests[t].act] = x],
         x.name = acts[requests[t].act].name, x.key = acts[requests[t].act].key, x.body = acts[requests[t].act].body,
         gateway' \in Gateways, gateway'.jobs = gateway.jobs, gateway'.refused = gateway.refused,
         gateway'.posted = gateway.posted,
         \A b \in DashCalls : b # requests[t].act => gateway'.decisions[b] = gateway.decisions[b],
         gateway'.decisions[requests[t].act] <= 1,
         gateway'.decisions[requests[t].act] > 0 => x.state \in {"approval_submitting", "returned"},
         Deciding(t) \/ acts[requests[t].act].state = "prepared",
         NEW q, requests' = [requests EXCEPT ![t] = q],
         RequestOk(q, acts', gateway.refused, tabSide.generation),
         q.at \in {"reads", "decides", "decided"} =>
           /\ q.act = requests[t].act
           /\ x.state = IF q.at = "reads" THEN "approval_checking" ELSE "approval_submitting"
           /\ q.at # "decided" => gateway'.decisions[q.act] = 0
  PROVE  DashInv'
<1> DEFINE a == requests[t].act
<1>1. requests[t].at \notin JoinAt \cup {"idle"} /\ requests[t].at # "idle" /\ requests[t].at \notin JoinAt
  BY DEF ApproveAt, JoinAt
<1>2. a \in DashCalls /\ acts[a].name = "approve" /\ acts[a].name # "none" /\ acts[a].name # "child"
  BY <1>1, Working DEF KindOk
<1>3. gateway.refused \subseteq gateway'.refused
  OBVIOUS
<1>4. /\ Forward(acts, gateway.refused, acts', gateway'.refused) /\ ActsInv' /\ BodyInv' /\ acts'[a] = x
      /\ \A b \in DashCalls : b # a => acts'[b] = acts[b]
  BY <1>2, <1>3, ActsMove
<1>5. JobInv'
  BY <1>4, JobsStay
<1>6. DOMAIN requests = DashThreads /\ ApproveInv
  BY DEF DashInv, DashTyped
<1>7. requests'[t] = q /\ \A u \in DashThreads : u # t => requests'[u] = requests[u]
  BY <1>6
<1>8. \A u \in DashThreads : u # t /\ Deciding(u) => requests[u].act # a /\ requests[u].act \in DashCalls
  <2> SUFFICES ASSUME NEW u \in DashThreads, u # t, Deciding(u) PROVE requests[u].act # a /\ requests[u].act \in DashCalls
    OBVIOUS
  <2>1. requests[u].at # "idle"
    BY DEF Deciding
  <2>2. requests[u].act \in DashCalls
    BY <2>1, Working
  <2>3. CASE Deciding(t)
    BY <1>6, <2>2, <2>3 DEF ApproveInv
  <2>4. CASE acts[a].state = "prepared"
    BY <1>6, <2>2, <2>4 DEF ApproveInv
  <2> QED
    BY <2>3, <2>4
<1>9. \A u \in DashThreads : u # t => (Deciding(u)' <=> Deciding(u))
  BY <1>7 DEF Deciding
<1>10. Deciding(t)' <=> q.at \in {"reads", "decides", "decided"}
  BY <1>7 DEF Deciding
<1>11. ASSUME NEW u \in DashThreads, Deciding(u)'
       PROVE  /\ acts'[requests'[u].act].state = IF requests'[u].at = "reads" THEN "approval_checking" ELSE "approval_submitting"
              /\ requests'[u].at # "decided" => gateway'.decisions[requests'[u].act] = 0
              /\ \A v \in DashThreads : Deciding(v)' /\ requests'[v].act = requests'[u].act => v = u
  <2>1. CASE u = t
    <3>1. \A v \in DashThreads : Deciding(v)' /\ requests'[v].act = requests'[u].act => v = u
      BY <1>7, <1>8, <1>9, <1>10, <1>11, <2>1
    <3>2. acts'[requests'[u].act].state = IF requests'[u].at = "reads" THEN "approval_checking" ELSE "approval_submitting"
      BY <1>4, <1>7, <1>10, <1>11, <2>1
    <3>3. requests'[u].at # "decided" => gateway'.decisions[requests'[u].act] = 0
      BY <1>7, <1>10, <1>11, <2>1
    <3> QED
      BY <3>1, <3>2, <3>3
  <2>2. CASE u # t
    <3>0. Deciding(u) /\ requests'[u] = requests[u] /\ requests[u].act # a /\ requests[u].act \in DashCalls
      BY <1>7, <1>8, <1>9, <1>11, <2>2
    <3>1. \A v \in DashThreads : Deciding(v)' /\ requests'[v].act = requests'[u].act => v = u
      <4> SUFFICES ASSUME NEW v \in DashThreads, Deciding(v)', requests'[v].act = requests'[u].act PROVE v = u
        OBVIOUS
      <4>1. CASE v = t
        BY <1>7, <1>10, <3>0, <4>1
      <4>2. CASE v # t
        BY <1>6, <1>7, <1>9, <3>0, <4>2 DEF ApproveInv
      <4> QED
        BY <4>1, <4>2
    <3>2. acts'[requests'[u].act].state = IF requests'[u].at = "reads" THEN "approval_checking" ELSE "approval_submitting"
      BY <1>4, <1>6, <3>0 DEF ApproveInv
    <3>3. requests'[u].at # "decided" => gateway'.decisions[requests'[u].act] = 0
      BY <1>6, <3>0 DEF ApproveInv
    <3> QED
      BY <3>1, <3>2, <3>3
  <2> QED
    BY <2>1, <2>2
<1>12. \A b \in DashCalls : /\ gateway'.decisions[b] <= 1
                            /\ gateway'.decisions[b] > 0 => acts'[b].name = "approve" /\ acts'[b].state \in {"approval_submitting", "returned"}
  <2> SUFFICES ASSUME NEW b \in DashCalls
               PROVE  /\ gateway'.decisions[b] <= 1
                      /\ gateway'.decisions[b] > 0 => acts'[b].name = "approve" /\ acts'[b].state \in {"approval_submitting", "returned"}
    OBVIOUS
  <2>1. CASE b = a
    BY <1>2, <1>4, <2>1
  <2>2. CASE b # a
    BY <1>4, <1>6, <2>2 DEF ApproveInv
  <2> QED
    BY <2>1, <2>2
<1>13. ApproveInv'
  BY <1>11, <1>12 DEF ApproveInv
<1>14. /\ tabSide' \in [generation : 0 .. MaxJoins, bound : 0 .. MaxJoins] /\ tabSide'.bound <= tabSide'.generation
       /\ tabSide.generation <= tabSide'.generation
  BY DashAssumption DEF DashInv, DashTyped
<1>15. RequestOk(q, acts', gateway'.refused, tabSide'.generation)
  OBVIOUS
<1> QED
  BY <1>4, <1>5, <1>13, <1>14, <1>15, DashKept

\* A request that works on an approval: its call id, its record, and what was decided.
LEMMA ApprovalAt ==
  ASSUME DashInv, NEW t \in DashThreads, requests[t].at \in ApproveAt
  PROVE  /\ requests[t].at \notin JoinAt \cup {"idle"} /\ requests[t].at # "idle" /\ requests[t].at \notin JoinAt
         /\ requests[t].act \in DashCalls /\ acts[requests[t].act].name = "approve" /\ acts[requests[t].act] \in ActRecs
         /\ RequestOk(requests[t], acts, gateway.refused, tabSide.generation)
         /\ StillSo(acts, requests[t].act, requests[t].seen)
         /\ gateway \in Gateways /\ gateway.decisions[requests[t].act] \in {0, 1}
         /\ requests[t].at \in {"reads", "decides"} => gateway.decisions[requests[t].act] = 0
         /\ acts[requests[t].act].state = "prepared" => gateway.decisions[requests[t].act] = 0
         /\ tabSide.generation \in Nat
<1>1. requests[t].at \notin JoinAt \cup {"idle"} /\ requests[t].at # "idle" /\ requests[t].at \notin JoinAt
  BY DEF JoinAt, ApproveAt
<1>2. /\ requests[t].act \in DashCalls /\ acts[requests[t].act].name = "approve" /\ acts[requests[t].act] \in ActRecs
      /\ RequestOk(requests[t], acts, gateway.refused, tabSide.generation) /\ StillSo(acts, requests[t].act, requests[t].seen)
  BY <1>1, Working DEF KindOk
<1>3. gateway \in Gateways /\ ApproveInv /\ tabSide.generation \in Nat
  BY DashAssumption DEF DashInv, DashTyped
<1>4. gateway.decisions[requests[t].act] \in 0 .. 2 /\ gateway.decisions[requests[t].act] <= 1
  BY <1>2, <1>3 DEF Gateways, ApproveInv
<1>5. requests[t].at \in {"reads", "decides"} => gateway.decisions[requests[t].act] = 0
  BY <1>3 DEF ApproveInv, Deciding
<1>6. gateway.decisions[requests[t].act] > 0 => acts[requests[t].act].state \in {"approval_submitting", "returned"}
  BY <1>2, <1>3 DEF ApproveInv
<1> QED
  BY <1>1, <1>2, <1>3, <1>4, <1>5, <1>6

\* The record of the approval is written and the request is done.
LEMMA ApprovalOver ==
  ASSUME DashInv, NEW t \in DashThreads, requests[t].at \in {"reads", "decides", "decided"},
         tabSide' = tabSide, gateway' = gateway, dashFaults' \in 0 .. MaxDashFaults,
         NEW s \in {"failed", "returned"}, s = "failed" => requests[t].at # "decided",
         Records(t, [state |-> s]), Over(t)
  PROVE  DashInv'
<1> DEFINE a == requests[t].act
           q == Next1(requests[t])
<1>1. requests[t].at \in ApproveAt
  BY DEF ApproveAt
<1>2. /\ requests[t].at # "idle" /\ a \in DashCalls /\ acts[a].name = "approve"
      /\ RequestOk(requests[t], acts, gateway.refused, tabSide.generation) /\ tabSide.generation \in Nat
      /\ gateway \in Gateways /\ gateway.decisions[a] \in {0, 1} /\ (s = "failed" => gateway.decisions[a] = 0)
  BY <1>1, ApprovalAt
<1>3. s \in ActStates
  BY DEF ActStates
<1>4. PICK x \in ActRecs : /\ acts' = [acts EXCEPT ![a] = x] /\ x.state = s
                           /\ x.name = acts[a].name /\ x.key = acts[a].key
                           /\ x.body = acts[a].body /\ x.run = acts[a].run
  BY <1>2, <1>3, RecordsState
<1>5. Forward(acts, gateway.refused, acts', gateway'.refused)
  BY <1>2, <1>4, ActsMove
<1>6. RequestOk(requests[t], acts', gateway'.refused, tabSide.generation)
  BY <1>2, <1>5, RequestForward
<1>7. RequestOk(q, acts', gateway.refused, tabSide.generation) /\ q.at \in {"idle", "activate", "recover"}
  BY <1>2, <1>6, RequestOver
<1>8. requests' = [requests EXCEPT ![t] = q]
  BY OversIt
<1> HIDE DEF q
<1>9. Deciding(t) /\ q.at \notin {"reads", "decides", "decided"}
  BY <1>7 DEF Deciding
<1>10. gateway'.decisions[a] <= 1 /\ (gateway'.decisions[a] > 0 => x.state \in {"approval_submitting", "returned"})
  BY <1>2, <1>4
<1> QED
  BY <1>1, <1>2, <1>4, <1>7, <1>8, <1>9, <1>10, ApprovalMoves

\* The record of the approval is written and the request goes on.
LEMMA ApprovalGoesOn ==
  ASSUME DashInv, NEW t \in DashThreads, tabSide' = tabSide, gateway' = gateway, dashFaults' = dashFaults,
         NEW at \in {"reads", "decides"}, NEW s \in {"approval_checking", "approval_submitting"},
         \/ requests[t].at = "approve" /\ at = "reads" /\ s = "approval_checking" /\ acts[requests[t].act].state = "prepared"
         \/ requests[t].at = "reads" /\ at = "decides" /\ s = "approval_submitting",
         Records(t, [state |-> s]), At(t, [at |-> at])
  PROVE  DashInv'
<1> DEFINE a == requests[t].act
           fields == [at |-> at]
           r == requests[t]
           q == Amended(r, fields)
           A == acts'
           F == gateway.refused
           g == tabSide.generation
<1>1. requests[t].at \in ApproveAt /\ requests[t].at # "decides" /\ (Deciding(t) \/ acts[a].state = "prepared")
  BY DEF ApproveAt, Deciding
<1>2. /\ requests[t].at # "idle" /\ requests[t].at \notin JoinAt /\ a \in DashCalls /\ acts[a].name = "approve"
      /\ RequestOk(requests[t], acts, gateway.refused, tabSide.generation) /\ tabSide.generation \in Nat
      /\ gateway \in Gateways /\ gateway.decisions[a] = 0
  BY <1>1, ApprovalAt
<1>3. s \in ActStates
  BY DEF ActStates
<1>4. PICK x \in ActRecs : /\ acts' = [acts EXCEPT ![a] = x] /\ x.state = s
                           /\ x.name = acts[a].name /\ x.key = acts[a].key
                           /\ x.body = acts[a].body /\ x.run = acts[a].run
  BY <1>2, <1>3, RecordsState
<1>5. Forward(acts, gateway.refused, acts', gateway'.refused) /\ acts'[a] = x
  BY <1>2, <1>4, ActsMove
<1>6. RequestOk(requests[t], acts', gateway'.refused, tabSide.generation)
  BY <1>2, <1>5, RequestForward
<1>7. requests' = [requests EXCEPT ![t] = q]
  BY DEF At
<1>8. DOMAIN fields = {"at"} /\ fields["at"] = at
  OBVIOUS
<1>9. RequestOk(r, A, F, g) /\ r.at # "idle" /\ r.at \notin JoinAt /\ KindOk(at, A[r.act].name) /\ r.act = a
  BY <1>2, <1>4, <1>5, <1>6 DEF KindOk, ChildAt, StopAt, ApproveAt, SteerAt
<1>10. at \in BusyAt \ JoinAt /\ at \notin {"dispatched", "freezes", "saves", "dispatch", "steers", "posts"}
  BY DEF BusyAt, JoinAt, ApproveAt
<1> HIDE DEF fields, r, A, F, g
<1>11. RequestOk(q, A, F, g) /\ q.at = at /\ q.act = a
  BY <1>8, <1>9, <1>10, GoesTo
<1> HIDE DEF q
<1>12. RequestOk(q, acts', gateway.refused, tabSide.generation)
  BY <1>11 DEF A, F, g
<1>13. q.at \in {"reads", "decides", "decided"} =>
         /\ q.act = a
         /\ x.state = IF q.at = "reads" THEN "approval_checking" ELSE "approval_submitting"
         /\ q.at # "decided" => gateway'.decisions[q.act] = 0
  BY <1>2, <1>4, <1>11
<1>14. /\ gateway'.decisions[a] <= 1 /\ (gateway'.decisions[a] > 0 => x.state \in {"approval_submitting", "returned"})
       /\ dashFaults' \in 0 .. MaxDashFaults
  BY <1>2, Faults
<1> QED
  BY <1>1, <1>2, <1>4, <1>7, <1>12, <1>13, <1>14, ApprovalMoves

\* Claiming an approval keeps the invariant.
LEMMA ClaimApprovalKept ==
  ASSUME DashInv, NEW t \in DashThreads, ClaimApproval(t)
  PROVE  DashInv'
<1>1. requests[t].at = "approve" /\ tabSide' = tabSide /\ gateway' = gateway /\ dashFaults' = dashFaults
  BY DEF ClaimApproval
<1>2. CASE Over(t) /\ UNCHANGED acts
  BY <1>1, <1>2, Faults, GoesOver
<1>3. CASE Claims(requests[t].act) /\ Records(t, [state |-> "approval_checking"]) /\ At(t, [at |-> "reads"])
  BY <1>1, <1>3, ApprovalGoesOn DEF Claims
<1> QED
  BY <1>2, <1>3 DEF ClaimApproval

\* Freezing an approval keeps the invariant.
LEMMA FreezeApprovalKept ==
  ASSUME DashInv, NEW t \in DashThreads, FreezeApproval(t)
  PROVE  DashInv'
<1>1. requests[t].at = "reads" /\ tabSide' = tabSide /\ gateway' = gateway
  BY DEF FreezeApproval
<1>2. CASE Records(t, [state |-> "approval_submitting"]) /\ At(t, [at |-> "decides"]) /\ UNCHANGED dashFaults
  BY <1>1, <1>2, ApprovalGoesOn
<1>3. CASE Records(t, [state |-> "failed"]) /\ Over(t) /\ (UNCHANGED dashFaults \/ Faulty)
  BY <1>1, <1>3, Faults, ApprovalOver
<1> QED
  BY <1>2, <1>3 DEF FreezeApproval

\* Noting a decision keeps the invariant.
LEMMA DecidedKept ==
  ASSUME DashInv, NEW t \in DashThreads, Decided(t)
  PROVE  DashInv'
<1>1. /\ requests[t].at = "decided" /\ tabSide' = tabSide /\ gateway' = gateway /\ dashFaults' = dashFaults
      /\ Records(t, [state |-> "returned"]) /\ Over(t)
  BY DEF Decided
<1> QED
  BY <1>1, Faults, ApprovalOver

\* A decision at the host keeps the invariant: it is made once.
LEMMA DecideKept ==
  ASSUME DashInv, NEW t \in DashThreads, Decide(t)
  PROVE  DashInv'
<1> DEFINE a == requests[t].act
           Moved == [gateway EXCEPT !.decisions[a] = IF @ < 2 THEN @ + 1 ELSE @, !.pending = FALSE]
<1>1. requests[t].at = "decides" /\ tabSide' = tabSide
  BY DEF Decide
<1>2. requests[t].at \in ApproveAt /\ Deciding(t)
  BY <1>1 DEF ApproveAt, Deciding
<1>3. (Faulty => dashFaults' \in 0 .. MaxDashFaults) /\ (UNCHANGED dashFaults => dashFaults' \in 0 .. MaxDashFaults)
  BY Faults
<1>4. CASE Records(t, [state |-> "failed"]) /\ Over(t) /\ UNCHANGED <<gateway, dashFaults>>
  BY <1>1, <1>3, <1>4, ApprovalOver
<1>5. CASE /\ (UNCHANGED dashFaults \/ Faulty) /\ (gateway' = Moved \/ gateway' = gateway)
           /\ At(t, [at |-> "decided"]) /\ UNCHANGED acts
  <2> DEFINE fields == [at |-> "decided"]
             r == requests[t]
             q == Amended(r, fields)
             at == "decided"
             x == acts[a]
             A == acts
             F == gateway.refused
             g == tabSide.generation
  <2>1. /\ requests[t].at # "idle" /\ requests[t].at \notin JoinAt /\ a \in DashCalls /\ acts[a].name = "approve"
        /\ RequestOk(requests[t], acts, gateway.refused, tabSide.generation) /\ gateway \in Gateways
        /\ gateway.decisions[a] = 0 /\ x \in ActRecs
    BY <1>1, <1>2, ApprovalAt
  <2>2. /\ gateway' \in Gateways /\ gateway'.jobs = gateway.jobs /\ gateway'.refused = gateway.refused
        /\ gateway'.posted = gateway.posted /\ gateway'.decisions[a] \in {0, 1}
        /\ \A b \in DashCalls : b # a => gateway'.decisions[b] = gateway.decisions[b]
    <3>1. CASE gateway' = gateway
      BY <2>1, <3>1
    <3>2. CASE gateway' = Moved
      <4> DEFINE g1 == [gateway EXCEPT !.decisions = [gateway.decisions EXCEPT ![a] = 1]]
                 g2 == [g1 EXCEPT !.pending = FALSE]
      <4>1. Moved = g2
        BY <2>1 DEF Gateways
      <4>2. /\ g1 \in Gateways /\ g1.jobs = gateway.jobs /\ g1.refused = gateway.refused /\ g1.posted = gateway.posted
            /\ g1.decisions[a] = 1 /\ \A b \in DashCalls : b # a => g1.decisions[b] = gateway.decisions[b]
        BY <2>1 DEF Gateways
      <4> HIDE DEF g1
      <4>3. g2 \in Gateways /\ g2.jobs = g1.jobs /\ g2.refused = g1.refused /\ g2.posted = g1.posted /\ g2.decisions = g1.decisions
        BY <4>2 DEF Gateways
      <4> HIDE DEF g2, Moved
      <4> QED
        BY <3>2, <4>1, <4>2, <4>3
    <3> QED
      BY <1>5, <3>1, <3>2
  <2>3. acts[a].state = "approval_submitting"
    BY <1>1, <1>2 DEF DashInv, ApproveInv
  <2>4. acts' = [acts EXCEPT ![a] = x]
    BY <1>5, <2>1 DEF DashInv, DashTyped
  <2>5. requests' = [requests EXCEPT ![t] = q]
    BY <1>5 DEF At
  <2>6. DOMAIN fields = {"at"} /\ at = fields["at"]
    OBVIOUS
  <2>7. RequestOk(r, A, F, g) /\ r.at # "idle" /\ r.at \notin JoinAt /\ KindOk(at, A[r.act].name) /\ r.act = a
    BY <2>1 DEF KindOk, ChildAt, StopAt, ApproveAt, SteerAt
  <2>8. at \in BusyAt \ JoinAt /\ at \notin {"dispatched", "freezes", "saves", "dispatch", "steers", "posts"} /\ at = "decided"
    BY DEF BusyAt, JoinAt, ApproveAt
  <2> HIDE DEF fields, r, at, A, F, g, x
  <2>14. (at = "dispatch" => Known(A, F, r.act)) /\ (at \in {"steers", "posts"} => r.seen.body # 0)
         /\ at \in BusyAt \ JoinAt /\ at \notin {"dispatched", "freezes", "saves"}
    BY <2>8
  <2>15. RequestOk(q, A, F, g) /\ q.at = at /\ q.act = r.act
    BY <2>6, <2>7, <2>14, GoesTo
  <2>9. RequestOk(q, A, F, g) /\ q.at = at /\ q.act = a
    BY <2>7, <2>15
  <2> HIDE DEF q
  <2>10. RequestOk(q, acts', gateway.refused, tabSide.generation)
    BY <1>5, <2>9 DEF A, F, g
  <2>11. x.name = acts[a].name /\ x.key = acts[a].key /\ x.body = acts[a].body /\ x.state = "approval_submitting"
    BY <2>3 DEF x
  <2>12. q.at \in {"reads", "decides", "decided"} =>
           /\ q.act = a
           /\ x.state = IF q.at = "reads" THEN "approval_checking" ELSE "approval_submitting"
           /\ q.at # "decided" => gateway'.decisions[q.act] = 0
    BY <2>8, <2>9, <2>11
  <2>13. /\ gateway'.decisions[a] <= 1 /\ (gateway'.decisions[a] > 0 => x.state \in {"approval_submitting", "returned"})
         /\ dashFaults' \in 0 .. MaxDashFaults
    BY <1>3, <1>5, <2>2, <2>11
  <2> HIDE DEF Moved
  <2> QED
    BY <1>1, <1>2, <2>1, <2>2, <2>4, <2>5, <2>10, <2>11, <2>12, <2>13, ApprovalMoves
<1> QED
  BY <1>4, <1>5 DEF Decide

\* Every step of the actions keeps the invariant.
LEMMA DashStepKept ==
  ASSUME DashInv, DashNext
  PROVE  DashInv'
<1>1. CASE CloseTab \/ Dies \/ TurnMoves
  BY <1>1, CloseTabKept, DiesKept, TurnMovesKept
<1>2. ASSUME NEW t \in DashThreads,
             \/ Join(t) \/ Joined(t) \/ Activate(t) \/ Recover(t)
             \/ \E a \in DashCalls, name \in Names : Tool(t, a, name)
             \/ DispatchChecks(t) \/ Dispatch(t) \/ Dispatched(t)
      PROVE  DashInv'
  BY <1>2, JoinKept, JoinedKept, TabActivateKept, RecoverKept, ToolKept, DispatchChecksKept, DispatchKept, DispatchedKept
<1>3. ASSUME NEW t \in DashThreads,
             \/ StopBegins(t) \/ StopPosts(t) \/ StopReturns(t)
             \/ ClaimApproval(t) \/ FreezeApproval(t) \/ Decide(t) \/ Decided(t)
      PROVE  DashInv'
  BY <1>3, StopBeginsKept, StopPostsKept, StopReturnsKept, ClaimApprovalKept, FreezeApprovalKept, DecideKept, DecidedKept
<1>4. ASSUME NEW t \in DashThreads,
             SteerLooks(t) \/ FreezeControl(t) \/ SteerSubmits(t) \/ SteerPosts(t) \/ SteerSaves(t)
      PROVE  DashInv'
  BY <1>4, SteerLooksKept, FreezeControlKept, SteerSubmitsKept, SteerPostsKept, SteerSavesKept
<1> QED
  BY <1>1, <1>2, <1>3, <1>4 DEF DashNext

\* Actions that do not run keep their invariant.
LEMMA DashRests ==
  ASSUME DashInv, UNCHANGED dashVars
  PROVE  DashInv'
<1>1. acts' = acts /\ requests' = requests /\ gateway' = gateway /\ tabSide' = tabSide /\ dashFaults' = dashFaults
  BY DEF dashVars
<1>2. DashTyped'
  BY <1>1 DEF DashInv, DashTyped
<1>3. ActsInv' /\ JobInv' /\ BodyInv' /\ ApproveInv'
  BY <1>1 DEF DashInv, ActsInv, JobInv, Known, BodyInv, ApproveInv, Deciding
<1>4. RequestInv'
  BY <1>1 DEF DashInv, RequestInv
<1> QED
  BY <1>2, <1>3, <1>4 DEF DashInv

\* The actions start in their invariant.
LEMMA DashStarts == DashInit => DashInv
<1> SUFFICES ASSUME DashInit PROVE DashInv
  OBVIOUS
<1>1. /\ tabSide = [generation |-> 0, bound |-> 0] /\ acts = [a \in DashCalls |-> NoAct]
      /\ requests = [t \in DashThreads |-> Idle] /\ dashFaults = 0
      /\ gateway = [jobs |-> [a \in DashCalls |-> {}], refused |-> {}, turn |-> 1, pending |-> TRUE,
                    decisions |-> [a \in DashCalls |-> 0], posted |-> [a \in DashCalls |-> {}],
                    queued |-> [a \in DashCalls |-> "none"]]
  BY DEF DashInit
<1>2. NoAct \in ActRecs /\ NoAct.name = "none" /\ NoAct.body = 0
  BY DEF NoAct, ActRecs, ActStates, Phases, Receipts
<1>3. acts \in [DashCalls -> ActRecs] /\ \A a \in DashCalls : acts[a] = NoAct
  BY <1>1, <1>2
<1>4. /\ gateway \in Gateways
      /\ \A a \in DashCalls : gateway.jobs[a] = {} /\ gateway.posted[a] = {} /\ gateway.decisions[a] = 0
  BY <1>1 DEF Gateways, Receipts
<1>5. tabSide \in [generation : 0 .. MaxJoins, bound : 0 .. MaxJoins] /\ tabSide.bound <= tabSide.generation
  BY <1>1, DashAssumption
<1>6. DOMAIN requests = DashThreads /\ \A t \in DashThreads : requests[t].at = "idle"
  BY <1>1 DEF Idle
<1>7. DashTyped
  BY <1>1, <1>3, <1>4, <1>5, <1>6, DashAssumption DEF DashTyped
<1>8. ActsInv /\ JobInv /\ BodyInv
  BY <1>2, <1>3, <1>4 DEF ActsInv, JobInv, BodyInv
<1>9. RequestInv
  BY <1>6 DEF RequestInv, RequestOk
<1>10. ApproveInv
  BY <1>4, <1>6 DEF ApproveInv, Deciding
<1> QED
  BY <1>7, <1>8, <1>9, <1>10 DEF DashInv

\* What the invariant says is enough for what is checked.
LEMMA DashInvIsEnough == DashInv => DashSafe
<1> SUFFICES ASSUME DashInv PROVE DashSafe
  OBVIOUS
<1>1. gateway \in Gateways /\ acts \in [DashCalls -> ActRecs]
  BY DEF DashInv, DashTyped
<1>2. \A x, S : S \subseteq {x} => Cardinality(S) <= 1
  <2> SUFFICES ASSUME NEW x, NEW S, S \subseteq {x} PROVE Cardinality(S) <= 1
    OBVIOUS
  <2>1. IsFiniteSet({x}) /\ Cardinality({x}) = 1
    BY FS_Singleton
  <2> QED
    BY <2>1, FS_Subset
<1>3. DashTypeOK
  <2>1. /\ tabSide \in [generation : 0 .. MaxJoins, bound : 0 .. MaxJoins] /\ tabSide.bound <= tabSide.generation
        /\ dashFaults \in 0 .. MaxDashFaults
    BY DEF DashInv, DashTyped
  <2>2. tabSide.generation \in 0 .. MaxJoins /\ tabSide.bound \in 0 .. tabSide.generation
    BY <2>1, DashAssumption
  <2>3. \A a \in DashCalls : acts[a].key \in 0 .. 2 /\ acts[a].body \in 0 .. 2
    BY <1>1 DEF ActRecs
  <2> QED
    BY <2>1, <2>2, <2>3 DEF DashTypeOK
<1>4. OneJobPerCall
  <2>1. \A a \in DashCalls : gateway.jobs[a] \subseteq {1}
    BY DEF DashInv, JobInv
  <2> QED
    BY <1>2, <2>1 DEF OneJobPerCall
<1>5. JobsAreKnown
  BY DEF DashInv, JobInv, Known, JobsAreKnown
<1>6. OneDecision
  BY DEF DashInv, ApproveInv, OneDecision, Gateways, DashTyped
<1>7. SameBody
  <2>1. \A a \in DashCalls : gateway.posted[a] \subseteq {acts[a].body}
    BY DEF DashInv, BodyInv
  <2> QED
    BY <1>2, <2>1 DEF SameBody
<1> QED
  BY <1>3, <1>4, <1>5, <1>6, <1>7 DEF DashSafe

\* The values of the task updates.
JobRecs == [state : JobStates, at : 1..LastUpdate]
PollRecs == [job : NewsJobs, state : JobStates, at : 1..LastUpdate]
NewsRecs == [job : NewsJobs, state : JobStates, at : 1..LastUpdate, live : BOOLEAN, gen : Nat]
\* The states of a row's record that may be claimed again or wait for it, and those that may not.
Shelved == {"none", "due", "deferred", "queued"}
SealedStates == {"submitting", "sent", "playback_started", "playback_acknowledged", "unknown", "interrupted"}
Audible == {"sent", "playback_started", "playback_acknowledged"}
SpeechRecs == [state : Shelved \cup SealedStates, claim : Nat, gen : Nat, facts : SUBSET SealedStates]
Showing == {"claimed", "telling", "cleared", "speaking", "playing"}
TabRecs == [at : {"idle", "asking"} \cup Showing, idx : Nat, claim : Nat, replay : BOOLEAN]
ReceiptRecs == [idx : Rows, claim : Nat, gen : Nat, state : SealedStates \cup {"deferred"}]

\* What was read of a job is not ahead of it, and an end that was read is its end.
Follows(x, J) == x.at <= J[x.job].at /\ (x.state \in Terminal => J[x.job].state \in Terminal /\ x.at = J[x.job].at)
\* Two rows of a job with no change of state between them.
SameRun(N, i, k) ==
    /\ N[i].job = N[k].job
    /\ \A m \in DOMAIN N : N[m].job = N[i].job /\ ((i <= m /\ m <= k) \/ (k <= m /\ m <= i)) => N[m].state = N[i].state

\* The log has its types.
LogTypes ==
    /\ jobs \in [NewsJobs -> JobRecs]
    /\ polls \subseteq PollRecs
    /\ news \in Seq(NewsRecs)

\* The log and the polls on their way follow the jobs.
LogInv ==
    /\ LogTypes
    /\ \A seen \in polls : Follows(seen, jobs)
    /\ \A i \in DOMAIN news : Follows(news[i], jobs)
    /\ LogFollowsJob

\* The speech has its types.
SpeechTypes ==
    /\ speech \in [Rows -> SpeechRecs]
    /\ claims \in 0..MaxClaims /\ tabGen \in 1..MaxTabs
    /\ tab \in TabRecs /\ mail \in Seq(ReceiptRecs)
    /\ said \in [Rows -> Nat] /\ replayed \subseteq DOMAIN news

\* What the tab shows is the newest claim; what it has not handed over was not told.
ShowInv ==
    /\ tab.at # "idle" => tab.idx \in DOMAIN news
    /\ tab.at \in {"idle", "asking"} => tab.claim = 0
    /\ tab.at \in Showing => tab.claim = claims /\ speech[tab.idx].claim = claims /\ claims > 0
    /\ tab.at \in {"speaking", "playing"} => tab.claim \in dispatched
    /\ tab.at \in {"claimed", "telling", "cleared"} /\ tab.idx \notin replayed => said[tab.idx] = 0
    /\ tab.at = "cleared" => speech[tab.idx].state \in SealedStates

\* What is on its way.
Letters(M) == {M[n] : n \in DOMAIN M}

\* A receipt on its way is of a claim that was made, and true of what was handed over.
GoodLetter(r, t, c, D) ==
    /\ r.claim \in 1..c
    /\ r.state \in Audible => r.claim \in D
    /\ t.at = "claimed" => r.claim # t.claim
    /\ t.at = "telling" /\ r.claim = t.claim => r.state = "submitting" /\ r.idx = t.idx

\* Every receipt on its way is good.
MailInv == \A r \in Letters(mail) : GoodLetter(r, tab, claims, dispatched)

\* Claims are counted; a row that was told was claimed, and no two rows have one claim.
ClaimInv ==
    /\ \A i \in Rows :
          /\ speech[i].claim <= claims
          /\ speech[i].state = "none" <=> speech[i].claim = 0
          /\ i \notin DOMAIN news => speech[i].claim = 0 /\ said[i] = 0
          /\ said[i] > 0 => speech[i].claim > 0
    /\ \A i, k \in Rows : speech[i].claim = speech[k].claim => i = k \/ speech[i].claim = 0

\* A record's facts are true, what was submitted is sealed, and one row is active at most.
FactInv ==
    /\ RecordIsTrue
    /\ \A i \in Rows : "submitting" \in speech[i].facts => speech[i].state \in SealedStates
    /\ \A i, k \in Rows : speech[i].state \in ActiveSpeech /\ speech[k].state \in ActiveSpeech => i = k

\* What was told unasked is sealed; what says the same was not claimed since.
ToldInv ==
    /\ \A i \in Rows : said[i] > 0 /\ i \notin replayed => said[i] = 1 /\ speech[i].state \in SealedStates
    /\ \A i \in replayed : news[i].state \in Terminal
    /\ \A i, k \in DOMAIN news : i # k /\ said[i] > 0 /\ SameRun(news, i, k) => speech[k].claim < speech[i].claim

\* What is said of the rows.
RowInv == ClaimInv /\ FactInv /\ ToldInv
\* What is said of the speech.
TalkInv == SpeechTypes /\ ShowInv /\ MailInv /\ RowInv
\* The inductive invariant of the task updates.
TaskInv == LogInv /\ TalkInv

\* The bounds are numbers.
LEMMA NewsNumbers ==
  /\ LastUpdate \in Nat /\ LastUpdate >= 1 /\ MaxClaims \in Nat /\ MaxTabs \in Nat /\ MaxTabs >= 1
  /\ Cardinality(NewsJobs) \in Nat /\ MaxNews \in Nat
<1>1. Cardinality(NewsJobs) \in Nat
  BY NewsJobsAssumption, FS_CardinalityType
<1>2. LastUpdate \in Nat /\ LastUpdate >= 1 /\ MaxClaims \in Nat /\ MaxTabs \in Nat /\ MaxTabs >= 1
  BY LastAssumption
<1>3. LastUpdate * Cardinality(NewsJobs) \in Nat
  BY <1>1, <1>2
<1> QED
  BY <1>1, <1>2, <1>3 DEF MaxNews

\* A log whose jobs move on has at most one row for each job and update.
LEMMA LogFits ==
  ASSUME NEW N \in Seq(NewsRecs),
         \A i, k \in DOMAIN N : i < k /\ N[i].job = N[k].job => N[i].at < N[k].at
  PROVE  Len(N) <= MaxNews
<1> DEFINE T == NewsJobs \X (1..LastUpdate)
           f == [i \in 1..Len(N) |-> <<N[i].job, N[i].at>>]
<1>1. IsFiniteSet(T) /\ Cardinality(T) = Cardinality(NewsJobs) * LastUpdate
  <2>1. IsFiniteSet(1..LastUpdate) /\ Cardinality(1..LastUpdate) = LastUpdate
    <3>1. 1 \in Int /\ LastUpdate \in Int /\ LastUpdate >= 1
      BY NewsNumbers
    <3>2. IsFiniteSet(1..LastUpdate) /\ Cardinality(1..LastUpdate) = IF 1 > LastUpdate THEN 0 ELSE LastUpdate - 1 + 1
      BY <3>1, FS_Interval
    <3> QED
      BY <3>1, <3>2
  <2> QED
    BY <2>1, NewsJobsAssumption, FS_Product
<1>2. f \in Injection(1..Len(N), T)
  <2>1. \A i \in 1..Len(N) : N[i] \in NewsRecs
    BY ElementOfSeq
  <2>2. f \in [1..Len(N) -> T]
    BY <2>1 DEF NewsRecs
  <2>3. ASSUME NEW i \in 1..Len(N), NEW k \in 1..Len(N), f[i] = f[k]
        PROVE  i = k
    <3>1. N[i].job = N[k].job /\ N[i].at = N[k].at
      BY <2>3
    <3>2. N[i].at \in Nat /\ N[k].at \in Nat
      BY <2>1, NewsNumbers DEF NewsRecs
    <3>3. ~(i < k) /\ ~(k < i)
      BY <3>1, <3>2
    <3> QED
      BY <3>3
  <2> QED
    BY <2>2, <2>3 DEF Injection, IsInjective
<1>3. IsFiniteSet(1..Len(N)) /\ Cardinality(1..Len(N)) <= Cardinality(T)
  BY <1>1, <1>2, FS_Injection
<1>4. Len(N) \in Nat /\ (Len(N) >= 1 => Cardinality(1..Len(N)) = Len(N))
  <2>1. Len(N) \in Nat
    BY LenProperties
  <2>2. 1 \in Int /\ Len(N) \in Int
    BY <2>1
  <2>3. Cardinality(1..Len(N)) = IF 1 > Len(N) THEN 0 ELSE Len(N) - 1 + 1
    BY <2>2, FS_Interval
  <2> QED
    BY <2>1, <2>3
<1>5. Cardinality(T) = MaxNews
  BY <1>1, NewsNumbers DEF MaxNews
<1> QED
  BY <1>3, <1>4, <1>5, NewsNumbers

\* Newest finds the last row of a job.
LEMMA NewestIsLast ==
  ASSUME LogTypes, NEW j, Of(j) # {}
  PROVE  Newest(j) \in Of(j) /\ \A i \in Of(j) : i <= Newest(j)
<1>1. Len(news) \in Nat /\ DOMAIN news = 1..Len(news)
  BY LenProperties DEF LogTypes
<1>2. Of(j) \in SUBSET Nat /\ \A x \in Of(j) : x <= Len(news)
  BY <1>1 DEF Of
<1>3. Max(Of(j)) \in Of(j) /\ \A y \in Of(j) : Max(Of(j)) >= y
  BY <1>1, <1>2, GreatestElement
<1> QED
  BY <1>2, <1>3 DEF Newest

\* A job that moves on keeps what polls and rows say true.
LEMMA LogMoves ==
  ASSUME LogInv, NEW j \in NewsJobs, NEW s \in JobStates, JobMoves(j, s)
  PROVE  LogInv'
<1>1. LogTypes /\ jobs \in [NewsJobs -> JobRecs] /\ polls \subseteq PollRecs /\ news \in Seq(NewsRecs)
  BY DEF LogInv, LogTypes
<1>2. polls' = polls /\ news' = news
  BY DEF JobMoves
<1>3. jobs[j].state \notin Terminal /\ jobs[j].at < LastUpdate /\ jobs[j] \in JobRecs
  BY <1>1 DEF JobMoves
<1>4. jobs[j].at \in Nat /\ jobs[j].at >= 1
  BY <1>3, NewsNumbers DEF JobRecs
<1> DEFINE r == [state |-> s, at |-> jobs[j].at + 1]
<1>5. jobs' = [jobs EXCEPT ![j] = r] /\ r \in JobRecs /\ r.at = jobs[j].at + 1
  BY <1>3, <1>4, NewsNumbers DEF JobMoves, JobRecs
<1>6. \A i \in NewsJobs : i # j => jobs'[i] = jobs[i]
  BY <1>1, <1>5
<1>7. jobs'[j] = r /\ jobs' \in [NewsJobs -> JobRecs]
  BY <1>1, <1>5
<1>8. \A x : x.job \in NewsJobs /\ x.at \in Nat /\ Follows(x, jobs) => Follows(x, jobs')
  <2> TAKE x
  <2> HAVE x.job \in NewsJobs /\ x.at \in Nat /\ Follows(x, jobs)
  <2>1. CASE x.job = j
    <3>1. x.at <= jobs[j].at /\ x.state \notin Terminal
      BY <2>1, <1>3 DEF Follows
    <3>2. jobs'[x.job].at = jobs[j].at + 1
      BY <1>5, <1>7, <2>1
    <3> QED
      BY <3>1, <3>2, <1>4 DEF Follows
  <2>2. CASE x.job # j
    BY <2>2, <1>6 DEF Follows
  <2> QED
    BY <2>1, <2>2
<1>9. \A seen \in polls' : Follows(seen, jobs')
  <2> TAKE seen \in polls'
  <2>1. seen \in PollRecs /\ Follows(seen, jobs)
    BY <1>1, <1>2 DEF LogInv
  <2>2. seen.job \in NewsJobs /\ seen.at \in Nat
    BY <2>1, NewsNumbers DEF PollRecs
  <2> QED
    BY <2>1, <2>2, <1>8
<1>10. \A i \in DOMAIN news' : Follows(news'[i], jobs')
  <2> TAKE i \in DOMAIN news'
  <2>1. news[i] \in NewsRecs /\ Follows(news[i], jobs)
    BY <1>1, <1>2, ElementOfSeq, LenProperties DEF LogInv
  <2>2. news[i].job \in NewsJobs /\ news[i].at \in Nat
    BY <2>1, NewsNumbers DEF NewsRecs
  <2> QED
    BY <2>1, <2>2, <1>2, <1>8
<1>11. LogTypes' /\ LogFollowsJob'
  BY <1>1, <1>2, <1>7 DEF LogInv, LogTypes, LogFollowsJob
<1> QED
  BY <1>9, <1>10, <1>11 DEF LogInv

\* A poll reads what is so.
LEMMA LogPolled ==
  ASSUME LogInv, NEW j \in NewsJobs, PollReads(j)
  PROVE  LogInv'
<1> DEFINE p == [job |-> j, state |-> jobs[j].state, at |-> jobs[j].at]
<1>1. LogTypes /\ jobs \in [NewsJobs -> JobRecs] /\ polls \subseteq PollRecs /\ news \in Seq(NewsRecs)
  BY DEF LogInv, LogTypes
<1>2. jobs' = jobs /\ news' = news /\ polls' = polls \cup {p}
  BY DEF PollReads
<1>3. jobs[j] \in JobRecs
  BY <1>1
<1>4. p \in PollRecs /\ Follows(p, jobs)
  BY <1>3, NewsNumbers DEF JobRecs, PollRecs, Follows
<1>5. LogTypes' /\ LogFollowsJob'
  BY <1>1, <1>2, <1>4 DEF LogInv, LogTypes, LogFollowsJob
<1>6. (\A seen \in polls' : Follows(seen, jobs')) /\ (\A i \in DOMAIN news' : Follows(news'[i], jobs'))
  BY <1>2, <1>4 DEF LogInv
<1> QED
  BY <1>5, <1>6 DEF LogInv

\* Saving a poll keeps the log in the order of its jobs, and ends it with their end.
LEMMA LogSaved ==
  ASSUME LogInv, tabGen \in Nat, NEW seen \in polls, ProjectJob(seen)
  PROVE  LogInv'
<1>1. LogTypes /\ jobs \in [NewsJobs -> JobRecs] /\ polls \subseteq PollRecs /\ news \in Seq(NewsRecs)
  BY DEF LogInv, LogTypes
<1> DEFINE e == [job |-> seen.job, state |-> seen.state, at |-> seen.at, live |-> SeenLive(seen), gen |-> tabGen]
<1>2. jobs' = jobs /\ polls' \subseteq polls /\ news' = IF Accepted(seen) THEN Append(news, e) ELSE news
  BY DEF ProjectJob
<1>3. seen \in PollRecs /\ Follows(seen, jobs)
  BY <1>1 DEF LogInv
<1>4. seen.job \in NewsJobs /\ seen.state \in JobStates /\ seen.at \in 1..LastUpdate /\ seen.at \in Nat
  BY <1>3, NewsNumbers DEF PollRecs
<1>5. e \in NewsRecs /\ Follows(e, jobs)
  BY <1>3, <1>4 DEF NewsRecs, SeenLive, Follows
<1>6. Len(news) \in Nat /\ DOMAIN news = 1..Len(news) /\ \A i \in DOMAIN news : news[i] \in NewsRecs
  BY <1>1, LenProperties, ElementOfSeq
<1>7. CASE ~Accepted(seen)
  <2>1. news' = news
    BY <1>2, <1>7
  <2> QED
    BY <1>1, <1>2, <2>1 DEF LogInv, LogTypes, LogFollowsJob
<1>8. CASE Accepted(seen)
  <2>1. news' = Append(news, e)
    BY <1>2, <1>8
  <2>2. news' \in Seq(NewsRecs) /\ DOMAIN news' = 1..Len(news) + 1 /\ news'[Len(news) + 1] = e
        /\ \A i \in 1..Len(news) : news'[i] = news[i]
    BY <1>1, <1>5, <1>6, <2>1, AppendProperties
  <2>3. \A i \in DOMAIN news' : Follows(news'[i], jobs')
    BY <1>2, <1>5, <1>6, <2>2 DEF LogInv
  <2>4. \A i \in DOMAIN news : news[i].job = seen.job => news[i].at < seen.at /\ news[i].state \notin Terminal
    <3> TAKE i \in DOMAIN news
    <3> HAVE news[i].job = seen.job
    <3> DEFINE l == Newest(seen.job)
    <3>1. i \in Of(seen.job)
      BY DEF Of
    <3>2. l \in Of(seen.job) /\ i <= l
      BY <1>1, <3>1, NewestIsLast
    <3>3. l \in DOMAIN news /\ news[l].job = seen.job /\ l # 0
      BY <1>6, <3>2 DEF Of
    <3>4. seen.at > news[l].at
      BY <1>8, <3>3 DEF Accepted
    <3>5. news[l].at \in Nat /\ news[i].at \in Nat
      BY <1>6, <3>3, NewsNumbers DEF NewsRecs
    <3>6. i = l \/ (i < l /\ news[i].at < news[l].at)
      BY <1>6, <3>2, <3>3 DEF LogInv, LogFollowsJob
    <3>7. news[i].at < seen.at
      BY <1>4, <3>4, <3>5, <3>6
    <3>8. jobs[seen.job] \in JobRecs /\ seen.at <= jobs[seen.job].at
      BY <1>1, <1>3, <1>4 DEF Follows
    <3>9. jobs[seen.job].at \in Nat
      BY <3>8, NewsNumbers DEF JobRecs
    <3>10. news[i].state \in Terminal => news[i].at = jobs[seen.job].at
      BY DEF LogInv, Follows
    <3> QED
      BY <1>4, <3>5, <3>7, <3>8, <3>9, <3>10
  <2>5. LogFollowsJob'
    <3> SUFFICES ASSUME NEW i \in DOMAIN news', NEW k \in DOMAIN news', i < k, news'[i].job = news'[k].job
                 PROVE  news'[i].at < news'[k].at /\ news'[i].state \notin Terminal
      BY DEF LogFollowsJob
    <3>1. i \in 1..Len(news) /\ news'[i] = news[i]
      BY <1>6, <2>2
    <3>2. CASE k = Len(news) + 1
      <4>1. news'[k] = e /\ news[i].job = seen.job
        BY <2>2, <3>1, <3>2
      <4> QED
        BY <1>6, <2>4, <3>1, <4>1
    <3>3. CASE k # Len(news) + 1
      <4>1. k \in 1..Len(news) /\ news'[k] = news[k]
        BY <1>6, <2>2, <3>3
      <4> QED
        BY <1>6, <3>1, <4>1 DEF LogInv, LogFollowsJob
    <3> QED
      BY <3>2, <3>3
  <2>6. LogTypes'
    BY <1>1, <1>2, <2>2 DEF LogTypes
  <2>7. \A p \in polls' : Follows(p, jobs')
    BY <1>2 DEF LogInv
  <2> QED
    BY <2>3, <2>5, <2>6, <2>7 DEF LogInv
<1> QED
  BY <1>7, <1>8

\* The receipts of a queue are what it held, less its head, with what is appended.
LEMMA LettersOfMail ==
  ASSUME NEW M \in Seq(ReceiptRecs)
  PROVE  /\ Letters(M) \subseteq ReceiptRecs
         /\ \A r \in ReceiptRecs : Append(M, r) \in Seq(ReceiptRecs) /\ Letters(Append(M, r)) = Letters(M) \cup {r}
         /\ M # <<>> => /\ Head(M) \in Letters(M) /\ Tail(M) \in Seq(ReceiptRecs)
                        /\ Letters(Tail(M)) \subseteq Letters(M)
<1>1. Len(M) \in Nat /\ DOMAIN M = 1..Len(M) /\ \A n \in 1..Len(M) : M[n] \in ReceiptRecs
  BY LenProperties, ElementOfSeq
<1>2. Letters(M) \subseteq ReceiptRecs
  BY <1>1 DEF Letters
<1>3. ASSUME NEW r \in ReceiptRecs
      PROVE  Append(M, r) \in Seq(ReceiptRecs) /\ Letters(Append(M, r)) = Letters(M) \cup {r}
  <2> DEFINE A == Append(M, r)
  <2>1. A \in Seq(ReceiptRecs) /\ DOMAIN A = 1..Len(M) + 1 /\ A[Len(M) + 1] = r /\ \A n \in 1..Len(M) : A[n] = M[n]
    BY <1>1, AppendProperties
  <2> HIDE DEF A
  <2>2. ASSUME NEW x \in Letters(A)
        PROVE  x \in Letters(M) \cup {r}
    <3>1. PICK n \in 1..Len(M) + 1 : x = A[n]
      BY <2>1, <2>2 DEF Letters
    <3>2. CASE n = Len(M) + 1
      BY <2>1, <3>1, <3>2
    <3>3. CASE n # Len(M) + 1
      <4>1. n \in DOMAIN M /\ x = M[n]
        BY <1>1, <2>1, <3>1, <3>3
      <4> QED
        BY <4>1 DEF Letters
    <3> QED
      BY <3>2, <3>3
  <2>3. r \in Letters(A)
    <3>1. Len(M) + 1 \in DOMAIN A
      BY <1>1, <2>1
    <3> QED
      BY <2>1, <3>1 DEF Letters
  <2>4. ASSUME NEW x \in Letters(M)
        PROVE  x \in Letters(A)
    <3>1. PICK n \in DOMAIN M : x = M[n]
      BY DEF Letters
    <3>2. n \in DOMAIN A /\ A[n] = x
      BY <1>1, <2>1, <3>1
    <3> QED
      BY <3>2 DEF Letters
  <2>5. A \in Seq(ReceiptRecs) /\ Letters(A) = Letters(M) \cup {r}
    BY <2>1, <2>2, <2>3, <2>4
  <2> QED
    BY <2>5 DEF A
<1>4. ASSUME M # <<>>
      PROVE  Head(M) \in Letters(M) /\ Tail(M) \in Seq(ReceiptRecs) /\ Letters(Tail(M)) \subseteq Letters(M)
  <2> DEFINE T == Tail(M)
  <2>1. Len(M) >= 1 /\ Head(M) = M[1]
    BY <1>1, <1>4, EmptySeq, HeadTailProperties
  <2>2. T \in Seq(ReceiptRecs) /\ Len(T) = Len(M) - 1 /\ DOMAIN T = 1..Len(M) - 1 /\ \A n \in 1..Len(T) : T[n] = M[n + 1]
    BY <1>1, <1>4, HeadTailProperties, LenProperties
  <2> HIDE DEF T
  <2>3. 1 \in DOMAIN M
    BY <1>1, <2>1
  <2>4. ASSUME NEW x \in Letters(T)
        PROVE  x \in Letters(M)
    <3>1. PICK n \in 1..Len(M) - 1 : x = T[n]
      BY <2>2 DEF Letters
    <3>2. n + 1 \in DOMAIN M /\ M[n + 1] = x
      BY <1>1, <2>2, <3>1
    <3> QED
      BY <3>2 DEF Letters
  <2>5. T \in Seq(ReceiptRecs) /\ Letters(T) \subseteq Letters(M)
    BY <2>2, <2>4
  <2>6. Head(M) \in Letters(M)
    BY <2>1, <2>3 DEF Letters
  <2> QED
    BY <2>5, <2>6 DEF T
<1> QED
  BY <1>2, <1>3, <1>4

\* The rows of the log fit the table of speech.
LEMMA RowsAreNumbered ==
  ASSUME LogInv
  PROVE  /\ Len(news) \in Nat /\ DOMAIN news = 1..Len(news) /\ Len(news) <= MaxNews
         /\ DOMAIN news \subseteq Rows /\ \A i \in DOMAIN news : news[i] \in NewsRecs
<1>1. news \in Seq(NewsRecs)
  BY DEF LogInv, LogTypes
<1>2. Len(news) \in Nat /\ DOMAIN news = 1..Len(news) /\ \A i \in DOMAIN news : news[i] \in NewsRecs
  BY <1>1, LenProperties, ElementOfSeq
<1>3. \A i, k \in DOMAIN news : i < k /\ news[i].job = news[k].job => news[i].at < news[k].at
  BY DEF LogInv, LogFollowsJob
<1>4. Len(news) <= MaxNews
  BY <1>1, <1>3, LogFits
<1> QED
  BY <1>2, <1>4, NewsNumbers DEF Rows

\* What is said of rows stands while they do.
LEMMA RowsRest ==
  ASSUME RowInv, news' = news, speech' = speech, claims' = claims, said' = said, dispatched' = dispatched, replayed' = replayed
  PROVE  RowInv'
<1>1. ClaimInv'
  BY DEF RowInv, ClaimInv
<1>2. FactInv'
  BY DEF RowInv, FactInv, RecordIsTrue
<1>3. ToldInv'
  BY DEF RowInv, ToldInv, SameRun
<1> QED
  BY <1>1, <1>2, <1>3 DEF RowInv

\* What is said of the speech stands while neither it nor the log changes.
LEMMA TalkRests ==
  ASSUME TalkInv, UNCHANGED speakVars, news' = news
  PROVE  TalkInv'
<1>1. tabGen' = tabGen /\ speech' = speech /\ claims' = claims /\ tab' = tab /\ mail' = mail
      /\ said' = said /\ dispatched' = dispatched /\ replayed' = replayed
  BY DEF speakVars
<1>2. RowInv'
  BY <1>1, RowsRest DEF TalkInv
<1>3. SpeechTypes' /\ ShowInv' /\ MailInv'
  BY <1>1 DEF TalkInv, SpeechTypes, ShowInv, MailInv
<1> QED
  BY <1>2, <1>3 DEF TalkInv

\* A new row of the log was not claimed and not told.
LEMMA TalkSaved ==
  ASSUME LogInv, TalkInv, LogInv', NEW seen \in polls, ProjectJob(seen)
  PROVE  TalkInv'
<1>1. tabGen' = tabGen /\ speech' = speech /\ claims' = claims /\ tab' = tab /\ mail' = mail
      /\ said' = said /\ dispatched' = dispatched /\ replayed' = replayed
  BY DEF ProjectJob, speakVars
<1>2. Len(news) \in Nat /\ DOMAIN news = 1..Len(news) /\ DOMAIN news \subseteq Rows
  BY RowsAreNumbered
<1>3. DOMAIN news' \subseteq Rows
  <2>1. news' \in Seq(NewsRecs)
    BY DEF LogInv, LogTypes
  <2>2. \A i, k \in DOMAIN news' : i < k /\ news'[i].job = news'[k].job => news'[i].at < news'[k].at
    BY DEF LogInv, LogFollowsJob
  <2>3. Len(news') <= MaxNews
    BY <2>1, <2>2, LogFits
  <2>4. Len(news') \in Nat /\ DOMAIN news' = 1..Len(news')
    BY <2>1, LenProperties
  <2> QED
    BY <2>3, <2>4, NewsNumbers DEF Rows
<1>4. DOMAIN news \subseteq DOMAIN news' /\ \A i \in DOMAIN news : news'[i] = news[i]
  <2>1. CASE news' = news
    BY <2>1
  <2>2. CASE news' # news
    <3>1. PICK e : news' = Append(news, e)
      BY <2>2 DEF ProjectJob
    <3>2. news \in Seq(NewsRecs)
      BY DEF LogInv, LogTypes
    <3>3. DOMAIN news' = 1..Len(news) + 1 /\ \A i \in 1..Len(news) : news'[i] = news[i]
      BY <3>1, <3>2, <1>2
    <3> QED
      BY <1>2, <3>3
  <2> QED
    BY <2>1, <2>2
<1>5. SpeechTypes' /\ ShowInv' /\ MailInv'
  BY <1>1, <1>4 DEF TalkInv, SpeechTypes, ShowInv, MailInv
<1>6. ClaimInv' /\ FactInv'
  BY <1>1, <1>4 DEF TalkInv, RowInv, ClaimInv, FactInv, RecordIsTrue
<1>7. ASSUME NEW i \in DOMAIN news', NEW k \in DOMAIN news', i # k, said[i] > 0, SameRun(news', i, k)
      PROVE  speech[k].claim < speech[i].claim
  <2>1. i \in Rows /\ k \in Rows
    BY <1>3
  <2>2. i \in DOMAIN news /\ speech[i].claim > 0
    BY <1>7, <2>1 DEF TalkInv, RowInv, ClaimInv, SpeechTypes
  <2>3. CASE k \in DOMAIN news
    <3>1. SameRun(news, i, k)
      BY <1>4, <1>7, <2>2, <2>3 DEF SameRun
    <3> QED
      BY <1>7, <2>2, <2>3, <3>1 DEF TalkInv, RowInv, ToldInv
  <2>4. CASE k \notin DOMAIN news
    BY <2>1, <2>2, <2>4 DEF TalkInv, RowInv, ClaimInv
  <2> QED
    BY <2>3, <2>4
<1>8. ToldInv'
  <2>1. \A i \in replayed : i \in DOMAIN news
    BY DEF TalkInv, SpeechTypes
  <2> QED
    BY <1>1, <1>4, <1>7, <2>1 DEF TalkInv, RowInv, ToldInv
<1> QED
  BY <1>5, <1>6, <1>8 DEF TalkInv, RowInv

\* A step of the tab and its mail alone keeps what is said of the rows.
LEMMA TabOnly ==
  ASSUME TalkInv, news' = news, tabGen' = tabGen, speech' = speech, claims' = claims, said' = said,
         dispatched' = dispatched, replayed' = replayed,
         tab' \in TabRecs, mail' \in Seq(ReceiptRecs), ShowInv',
         \A r \in Letters(mail') : GoodLetter(r, tab', claims, dispatched)
  PROVE  TalkInv'
<1>1. RowInv'
  BY RowsRest DEF TalkInv
<1>2. SpeechTypes'
  BY DEF TalkInv, SpeechTypes
<1>3. MailInv'
  BY DEF MailInv
<1> QED
  BY <1>1, <1>2, <1>3 DEF TalkInv

\* Asking for an update to speak keeps the invariant.
LEMMA TabAsks ==
  ASSUME LogInv, TalkInv, NEW i \in DOMAIN news, NEW replay \in BOOLEAN, SpeechAsks(i, replay)
  PROVE  TalkInv'
<1> DEFINE t == [at |-> "asking", idx |-> i, claim |-> 0, replay |-> replay]
<1>1. news' = news /\ tabGen' = tabGen /\ speech' = speech /\ claims' = claims /\ mail' = mail
      /\ said' = said /\ dispatched' = dispatched /\ replayed' = replayed /\ tab' = t
  BY DEF SpeechAsks, newsVars
<1>2. i \in Nat
  BY RowsAreNumbered
<1>3. t \in TabRecs /\ t.at = "asking" /\ t.idx = i /\ t.claim = 0
  BY <1>2 DEF TabRecs
<1> HIDE DEF t
<1>4. mail \in Seq(ReceiptRecs) /\ MailInv /\ RowInv /\ SpeechTypes
  BY DEF TalkInv, SpeechTypes
<1>5. ShowInv'
  BY <1>1, <1>3 DEF ShowInv, Showing
<1>6. \A r \in Letters(mail) : GoodLetter(r, t, claims, dispatched)
  BY <1>3, <1>4 DEF MailInv, GoodLetter
<1> QED
  BY <1>1, <1>3, <1>4, <1>5, <1>6, TabOnly

\* A receipt of the tab's show is of its claim.
LEMMA ReceiptIsGood ==
  ASSUME LogInv, TalkInv, tab.at \in Showing, NEW state \in SealedStates \cup {"deferred"}
  PROVE  /\ Receipt(state) \in ReceiptRecs /\ Receipt(state).claim = tab.claim /\ Receipt(state).idx = tab.idx
         /\ Receipt(state).state = state /\ tab.claim \in 1..claims /\ tab.idx \in DOMAIN news
<1>1. tab.idx \in DOMAIN news /\ tab.claim = claims /\ claims > 0
  BY DEF TalkInv, ShowInv, Showing
<1>2. tab.idx \in Rows
  BY <1>1, RowsAreNumbered
<1>3. claims \in Nat /\ tabGen \in Nat
  BY NewsNumbers DEF TalkInv, SpeechTypes
<1>4. tab.claim \in 1..claims /\ tab.claim \in Nat
  BY <1>1, <1>3
<1> QED
  BY <1>1, <1>2, <1>3, <1>4 DEF Receipt, ReceiptRecs

\* The tab reports something and goes on, or ends its show.
LEMMA TabReports ==
  ASSUME LogInv, TalkInv, tab.at \in Showing,
         news' = news, tabGen' = tabGen, speech' = speech, claims' = claims, said' = said,
         dispatched' = dispatched, replayed' = replayed,
         NEW state \in SealedStates \cup {"deferred"}, NEW M \in Seq(ReceiptRecs), Letters(M) \subseteq Letters(mail),
         mail' = Append(M, Receipt(state)),
         state \in Audible => tab.at \in {"speaking", "playing"},
         \/ tab' = NoShow
         \/ tab.at = "claimed" /\ state = "submitting" /\ tab' = [tab EXCEPT !.at = "telling"]
         \/ tab.at = "speaking" /\ tab' = [tab EXCEPT !.at = "playing"]
  PROVE  TalkInv'
<1> DEFINE n == Receipt(state)
<1>1. n \in ReceiptRecs /\ n.claim = tab.claim /\ n.idx = tab.idx /\ n.state = state /\ n.claim \in 1..claims /\ tab.idx \in DOMAIN news
  BY ReceiptIsGood
<1>2. ShowInv /\ MailInv /\ tab \in TabRecs
  BY DEF TalkInv, SpeechTypes
<1>3. n.state \in Audible => n.claim \in dispatched
  BY <1>1, <1>2 DEF ShowInv
<1>4. mail' = Append(M, n)
  OBVIOUS
<1> HIDE DEF n
<1>5. mail' \in Seq(ReceiptRecs) /\ Letters(mail') = Letters(M) \cup {n}
  BY <1>1, <1>4, LettersOfMail
<1>6. CASE tab' = NoShow
  <2>1. tab' \in TabRecs /\ tab'.at = "idle" /\ tab'.claim = 0
    BY <1>6 DEF TabRecs, NoShow
  <2>2. ShowInv'
    BY <2>1 DEF ShowInv, Showing
  <2>3. \A r \in Letters(mail') : GoodLetter(r, tab', claims, dispatched)
    BY <1>1, <1>2, <1>3, <1>5, <2>1 DEF MailInv, GoodLetter
  <2> QED
    BY <1>5, <2>1, <2>2, <2>3, TabOnly
<1>7. CASE tab.at = "claimed" /\ state = "submitting" /\ tab' = [tab EXCEPT !.at = "telling"]
  <2>1. tab' \in TabRecs /\ tab'.at = "telling" /\ tab'.claim = tab.claim /\ tab'.idx = tab.idx
    BY <1>2, <1>7 DEF TabRecs, Showing
  <2>2. ShowInv'
    BY <1>2, <1>7, <2>1 DEF ShowInv, Showing
  <2>3. \A r \in Letters(mail') : GoodLetter(r, tab', claims, dispatched)
    BY <1>1, <1>2, <1>3, <1>5, <1>7, <2>1 DEF MailInv, GoodLetter
  <2> QED
    BY <1>5, <2>1, <2>2, <2>3, TabOnly
<1>8. CASE tab.at = "speaking" /\ tab' = [tab EXCEPT !.at = "playing"]
  <2>1. tab' \in TabRecs /\ tab'.at = "playing" /\ tab'.claim = tab.claim /\ tab'.idx = tab.idx
    BY <1>2, <1>8 DEF TabRecs, Showing
  <2>2. ShowInv'
    BY <1>2, <1>8, <2>1 DEF ShowInv, Showing
  <2>3. \A r \in Letters(mail') : GoodLetter(r, tab', claims, dispatched)
    BY <1>1, <1>2, <1>3, <1>5, <1>8, <2>1 DEF MailInv, GoodLetter
  <2> QED
    BY <1>5, <2>1, <2>2, <2>3, TabOnly
<1> QED
  BY <1>6, <1>7, <1>8

\* Giving back, submitting, playing and finishing keep the invariant.
LEMMA TabMailKept ==
  ASSUME LogInv, TalkInv,
         TabGivesBack \/ TabSubmits \/ TabPlays
         \/ \E state \in {"unknown", "interrupted", "playback_acknowledged"} : TabFinishes(state)
  PROVE  TalkInv'
<1>1. mail \in Seq(ReceiptRecs) /\ Letters(mail) \subseteq Letters(mail)
  BY DEF TalkInv, SpeechTypes
<1>2. CASE TabGivesBack
  BY <1>1, <1>2, TabReports DEF TabGivesBack, newsVars, Showing, Audible
<1>3. CASE TabSubmits
  BY <1>1, <1>3, TabReports DEF TabSubmits, newsVars, Showing, Audible, SealedStates
<1>4. CASE TabPlays
  BY <1>1, <1>4, TabReports DEF TabPlays, newsVars, Showing, SealedStates
<1>5. ASSUME NEW state \in {"unknown", "interrupted", "playback_acknowledged"}, TabFinishes(state)
      PROVE  TalkInv'
  <2>1. state \in SealedStates \cup {"deferred"} /\ tab.at \in Showing /\ (state \in Audible => tab.at \in {"speaking", "playing"})
    BY <1>5 DEF SealedStates, TabFinishes, Showing
  <2>2. news' = news /\ tabGen' = tabGen /\ speech' = speech /\ claims' = claims /\ said' = said
        /\ dispatched' = dispatched /\ replayed' = replayed /\ mail' = Append(mail, Receipt(state)) /\ tab' = NoShow
    BY <1>5 DEF TabFinishes, newsVars
  <2> QED
    BY <1>1, <2>1, <2>2, TabReports
<1> QED
  BY <1>2, <1>3, <1>4, <1>5

\* Handing an update over keeps the invariant: it was not told before, and its row is sealed.
LEMMA TabHandsOver ==
  ASSUME LogInv, TalkInv, TabDispatches
  PROVE  TalkInv'
<1> DEFINE i == tab.idx
           n == Receipt("sent")
           t == [tab EXCEPT !.at = "speaking"]
<1>1. tab.at = "cleared" /\ tab.at \in Showing /\ "sent" \in SealedStates \cup {"deferred"}
  BY DEF TabDispatches, Showing, SealedStates
<1>2. n \in ReceiptRecs /\ n.claim = tab.claim /\ n.idx = i /\ n.state = "sent" /\ n.claim \in 1..claims /\ i \in DOMAIN news
  BY <1>1, ReceiptIsGood
<1>3. ShowInv /\ MailInv /\ RowInv /\ SpeechTypes /\ tab \in TabRecs /\ mail \in Seq(ReceiptRecs)
  BY DEF TalkInv, SpeechTypes
<1>4. news' = news /\ tabGen' = tabGen /\ speech' = speech /\ claims' = claims /\ replayed' = replayed
      /\ said' = [said EXCEPT ![i] = IF tab.replay THEN @ ELSE @ + 1] /\ dispatched' = dispatched \cup {tab.claim}
      /\ mail' = Append(mail, n) /\ tab' = t
  BY DEF TabDispatches, newsVars
<1>5. t \in TabRecs /\ t.at = "speaking" /\ t.claim = tab.claim /\ t.idx = i
  BY <1>3 DEF TabRecs, Showing
<1> HIDE DEF n, t
<1>6. mail' \in Seq(ReceiptRecs) /\ Letters(mail') = Letters(mail) \cup {n}
  BY <1>2, <1>3, <1>4, LettersOfMail
<1>7. i \in Rows /\ said[i] \in Nat /\ DOMAIN news \subseteq Rows
  BY <1>2, <1>3, RowsAreNumbered DEF SpeechTypes
<1>8. said' \in [Rows -> Nat] /\ said'[i] \in {said[i], said[i] + 1} /\ (\A k \in Rows : k # i => said'[k] = said[k])
      /\ (tab.replay => said'[i] = said[i])
  BY <1>3, <1>4, <1>7 DEF SpeechTypes
<1>9. speech[i].claim = claims /\ claims > 0 /\ speech[i].state \in SealedStates /\ tab.claim = claims
      /\ (i \notin replayed => said[i] = 0)
  BY <1>1, <1>3 DEF ShowInv, Showing
<1>10. SpeechTypes'
  BY <1>3, <1>4, <1>5, <1>6, <1>8 DEF SpeechTypes
<1>11. ShowInv'
  BY <1>2, <1>4, <1>5, <1>9 DEF ShowInv, Showing
<1>12. MailInv'
  <2>1. \A r \in Letters(mail) : GoodLetter(r, tab, claims, dispatched)
    BY <1>3 DEF MailInv
  <2>2. \A r \in Letters(mail') : GoodLetter(r, t, claims, dispatched')
    BY <1>2, <1>4, <1>5, <1>6, <2>1 DEF GoodLetter
  <2> QED
    BY <1>4, <2>2 DEF MailInv
<1>13. ClaimInv'
  BY <1>2, <1>3, <1>4, <1>7, <1>8, <1>9 DEF RowInv, ClaimInv
<1>14. FactInv'
  BY <1>3, <1>4 DEF RowInv, FactInv, RecordIsTrue
<1>15. ToldInv'
  <2>1. \A k \in Rows : said'[k] > 0 /\ k \notin replayed => said'[k] = 1 /\ speech[k].state \in SealedStates
    BY <1>3, <1>7, <1>8, <1>9 DEF RowInv, ToldInv
  <2>2. ASSUME NEW a \in DOMAIN news, NEW b \in DOMAIN news, a # b, said'[a] > 0, SameRun(news, a, b)
        PROVE  speech[b].claim < speech[a].claim
    <3>1. a \in Rows /\ b \in Rows
      BY <1>7
    <3>2. CASE a # i
      BY <1>3, <1>8, <2>2, <3>1, <3>2 DEF RowInv, ToldInv
    <3>3. CASE a = i
      <4>1. speech[b].claim <= claims /\ speech[b].claim # speech[i].claim /\ speech[b].claim \in Nat /\ claims \in Nat
        BY <1>3, <1>9, <2>2, <3>1, <3>3 DEF RowInv, ClaimInv, SpeechTypes, SpeechRecs
      <4> QED
        BY <1>9, <3>3, <4>1
    <3> QED
      BY <3>2, <3>3
  <2>3. \A k \in replayed : news[k].state \in Terminal
    BY <1>3 DEF RowInv, ToldInv
  <2> QED
    BY <1>4, <2>1, <2>2, <2>3 DEF ToldInv, SameRun
<1> QED
  BY <1>10, <1>11, <1>12, <1>13, <1>14, <1>15 DEF TalkInv, RowInv

\* What a receipt or the clock may do to a row's record.
RecordMoves(old, new, D) ==
    /\ new \in SpeechRecs /\ new.claim = old.claim
    /\ new.state = "none" <=> old.state = "none"
    /\ old.state \in SealedStates => new.state \in SealedStates
    /\ new.state \in ActiveSpeech => old.state \in ActiveSpeech
    /\ new.facts \cap Audible # {} => old.facts \cap Audible # {} \/ new.claim \in D
    /\ "submitting" \in new.facts => new.state \in SealedStates

\* Receipts and the clock keep what is said of the rows.
LEMMA RowsMove ==
  ASSUME LogInv, TalkInv, news' = news, claims' = claims, said' = said, dispatched' = dispatched, replayed' = replayed,
         speech' \in [Rows -> SpeechRecs], \A i \in Rows : RecordMoves(speech[i], speech'[i], dispatched)
  PROVE  RowInv'
<1>1. RowInv /\ SpeechTypes /\ speech \in [Rows -> SpeechRecs]
  BY DEF TalkInv, SpeechTypes
<1>2. \A i \in Rows : /\ speech'[i].claim = speech[i].claim /\ (speech'[i].state = "none" <=> speech[i].state = "none")
                      /\ (speech[i].state \in SealedStates => speech'[i].state \in SealedStates)
                      /\ (speech'[i].state \in ActiveSpeech => speech[i].state \in ActiveSpeech)
  BY DEF RecordMoves
<1>3. ClaimInv'
  BY <1>1, <1>2 DEF RowInv, ClaimInv
<1>4. FactInv'
  <2>1. RecordIsTrue'
    <3>1. ASSUME NEW i \in Rows, speech'[i].facts \cap Audible # {}
          PROVE  speech'[i].claim \in dispatched
      <4>1. speech[i].facts \cap Audible # {} \/ speech'[i].claim \in dispatched
        BY <3>1 DEF RecordMoves
      <4>2. speech[i].facts \cap Audible # {} => speech[i].claim \in dispatched
        BY <1>1 DEF RowInv, FactInv, RecordIsTrue, Audible
      <4> QED
        BY <1>2, <4>1, <4>2
    <3> QED
      BY <3>1 DEF RecordIsTrue, Audible
  <2>2. \A i \in Rows : "submitting" \in speech'[i].facts => speech'[i].state \in SealedStates
    BY DEF RecordMoves
  <2>3. \A i, k \in Rows : speech'[i].state \in ActiveSpeech /\ speech'[k].state \in ActiveSpeech => i = k
    BY <1>1, <1>2 DEF RowInv, FactInv
  <2> QED
    BY <2>1, <2>2, <2>3 DEF FactInv
<1>5. ToldInv'
  <2>1. \A i \in Rows : said[i] > 0 /\ i \notin replayed => said[i] = 1 /\ speech'[i].state \in SealedStates
    BY <1>1, <1>2 DEF RowInv, ToldInv
  <2>2. DOMAIN news \subseteq Rows
    BY RowsAreNumbered
  <2>3. ASSUME NEW a \in DOMAIN news, NEW b \in DOMAIN news, a # b, said[a] > 0, SameRun(news, a, b)
        PROVE  speech'[b].claim < speech'[a].claim
    BY <1>1, <1>2, <2>2, <2>3 DEF RowInv, ToldInv
  <2> QED
    BY <1>1, <2>1, <2>3 DEF RowInv, ToldInv, SameRun
<1> QED
  BY <1>3, <1>4, <1>5 DEF RowInv

\* A claim that lapses, or a retry that falls due, keeps the invariant.
LEMMA RowLapses ==
  ASSUME LogInv, TalkInv, NEW i \in Rows, ClaimLapses(i) \/ RetryIsDue(i)
  PROVE  TalkInv'
<1>1. /\ news' = news /\ tabGen' = tabGen /\ claims' = claims /\ tab' = tab /\ mail' = mail
      /\ said' = said /\ dispatched' = dispatched /\ replayed' = replayed
  BY DEF ClaimLapses, RetryIsDue, newsVars
<1>2. SpeechTypes /\ ShowInv /\ MailInv /\ RowInv /\ speech \in [Rows -> SpeechRecs]
  BY DEF TalkInv, SpeechTypes
<1>3. PICK s \in {"due", "unknown"} :
         /\ speech' = [speech EXCEPT ![i].state = s]
         /\ speech[i].state \in ActiveSpeech \/ speech[i].state = "deferred"
         /\ s = "due" => speech[i].state \in {"queued", "deferred"}
  BY DEF ClaimLapses, RetryIsDue
<1> DEFINE y == speech[i]
           x == [y EXCEPT !.state = s]
<1>4. y \in SpeechRecs /\ ("submitting" \in y.facts => y.state \in SealedStates)
  BY <1>2 DEF RowInv, FactInv
<1>5. x \in SpeechRecs /\ x.claim = y.claim /\ x.state = s /\ x.facts = y.facts
  BY <1>4 DEF SpeechRecs, SealedStates, Shelved
<1>6. speech' = [speech EXCEPT ![i] = x]
  BY <1>3
<1>7. speech[i] = y /\ (y.state \in ActiveSpeech \/ y.state = "deferred") /\ (s = "due" => y.state \in {"queued", "deferred"})
  BY <1>3
<1> HIDE DEF x, y
<1>8. speech' \in [Rows -> SpeechRecs] /\ speech'[i] = x /\ \A k \in Rows : k # i => speech'[k] = speech[k]
  BY <1>2, <1>5, <1>6
<1>9. RecordMoves(y, x, dispatched)
  BY <1>4, <1>5, <1>7 DEF RecordMoves, ActiveSpeech, SealedStates
<1>10. \A k \in Rows : RecordMoves(speech[k], speech'[k], dispatched)
  <2> TAKE k \in Rows
  <2>1. CASE k = i
    BY <1>7, <1>8, <1>9, <2>1
  <2>2. CASE k # i
    <3>1. speech'[k] = speech[k] /\ speech[k] \in SpeechRecs /\ ("submitting" \in speech[k].facts => speech[k].state \in SealedStates)
      BY <1>2, <1>8, <2>2 DEF RowInv, FactInv
    <3> QED
      BY <3>1 DEF RecordMoves
  <2> QED
    BY <2>1, <2>2
<1>11. RowInv'
  BY <1>1, <1>8, <1>10, RowsMove
<1>12. SpeechTypes'
  BY <1>1, <1>2, <1>8 DEF SpeechTypes
<1>13. MailInv'
  BY <1>1, <1>2 DEF MailInv
<1>14. ShowInv'
  <2>1. tab.idx \in DOMAIN news => tab.idx \in Rows
    BY RowsAreNumbered
  <2>2. tab.idx \in Rows => /\ speech'[tab.idx].claim = speech[tab.idx].claim
                            /\ speech[tab.idx].state \in SealedStates => speech'[tab.idx].state \in SealedStates
    BY <1>10 DEF RecordMoves
  <2>3. tab.at # "idle" => tab.idx \in Rows
    BY <1>2, <2>1 DEF ShowInv
  <2> QED
    BY <1>1, <1>2, <2>2, <2>3 DEF ShowInv, Showing
<1> QED
  BY <1>11, <1>12, <1>13, <1>14 DEF TalkInv

\* A reload keeps the invariant.
LEMMA TabReloadsKept ==
  ASSUME LogInv, TalkInv, TabReloads
  PROVE  TalkInv'
<1>1. /\ news' = news /\ claims' = claims /\ tab' = NoShow /\ mail' = <<>>
      /\ said' = said /\ dispatched' = dispatched /\ replayed' = replayed
      /\ tabGen' = tabGen + 1 /\ tabGen < MaxTabs
  BY DEF TabReloads
<1>2. SpeechTypes /\ ShowInv /\ MailInv /\ RowInv /\ speech \in [Rows -> SpeechRecs]
  BY DEF TalkInv, SpeechTypes
<1>3. ASSUME NEW k \in Rows
      PROVE  speech'[k] \in SpeechRecs /\ RecordMoves(speech[k], speech'[k], dispatched)
  <2>1. speech[k] \in SpeechRecs /\ ("submitting" \in speech[k].facts => speech[k].state \in SealedStates)
    BY <1>2 DEF RowInv, FactInv
  <2>2. CASE speech[k].state \in ActiveSpeech
    <3> DEFINE y == speech[k]
               x == [y EXCEPT !.state = "unknown"]
    <3>1. speech'[k] = x
      BY <2>2 DEF TabReloads
    <3>2. x \in SpeechRecs /\ x.claim = y.claim /\ x.state = "unknown" /\ x.facts = y.facts
      BY <2>1 DEF SpeechRecs, SealedStates, Shelved
    <3>3. y.state # "none" /\ y = speech[k]
      BY <2>2 DEF ActiveSpeech
    <3> HIDE DEF x, y
    <3>4. RecordMoves(y, x, dispatched)
      BY <2>1, <3>2, <3>3 DEF RecordMoves, ActiveSpeech, SealedStates
    <3> QED
      BY <3>1, <3>2, <3>3, <3>4
  <2>3. CASE speech[k].state \notin ActiveSpeech
    <3>1. speech'[k] = speech[k]
      BY <2>3 DEF TabReloads
    <3> QED
      BY <2>1, <3>1 DEF RecordMoves
  <2> QED
    BY <2>2, <2>3
<1>4. speech' \in [Rows -> SpeechRecs]
  <2>1. speech' = [k \in Rows |-> speech'[k]]
    BY DEF TabReloads
  <2> QED
    BY <1>3, <2>1
<1>5. RowInv'
  BY <1>1, <1>3, <1>4, RowsMove
<1>6. NoShow \in TabRecs /\ NoShow.at = "idle" /\ NoShow.claim = 0
  BY DEF NoShow, TabRecs
<1>7. <<>> \in Seq(ReceiptRecs) /\ Letters(<<>>) = {}
  BY DEF Letters
<1>8. SpeechTypes'
  BY <1>1, <1>2, <1>4, <1>6, <1>7, NewsNumbers DEF SpeechTypes
<1>9. ShowInv'
  BY <1>1, <1>6 DEF ShowInv, Showing
<1>10. MailInv'
  BY <1>1, <1>7 DEF MailInv
<1> QED
  BY <1>5, <1>8, <1>9, <1>10 DEF TalkInv

\* What the tab makes of an answer.
LEMMA TabHearsOne ==
  ASSUME NEW r, NEW b \in BOOLEAN, TabHears(r, b)
  PROVE  \/ tab' = tab /\ mail' = Tail(mail)
         \/ tab.at \in Showing /\ tab' = NoShow /\ mail' = Append(Tail(mail), Receipt("deferred"))
         \/ tab.at \in Showing /\ tab' = NoShow /\ mail' = Append(Tail(mail), Receipt("unknown"))
         \/ b /\ r.claim = tab.claim /\ tab.at = "telling" /\ tab' = [tab EXCEPT !.at = "cleared"] /\ mail' = Tail(mail)
<1>1. CASE r.claim # tab.claim
  BY <1>1 DEF TabHears
<1>2. CASE r.claim = tab.claim /\ tab.at = "telling" /\ b
  BY <1>2 DEF TabHears
<1>3. CASE r.claim = tab.claim /\ tab.at = "telling" /\ ~b
  BY <1>3 DEF TabHears, Showing
<1>4. CASE r.claim = tab.claim /\ tab.at \in {"speaking", "playing"} /\ ~b
  BY <1>4 DEF TabHears, Showing
<1>5. CASE r.claim = tab.claim /\ tab.at # "telling" /\ ~(tab.at \in {"speaking", "playing"} /\ ~b)
  BY <1>5 DEF TabHears
<1> QED
  BY <1>1, <1>2, <1>3, <1>4, <1>5

\* An answer the tab hears keeps the invariant: it goes on only if its row is sealed.
LEMMA AnswerHeard ==
  ASSUME LogInv, TalkInv, mail # <<>>, NEW r, r = Head(mail), NEW b \in BOOLEAN, TabHears(r, b), RowInv',
         news' = news, tabGen' = tabGen, claims' = claims, said' = said, dispatched' = dispatched, replayed' = replayed,
         speech' \in [Rows -> SpeechRecs], \A i \in Rows : RecordMoves(speech[i], speech'[i], dispatched),
         b /\ r.state = "submitting" => speech'[r.idx].state \in SealedStates
  PROVE  TalkInv'
<1>1. SpeechTypes /\ ShowInv /\ MailInv /\ tab \in TabRecs /\ mail \in Seq(ReceiptRecs)
  BY DEF TalkInv, SpeechTypes
<1>2. r \in Letters(mail) /\ Tail(mail) \in Seq(ReceiptRecs) /\ Letters(Tail(mail)) \subseteq Letters(mail)
  BY <1>1, LettersOfMail
<1>3. \A x \in Letters(Tail(mail)) : GoodLetter(x, tab, claims, dispatched)
  BY <1>1, <1>2 DEF MailInv
<1>4. GoodLetter(r, tab, claims, dispatched)
  BY <1>1, <1>2 DEF MailInv
<1>5. tab.at # "idle" => tab.idx \in Rows /\ tab.idx \in DOMAIN news
  BY <1>1, RowsAreNumbered DEF ShowInv
<1>6. tab.idx \in Rows => /\ speech'[tab.idx].claim = speech[tab.idx].claim
                          /\ speech[tab.idx].state \in SealedStates => speech'[tab.idx].state \in SealedStates
  BY DEF RecordMoves
<1>7. SUFFICES tab' \in TabRecs /\ mail' \in Seq(ReceiptRecs) /\ ShowInv'
               /\ \A x \in Letters(mail') : GoodLetter(x, tab', claims, dispatched)
  BY <1>1 DEF TalkInv, SpeechTypes, MailInv
<1>8. CASE tab' = tab /\ mail' = Tail(mail)
  <2>1. ShowInv'
    BY <1>1, <1>5, <1>6, <1>8 DEF ShowInv, Showing
  <2> QED
    BY <1>1, <1>2, <1>3, <1>8, <2>1
<1>9. ASSUME tab.at \in Showing, tab' = NoShow, NEW s \in {"deferred", "unknown"}, mail' = Append(Tail(mail), Receipt(s))
      PROVE  tab' \in TabRecs /\ mail' \in Seq(ReceiptRecs) /\ ShowInv'
             /\ \A x \in Letters(mail') : GoodLetter(x, tab', claims, dispatched)
  <2> DEFINE n == Receipt(s)
  <2>1. s \in SealedStates \cup {"deferred"} /\ s \notin Audible
    BY DEF SealedStates, Audible
  <2>2. n \in ReceiptRecs /\ n.state = s /\ n.claim \in 1..claims
    BY <1>9, <2>1, ReceiptIsGood
  <2>3. mail' = Append(Tail(mail), n)
    BY <1>9
  <2> HIDE DEF n
  <2>4. mail' \in Seq(ReceiptRecs) /\ Letters(mail') = Letters(Tail(mail)) \cup {n}
    BY <1>2, <2>2, <2>3, LettersOfMail
  <2>5. tab' \in TabRecs /\ tab'.at = "idle" /\ tab'.claim = 0
    BY <1>9 DEF NoShow, TabRecs
  <2>6. ShowInv'
    BY <2>5 DEF ShowInv, Showing
  <2>7. \A x \in Letters(mail') : GoodLetter(x, tab', claims, dispatched)
    BY <1>3, <2>1, <2>2, <2>4, <2>5 DEF GoodLetter
  <2> QED
    BY <2>4, <2>5, <2>6, <2>7
<1>10. CASE b /\ r.claim = tab.claim /\ tab.at = "telling" /\ tab' = [tab EXCEPT !.at = "cleared"] /\ mail' = Tail(mail)
  <2>1. tab' \in TabRecs /\ tab'.at = "cleared" /\ tab'.claim = tab.claim /\ tab'.idx = tab.idx
    BY <1>1, <1>10 DEF TabRecs, Showing
  <2>2. r.state = "submitting" /\ r.idx = tab.idx
    BY <1>4, <1>10 DEF GoodLetter
  <2>3. speech'[tab.idx].state \in SealedStates
    BY <1>10, <2>2
  <2>4. ShowInv'
    BY <1>1, <1>5, <1>6, <1>10, <2>1, <2>3 DEF ShowInv, Showing
  <2>5. \A x \in Letters(mail') : GoodLetter(x, tab', claims, dispatched)
    BY <1>3, <1>10, <2>1 DEF GoodLetter
  <2> QED
    BY <1>2, <1>10, <2>1, <2>4, <2>5
<1> QED
  BY <1>8, <1>9, <1>10, TabHearsOne

\* A lost receipt keeps the invariant.
LEMMA ReceiptLostKept ==
  ASSUME LogInv, TalkInv, ReceiptIsLost
  PROVE  TalkInv'
<1>1. mail # <<>> /\ TabHears(Head(mail), FALSE) /\ news' = news /\ tabGen' = tabGen /\ claims' = claims /\ said' = said
      /\ dispatched' = dispatched /\ replayed' = replayed /\ speech' = speech
  BY DEF ReceiptIsLost, newsVars
<1>2. speech \in [Rows -> SpeechRecs] /\ RowInv
  BY DEF TalkInv, SpeechTypes
<1>3. \A i \in Rows : speech[i] \in SpeechRecs /\ RecordMoves(speech[i], speech'[i], dispatched)
  BY <1>1, <1>2 DEF RecordMoves, RowInv, FactInv
<1>4. RowInv'
  BY <1>1, <1>2, RowsRest
<1> DEFINE r == Head(mail)
<1>5. r = Head(mail) /\ TabHears(r, FALSE) /\ FALSE \in BOOLEAN
  BY <1>1
<1> HIDE DEF r
<1> QED
  BY <1>1, <1>2, <1>3, <1>4, <1>5, AnswerHeard

\* A receipt that is taken moves its row on, and seals it if it says "submitting".
LEMMA TakenMoves ==
  ASSUME LogInv, TalkInv, NEW r \in Letters(mail), Attempt(r), Accepts(r)
  PROVE  /\ r.idx \in Rows /\ RecordMoves(speech[r.idx], Taken(r), dispatched)
         /\ r.state = "submitting" => Taken(r).state \in SealedStates
<1> DEFINE y == speech[r.idx]
           x == Taken(r)
<1>1. r \in ReceiptRecs /\ GoodLetter(r, tab, claims, dispatched)
  BY LettersOfMail DEF TalkInv, SpeechTypes, MailInv
<1>2. r.idx \in Rows /\ r.state \in SealedStates \cup {"deferred"} /\ r.claim > 0 /\ r.claim \in Nat
  <2>1. claims \in Nat
    BY NewsNumbers DEF TalkInv, SpeechTypes
  <2> QED
    BY <1>1, <2>1 DEF ReceiptRecs, GoodLetter
<1>3. y \in SpeechRecs /\ y.claim = r.claim /\ y.state # "none" /\ ("submitting" \in y.facts => y.state \in SealedStates)
  <2>1. speech[r.idx] \in SpeechRecs
    BY <1>2 DEF TalkInv, SpeechTypes
  <2>2. speech[r.idx].claim = r.claim
    BY DEF Attempt
  <2>3. speech[r.idx].state = "none" <=> speech[r.idx].claim = 0
    BY <1>2 DEF TalkInv, RowInv, ClaimInv
  <2>4. "submitting" \in speech[r.idx].facts => speech[r.idx].state \in SealedStates
    BY <1>2 DEF TalkInv, RowInv, FactInv
  <2> QED
    BY <1>2, <2>1, <2>2, <2>3, <2>4
<1>4. r.state \in Audible => y.claim \in dispatched
  BY <1>1, <1>3 DEF GoodLetter
<1>5. CASE r.state \in y.facts \cup {y.state}
  <2>1. x = y
    BY <1>5 DEF Taken
  <2>2. r.state = "submitting" => y.state \in SealedStates
    BY <1>3, <1>5 DEF SealedStates
  <2> QED
    BY <1>2, <1>3, <2>1, <2>2 DEF RecordMoves
<1>6. CASE r.state \notin y.facts \cup {y.state}
  <2> DEFINE s == IF r.state = "sent" /\ y.state \in {"interrupted", "unknown"} THEN y.state ELSE r.state
             f == y.facts \cup FactOf(r.state)
             z == [y EXCEPT !.state = s]
  <2>1. x = [y EXCEPT !.state = s, !.facts = f]
    BY <1>6 DEF Taken
  <2>2. s \in SealedStates \cup {"deferred"} /\ (s # r.state => s = y.state)
    BY <1>2 DEF SealedStates
  <2>3. FactOf(r.state) = IF r.state = "deferred" THEN {} ELSE {r.state}
    BY <1>2 DEF FactOf, SealedStates
  <2>4. y.facts \in SUBSET SealedStates
    BY <1>3 DEF SpeechRecs
  <2>5. f \in SUBSET SealedStates
    BY <1>2, <2>3, <2>4
  <2>6. CASE r.state = "deferred"
    <3>1. y.state = "queued"
      BY <2>6 DEF Accepts
    <3>2. s = "deferred" /\ f = y.facts
      BY <2>3, <2>6
    <3> HIDE DEF s, f, y, x
    <3>3. x \in SpeechRecs /\ x.claim = y.claim /\ x.state = "deferred" /\ x.facts = y.facts
      BY <1>3, <2>1, <2>5, <3>2 DEF SpeechRecs, Shelved
    <3>4. "submitting" \notin y.facts
      BY <1>3, <3>1 DEF SealedStates
    <3>5. RecordMoves(y, x, dispatched)
      BY <3>1, <3>3, <3>4 DEF RecordMoves, ActiveSpeech, SealedStates
    <3> QED
      BY <1>2, <2>6, <3>5 DEF x, y
  <2>7. CASE r.state # "deferred"
    <3>1. \/ r.state = "sent" /\ y.state \in {"interrupted", "unknown"}
          \/ MovesOn(y.state, r.state)
      BY <1>6, <2>7 DEF Accepts
    <3>2. s \in SealedStates /\ (s = r.state \/ (r.state = "sent" /\ s = y.state))
      BY <1>2, <2>2, <2>7, <3>1 DEF SealedStates
    <3>3. s \in ActiveSpeech => y.state \in ActiveSpeech
      <4>1. CASE r.state = "sent" /\ y.state \in {"interrupted", "unknown"}
        BY <4>1 DEF ActiveSpeech
      <4>2. CASE ~(r.state = "sent" /\ y.state \in {"interrupted", "unknown"})
        <5>1. MovesOn(y.state, r.state) /\ s = r.state
          BY <3>1, <4>2
        <5>2. y.state \in {"queued", "submitting", "sent", "playback_started", "unknown"} /\ r.state \in Allowed[y.state]
          BY <5>1 DEF MovesOn, Allowed
        <5>3. CASE y.state = "unknown"
          BY <5>1, <5>2, <5>3 DEF Allowed, ActiveSpeech
        <5>4. CASE y.state # "unknown"
          BY <5>2, <5>4 DEF ActiveSpeech
        <5> QED
          BY <5>3, <5>4
      <4> QED
        BY <4>1, <4>2
    <3>4. f = y.facts \cup {r.state}
      BY <2>3, <2>7
    <3>5. r.state = "submitting" => s = "submitting"
      OBVIOUS
    <3> HIDE DEF s, f, y, x
    <3>6. x \in SpeechRecs /\ x.claim = y.claim /\ x.state = s /\ x.facts = f
      BY <1>3, <2>1, <2>5, <3>2 DEF SpeechRecs
    <3>7. x.state # "none" /\ (x.facts \cap Audible # {} => y.facts \cap Audible # {} \/ x.claim \in dispatched)
      BY <1>4, <3>2, <3>4, <3>6 DEF SealedStates
    <3>8. RecordMoves(y, x, dispatched)
      BY <1>3, <3>2, <3>3, <3>6, <3>7 DEF RecordMoves
    <3> QED
      BY <1>2, <3>2, <3>6, <3>8 DEF x, y
  <2> QED
    BY <2>6, <2>7
<1> QED
  BY <1>5, <1>6

\* A receipt that arrives keeps the invariant.
LEMMA AnswerTakenKept ==
  ASSUME LogInv, TalkInv, ReceiptArrives
  PROVE  TalkInv'
<1> DEFINE r == Head(mail)
           taken == Attempt(r) /\ Accepts(r)
           x == Taken(r)
<1>1. /\ mail # <<>> /\ news' = news /\ tabGen' = tabGen /\ claims' = claims /\ said' = said
      /\ dispatched' = dispatched /\ replayed' = replayed
      /\ speech' = IF taken THEN [speech EXCEPT ![r.idx] = x] ELSE speech
      /\ TabHears(r, taken) \/ TabHears(r, FALSE)
  BY DEF ReceiptArrives, newsVars
<1>2. speech \in [Rows -> SpeechRecs] /\ RowInv /\ mail \in Seq(ReceiptRecs)
  BY DEF TalkInv, SpeechTypes
<1>3. r \in Letters(mail) /\ taken \in BOOLEAN
  <2>1. r \in Letters(mail)
    BY <1>1, <1>2, LettersOfMail
  <2>2. taken \in BOOLEAN
    BY DEF Attempt, Accepts, MovesOn
  <2> QED
    BY <2>1, <2>2
<1>4. taken => /\ r.idx \in Rows /\ RecordMoves(speech[r.idx], x, dispatched)
               /\ r.state = "submitting" => x.state \in SealedStates
  <2>1. SUFFICES ASSUME Attempt(r), Accepts(r)
                 PROVE  /\ r.idx \in Rows /\ RecordMoves(speech[r.idx], x, dispatched)
                        /\ r.state = "submitting" => x.state \in SealedStates
    OBVIOUS
  <2>2. r \in Letters(mail)
    BY <1>3
  <2> QED
    BY <2>1, <2>2, TakenMoves
<1>5. r = Head(mail)
  OBVIOUS
<1> HIDE DEF r, x, taken
<1>6. speech' \in [Rows -> SpeechRecs]
  BY <1>1, <1>2, <1>4 DEF RecordMoves
<1>7. \A i \in Rows : RecordMoves(speech[i], speech'[i], dispatched)
  <2> TAKE i \in Rows
  <2>1. CASE taken /\ i = r.idx
    <3>1. speech'[i] = x
      BY <1>1, <1>2, <2>1
    <3> QED
      BY <1>4, <2>1, <3>1
  <2>2. CASE ~(taken /\ i = r.idx)
    <3>1. speech'[i] = speech[i] /\ speech[i] \in SpeechRecs /\ ("submitting" \in speech[i].facts => speech[i].state \in SealedStates)
      BY <1>1, <1>2, <1>4, <2>2 DEF RowInv, FactInv
    <3> QED
      BY <3>1 DEF RecordMoves
  <2> QED
    BY <2>1, <2>2
<1>8. RowInv'
  BY <1>1, <1>6, <1>7, RowsMove
<1>9. taken /\ r.state = "submitting" => speech'[r.idx].state \in SealedStates
  BY <1>1, <1>2, <1>4
<1>10. CASE TabHears(r, taken)
  BY <1>1, <1>3, <1>5, <1>6, <1>7, <1>8, <1>9, <1>10, AnswerHeard
<1>11. CASE TabHears(r, FALSE)
  BY <1>1, <1>3, <1>5, <1>6, <1>7, <1>8, <1>11, AnswerHeard
<1> QED
  BY <1>1, <1>10, <1>11

\* Of the rows that say the same, the one last attempted is found.
LEMMA NewestClaim ==
  ASSUME LogInv, TalkInv, NEW j, Touched(SameNews(j)) # {}
  PROVE  /\ Notice(j) \in Touched(SameNews(j))
         /\ \A k \in Touched(SameNews(j)) : speech[k].claim <= speech[Notice(j)].claim
<1> DEFINE T == Touched(SameNews(j))
           C == {speech[i].claim : i \in T}
<1>1. \A i \in T : i \in Rows
  <2>1. DOMAIN news \subseteq Rows
    BY RowsAreNumbered
  <2> QED
    BY <2>1 DEF Touched, SameNews, Of
<1>2. \A i \in T : speech[i].claim \in Nat /\ speech[i].claim <= claims
  BY <1>1 DEF TalkInv, SpeechTypes, SpeechRecs, RowInv, ClaimInv
<1>3. claims \in Nat
  BY NewsNumbers DEF TalkInv, SpeechTypes
<1>4. C \in SUBSET Nat /\ C # {} /\ \A x \in C : x <= claims
  BY <1>2
<1>5. Max(C) \in C /\ \A y \in C : Max(C) >= y
  BY <1>3, <1>4, GreatestElement
<1>6. PICK i \in T : Max(C) = speech[i].claim
  BY <1>5
<1>7. \A k \in T : speech[k].claim <= speech[i].claim
  BY <1>2, <1>5, <1>6
<1>8. T # {}
  OBVIOUS
<1>9. Notice(j) = CHOOSE x \in T : \A k \in T : speech[k].claim <= speech[x].claim
  BY <1>8 DEF Notice
<1> QED
  BY <1>6, <1>7, <1>9

\* The row that speaks for a job is one of those that say the same as its newest.
LEMMA NoticeSaysTheSame ==
  ASSUME LogInv, TalkInv, NEW j, Of(j) # {}
  PROVE  Notice(j) \in SameNews(j)
<1> DEFINE S == SameNews(j)
<1>1. LogTypes
  BY DEF LogInv
<1>2. Newest(j) \in Of(j) /\ \A i \in Of(j) : i <= Newest(j)
  BY <1>1, NewestIsLast
<1>3. Len(news) \in Nat /\ DOMAIN news = 1..Len(news)
  BY RowsAreNumbered
<1>4. Of(j) \in SUBSET Nat
  BY <1>3 DEF Of
<1>5. Newest(j) \in S
  <2>1. \A k \in Of(j) : k >= Newest(j) => k = Newest(j)
    BY <1>2, <1>4
  <2> QED
    BY <1>2, <2>1 DEF SameNews
<1>6. CASE Touched(S) # {}
  BY <1>6, NewestClaim DEF Touched
<1>7. CASE Touched(S) = {} /\ LiveOf(S) # {}
  <2>1. LiveOf(S) \in SUBSET Nat /\ \A x \in LiveOf(S) : x <= Len(news)
    BY <1>3 DEF LiveOf, SameNews, Of
  <2>2. Max(LiveOf(S)) \in LiveOf(S)
    BY <1>3, <1>7, <2>1, GreatestElement
  <2> QED
    BY <1>7, <2>2 DEF Notice, LiveOf
<1>8. CASE Touched(S) = {} /\ LiveOf(S) = {}
  BY <1>5, <1>8 DEF Notice
<1> QED
  BY <1>6, <1>7, <1>8

\* What is claimed for announcement says nothing that was told already.
LEMMA NothingToldAgain ==
  ASSUME LogInv, TalkInv, NEW i \in DOMAIN news, NEW replay \in BOOLEAN, Speakable(i, replay),
         NEW a \in DOMAIN news, a # i, said[a] > 0, SameRun(news, a, i)
  PROVE  FALSE
<1>1. DOMAIN news \subseteq Rows /\ Len(news) \in Nat /\ DOMAIN news = 1..Len(news)
  BY RowsAreNumbered
<1>2. a \in Rows /\ i \in Rows /\ a \in Nat /\ i \in Nat
  BY <1>1
<1>3. news[a].job = news[i].job /\ news[a].state = news[i].state
  BY <1>2 DEF SameRun
<1>4. CASE replay
  <2>1. news[i].state \in Terminal /\ news[a].state \in Terminal
    BY <1>3, <1>4 DEF Speakable, Replayable
  <2>2. i < a \/ a < i
    BY <1>2
  <2> QED
    BY <1>3, <2>1, <2>2 DEF LogInv, LogFollowsJob
<1>5. CASE ~replay
  <2> DEFINE j == news[i].job
             S == SameNews(j)
  <2>1. i = Notice(j) /\ i \in Of(j) /\ a \in Of(j)
    BY <1>3, <1>5 DEF Speakable, Candidates, Of
  <2>2. i \in S
    BY <2>1, NoticeSaysTheSame
  <2>3. news[i].state = news[Newest(j)].state
    BY <1>2, <2>1, <2>2 DEF SameNews
  <2>4. ASSUME NEW k \in Of(j), k >= a
        PROVE  news[k].state = news[Newest(j)].state
    <3>1. k \in DOMAIN news /\ k \in Nat /\ news[k].job = news[a].job
      BY <1>1, <1>3 DEF Of
    <3>2. CASE k >= i
      BY <2>2, <2>4, <3>2 DEF SameNews
    <3>3. CASE ~(k >= i)
      <4>1. a <= k /\ k <= i
        BY <1>2, <2>4, <3>1, <3>3
      <4>2. news[k].state = news[a].state
        BY <3>1, <4>1 DEF SameRun
      <4> QED
        BY <1>3, <2>3, <4>2
    <3> QED
      BY <3>2, <3>3
  <2>5. a \in S
    BY <2>1, <2>4 DEF SameNews
  <2>6. speech[a].claim > 0 /\ speech[a].state # "none"
    BY <1>2 DEF TalkInv, RowInv, ClaimInv
  <2>7. a \in Touched(S)
    BY <2>5, <2>6 DEF Touched
  <2>8. speech[a].claim <= speech[i].claim
    BY <2>1, <2>7, NewestClaim
  <2>9. speech[i].claim < speech[a].claim
    BY DEF TalkInv, RowInv, ToldInv
  <2>10. speech[i].claim \in Nat /\ speech[a].claim \in Nat
    BY <1>2 DEF TalkInv, SpeechTypes, SpeechRecs
  <2> QED
    BY <2>8, <2>9, <2>10
<1> QED
  BY <1>4, <1>5

\* Claiming a row keeps the invariant.
LEMMA RowClaimed ==
  ASSUME LogInv, TalkInv, tab.at = "asking", claims < MaxClaims, Speakable(tab.idx, tab.replay), SpeakerFree,
         claims' = claims + 1, replayed' = IF tab.replay THEN replayed \cup {tab.idx} ELSE replayed,
         speech' = [speech EXCEPT ![tab.idx] = [state |-> "queued", claim |-> claims + 1, gen |-> tabGen, facts |-> {}]],
         tab' = [tab EXCEPT !.at = "claimed", !.claim = claims + 1] \/ tab' = NoShow,
         news' = news, tabGen' = tabGen, mail' = mail, said' = said, dispatched' = dispatched
  PROVE  TalkInv'
<1> DEFINE i == tab.idx
           c == claims + 1
           n == [state |-> "queued", claim |-> c, gen |-> tabGen, facts |-> {}]
<1>1. SpeechTypes /\ ShowInv /\ MailInv /\ RowInv /\ tab \in TabRecs /\ speech \in [Rows -> SpeechRecs]
  BY DEF TalkInv, SpeechTypes
<1>2. i \in DOMAIN news /\ tab.replay \in BOOLEAN /\ i \in Nat
  BY <1>1, RowsAreNumbered DEF ShowInv, TabRecs
<1>3. DOMAIN news \subseteq Rows /\ i \in Rows
  BY <1>2, RowsAreNumbered
<1>4. claims \in Nat /\ c \in Nat /\ c > claims /\ c \in 0..MaxClaims /\ tabGen \in Nat
  BY <1>1, NewsNumbers DEF SpeechTypes
<1>5. n \in SpeechRecs /\ n.state = "queued" /\ n.claim = c /\ n.facts = {}
  BY <1>4 DEF SpeechRecs, Shelved
<1> HIDE DEF n
<1>6. speech' = [speech EXCEPT ![i] = n]
  BY DEF n
<1>7. speech' \in [Rows -> SpeechRecs] /\ speech'[i] = n /\ \A k \in Rows : k # i => speech'[k] = speech[k]
  BY <1>1, <1>3, <1>5, <1>6
<1>8. replayed' \subseteq DOMAIN news /\ replayed \subseteq replayed' /\ (tab.replay => i \in replayed')
      /\ \A k \in replayed' : k \in replayed \/ (k = i /\ tab.replay)
  BY <1>1, <1>2 DEF SpeechTypes
<1>9. claims' = c
  OBVIOUS
<1>10. \A k \in Rows : speech[k].claim \in Nat /\ speech[k].claim <= claims
  BY <1>1 DEF RowInv, ClaimInv, SpeechRecs
<1>11. ~tab.replay => speech[i].state \notin SealedStates
  BY DEF Speakable, Candidates, Retryable, SealedStates
<1>12. i \notin replayed' => said[i] = 0
  <2>1. i \notin replayed' => ~tab.replay /\ i \notin replayed
    BY <1>8
  <2>2. said[i] > 0 /\ i \notin replayed => speech[i].state \in SealedStates
    BY <1>1, <1>3 DEF RowInv, ToldInv
  <2>3. said[i] \in Nat
    BY <1>1, <1>3 DEF SpeechTypes
  <2> QED
    BY <1>11, <2>1, <2>2, <2>3
<1> HIDE DEF c
<1>13. ClaimInv'
  <2>1. \A k \in Rows : /\ speech'[k].claim <= c
                        /\ speech'[k].state = "none" <=> speech'[k].claim = 0
                        /\ k \notin DOMAIN news => speech'[k].claim = 0 /\ said[k] = 0
                        /\ said[k] > 0 => speech'[k].claim > 0
    <3> TAKE k \in Rows
    <3>1. CASE k = i
      BY <1>2, <1>4, <1>5, <1>7, <3>1
    <3>2. CASE k # i
      BY <1>1, <1>4, <1>7, <1>10, <3>2 DEF RowInv, ClaimInv
    <3> QED
      BY <3>1, <3>2
  <2>2. \A k, m \in Rows : speech'[k].claim = speech'[m].claim => k = m \/ speech'[k].claim = 0
    <3> TAKE k, m \in Rows
    <3>1. CASE k = i \/ m = i
      BY <1>4, <1>5, <1>7, <1>10, <3>1
    <3>2. CASE k # i /\ m # i
      BY <1>1, <1>7, <3>2 DEF RowInv, ClaimInv
    <3> QED
      BY <3>1, <3>2
  <2> QED
    BY <1>9, <2>1, <2>2 DEF ClaimInv
<1>14. FactInv'
  <2>1. \A k \in Rows : speech'[k].state \in ActiveSpeech => k = i
    BY <1>7 DEF SpeakerFree
  <2>2. \A k \in Rows : "submitting" \in speech'[k].facts => speech'[k].state \in SealedStates
    BY <1>1, <1>5, <1>7 DEF RowInv, FactInv
  <2>3. RecordIsTrue'
    BY <1>1, <1>5, <1>7 DEF RowInv, FactInv, RecordIsTrue
  <2> QED
    BY <2>1, <2>2, <2>3 DEF FactInv
<1>15. ToldInv'
  <2>1. \A k \in Rows : said[k] > 0 /\ k \notin replayed' => said[k] = 1 /\ speech'[k].state \in SealedStates
    <3> TAKE k \in Rows
    <3>1. CASE k = i
      BY <1>12, <3>1
    <3>2. CASE k # i
      BY <1>1, <1>7, <1>8, <3>2 DEF RowInv, ToldInv
    <3> QED
      BY <3>1, <3>2
  <2>2. \A k \in replayed' : news[k].state \in Terminal
    <3>1. tab.replay => news[i].state \in Terminal
      BY DEF Speakable, Replayable
    <3> QED
      BY <1>1, <1>8, <3>1 DEF RowInv, ToldInv
  <2>3. ASSUME NEW a \in DOMAIN news, NEW b \in DOMAIN news, a # b, said[a] > 0, SameRun(news, a, b)
        PROVE  speech'[b].claim < speech'[a].claim
    <3>1. a \in Rows /\ b \in Rows
      BY <1>3
    <3>2. CASE b = i
      BY <1>2, <2>3, <3>2, NothingToldAgain
    <3>3. CASE b # i /\ a = i
      BY <1>4, <1>5, <1>7, <1>10, <3>1, <3>3
    <3>4. CASE b # i /\ a # i
      BY <1>1, <1>7, <2>3, <3>1, <3>4 DEF RowInv, ToldInv
    <3> QED
      BY <3>2, <3>3, <3>4
  <2> QED
    BY <2>1, <2>2, <2>3 DEF ToldInv, SameRun
<1>16. MailInv /\ \A r \in Letters(mail) : r.claim \in 1..claims
  BY <1>1 DEF MailInv, GoodLetter
<1>17. CASE tab' = NoShow
  <2>1. tab' \in TabRecs /\ tab'.at = "idle" /\ tab'.claim = 0
    BY <1>17 DEF NoShow, TabRecs
  <2>2. ShowInv'
    BY <2>1 DEF ShowInv, Showing
  <2>3. MailInv'
    BY <1>4, <1>9, <1>16, <2>1 DEF MailInv, GoodLetter
  <2>4. SpeechTypes'
    BY <1>1, <1>4, <1>7, <1>8, <1>9, <2>1 DEF SpeechTypes
  <2> QED
    BY <1>13, <1>14, <1>15, <2>2, <2>3, <2>4 DEF TalkInv, RowInv
<1>18. CASE tab' = [tab EXCEPT !.at = "claimed", !.claim = claims + 1]
  <2>1. tab' \in TabRecs /\ tab'.at = "claimed" /\ tab'.claim = c /\ tab'.idx = i
    BY <1>1, <1>4, <1>18 DEF TabRecs, Showing, c
  <2>2. ShowInv'
    BY <1>2, <1>4, <1>5, <1>7, <1>9, <1>12, <2>1 DEF ShowInv, Showing
  <2>3. MailInv'
    BY <1>4, <1>9, <1>16, <2>1 DEF MailInv, GoodLetter
  <2>4. SpeechTypes'
    BY <1>1, <1>4, <1>7, <1>8, <1>9, <2>1 DEF SpeechTypes
  <2> QED
    BY <1>13, <1>14, <1>15, <2>2, <2>3, <2>4 DEF TalkInv, RowInv
<1> QED
  BY <1>17, <1>18

\* queue_speech keeps the invariant, whether it claims the row or not.
LEMMA QueueKept ==
  ASSUME LogInv, TalkInv, QueueSpeech
  PROVE  TalkInv'
<1>1. tab.at = "asking" /\ claims < MaxClaims /\ news' = news /\ tabGen' = tabGen /\ mail' = mail /\ said' = said /\ dispatched' = dispatched
  BY DEF QueueSpeech, newsVars
<1>2. CASE Speakable(tab.idx, tab.replay) /\ SpeakerFree
  <2>1. /\ claims' = claims + 1
        /\ replayed' = IF tab.replay THEN replayed \cup {tab.idx} ELSE replayed
        /\ speech' = [speech EXCEPT ![tab.idx] = [state |-> "queued", claim |-> claims + 1, gen |-> tabGen, facts |-> {}]]
        /\ tab' = [tab EXCEPT !.at = "claimed", !.claim = claims + 1] \/ tab' = NoShow
    BY <1>2 DEF QueueSpeech
  <2> QED
    BY <1>1, <1>2, <2>1, RowClaimed
<1>3. CASE ~(Speakable(tab.idx, tab.replay) /\ SpeakerFree)
  <2>1. tab' = NoShow /\ claims' = claims /\ speech' = speech /\ replayed' = replayed
    BY <1>3 DEF QueueSpeech
  <2>2. tab' \in TabRecs /\ tab'.at = "idle" /\ tab'.claim = 0
    BY <2>1 DEF NoShow, TabRecs
  <2>3. ShowInv'
    BY <2>2 DEF ShowInv, Showing
  <2>4. mail' \in Seq(ReceiptRecs) /\ \A r \in Letters(mail') : GoodLetter(r, tab', claims, dispatched)
    BY <1>1, <2>2 DEF TalkInv, SpeechTypes, MailInv, GoodLetter
  <2> QED
    BY <1>1, <2>1, <2>2, <2>3, <2>4, TabOnly
<1> QED
  BY <1>2, <1>3

\* The task updates start in their invariant.
LEMMA TasksStart == TaskInit => TaskInv
<1> SUFFICES ASSUME TaskInit PROVE TaskInv
  OBVIOUS
<1>1. news = <<>> /\ DOMAIN news = {} /\ news \in Seq(NewsRecs) /\ polls = {} /\ claims = 0 /\ tabGen = 1
      /\ tab = NoShow /\ mail = <<>> /\ dispatched = {} /\ replayed = {}
  BY DEF TaskInit
<1>2. jobs \in [NewsJobs -> JobRecs]
  BY NewsNumbers DEF TaskInit, JobRecs, JobStates
<1>3. LogInv
  BY <1>1, <1>2 DEF LogInv, LogTypes, LogFollowsJob
<1>4. Unspoken \in SpeechRecs /\ Unspoken.claim = 0 /\ Unspoken.state = "none" /\ Unspoken.facts = {}
  BY DEF Unspoken, SpeechRecs, Shelved
<1>5. speech \in [Rows -> SpeechRecs] /\ (\A i \in Rows : speech[i] = Unspoken /\ said[i] = 0) /\ said \in [Rows -> Nat]
  BY <1>4 DEF TaskInit
<1>6. NoShow \in TabRecs /\ NoShow.at = "idle" /\ NoShow.claim = 0
  BY DEF NoShow, TabRecs
<1>7. <<>> \in Seq(ReceiptRecs) /\ Letters(<<>>) = {}
  BY DEF Letters
<1>8. SpeechTypes
  BY <1>1, <1>5, <1>6, <1>7, NewsNumbers DEF SpeechTypes
<1>9. ShowInv
  BY <1>1, <1>6 DEF ShowInv, Showing
<1>10. MailInv
  BY <1>1, <1>7 DEF MailInv
<1>11. ClaimInv
  BY <1>1, <1>4, <1>5 DEF ClaimInv
<1>12. FactInv
  BY <1>4, <1>5 DEF FactInv, RecordIsTrue, ActiveSpeech
<1>13. ToldInv
  BY <1>1, <1>5 DEF ToldInv
<1> QED
  BY <1>3, <1>8, <1>9, <1>10, <1>11, <1>12, <1>13 DEF TaskInv, TalkInv, RowInv

\* Task updates that do not run keep their invariant.
LEMMA TasksRest ==
  ASSUME TaskInv, UNCHANGED taskVars
  PROVE  TaskInv'
<1>1. jobs' = jobs /\ polls' = polls /\ news' = news /\ UNCHANGED speakVars
  BY DEF taskVars, newsVars
<1>2. LogInv'
  BY <1>1 DEF TaskInv, LogInv, LogTypes, LogFollowsJob
<1>3. TalkInv'
  BY <1>1, TalkRests DEF TaskInv
<1> QED
  BY <1>2, <1>3 DEF TaskInv

\* Every step of the task updates keeps their invariant.
LEMMA TaskStepKept ==
  ASSUME TaskInv, TaskNext
  PROVE  TaskInv'
<1>1. LogInv /\ TalkInv /\ tabGen \in Nat
  BY NewsNumbers DEF TaskInv, TalkInv, SpeechTypes
<1>2. ASSUME NEW j \in NewsJobs, NEW s \in JobStates, JobMoves(j, s)
      PROVE  TaskInv'
  <2>1. UNCHANGED speakVars /\ news' = news
    BY <1>2 DEF JobMoves
  <2> QED
    BY <1>1, <1>2, <2>1, LogMoves, TalkRests DEF TaskInv
<1>3. ASSUME NEW j \in NewsJobs, PollReads(j)
      PROVE  TaskInv'
  <2>1. UNCHANGED speakVars /\ news' = news
    BY <1>3 DEF PollReads
  <2> QED
    BY <1>1, <1>3, <2>1, LogPolled, TalkRests DEF TaskInv
<1>4. ASSUME NEW seen \in polls, ProjectJob(seen)
      PROVE  TaskInv'
  <2>1. LogInv'
    BY <1>1, <1>4, LogSaved
  <2> QED
    BY <1>1, <1>4, <2>1, TalkSaved DEF TaskInv
<1>5. ASSUME jobs' = jobs, polls' = polls, news' = news
      PROVE  LogInv'
  BY <1>1, <1>5 DEF LogInv, LogTypes, LogFollowsJob
<1>6. ASSUME NEW mode \in Wishes, UpdatePreference(mode)
      PROVE  TaskInv'
  <2>1. UNCHANGED speakVars /\ news' = news /\ jobs' = jobs /\ polls' = polls
    BY <1>6 DEF UpdatePreference
  <2> QED
    BY <1>1, <1>5, <2>1, TalkRests DEF TaskInv
<1>7. ASSUME NEW i \in DOMAIN news, NEW replay \in BOOLEAN, SpeechAsks(i, replay)
      PROVE  TaskInv'
  <2>1. news' = news /\ jobs' = jobs /\ polls' = polls
    BY <1>7 DEF SpeechAsks, newsVars
  <2> QED
    BY <1>1, <1>5, <1>7, <2>1, TabAsks DEF TaskInv
<1>8. CASE QueueSpeech
  <2>1. news' = news /\ jobs' = jobs /\ polls' = polls
    BY <1>8 DEF QueueSpeech, newsVars
  <2> QED
    BY <1>1, <1>5, <1>8, <2>1, QueueKept DEF TaskInv
<1>9. CASE TabGivesBack \/ TabSubmits \/ TabPlays
           \/ \E state \in {"unknown", "interrupted", "playback_acknowledged"} : TabFinishes(state)
  <2>1. news' = news /\ jobs' = jobs /\ polls' = polls
    BY <1>9 DEF TabGivesBack, TabSubmits, TabPlays, TabFinishes, newsVars
  <2> QED
    BY <1>1, <1>5, <1>9, <2>1, TabMailKept DEF TaskInv
<1>10. CASE TabDispatches
  <2>1. news' = news /\ jobs' = jobs /\ polls' = polls
    BY <1>10 DEF TabDispatches, newsVars
  <2> QED
    BY <1>1, <1>5, <1>10, <2>1, TabHandsOver DEF TaskInv
<1>11. CASE TabReloads
  <2>1. news' = news /\ jobs' = jobs /\ polls' = polls
    BY <1>11 DEF TabReloads
  <2> QED
    BY <1>1, <1>5, <1>11, <2>1, TabReloadsKept DEF TaskInv
<1>12. CASE ReceiptArrives
  <2>1. news' = news /\ jobs' = jobs /\ polls' = polls
    BY <1>12 DEF ReceiptArrives, newsVars
  <2> QED
    BY <1>1, <1>5, <1>12, <2>1, AnswerTakenKept DEF TaskInv
<1>13. CASE ReceiptIsLost
  <2>1. news' = news /\ jobs' = jobs /\ polls' = polls
    BY <1>13 DEF ReceiptIsLost, newsVars
  <2> QED
    BY <1>1, <1>5, <1>13, <2>1, ReceiptLostKept DEF TaskInv
<1>14. ASSUME NEW i \in Rows, ClaimLapses(i) \/ RetryIsDue(i)
       PROVE  TaskInv'
  <2>1. news' = news /\ jobs' = jobs /\ polls' = polls
    BY <1>14 DEF ClaimLapses, RetryIsDue, newsVars
  <2> QED
    BY <1>1, <1>5, <1>14, <2>1, RowLapses DEF TaskInv
<1> QED
  BY <1>2, <1>3, <1>4, <1>6, <1>7, <1>8, <1>9, <1>10, <1>11, <1>12, <1>13, <1>14 DEF TaskNext

\* The invariant of the task updates gives what the run checks of them.
LEMMA TaskInvIsEnough == TaskInv => TaskSafe
<1> SUFFICES ASSUME TaskInv PROVE TaskSafe
  OBVIOUS
<1>1. LogInv /\ TalkInv /\ RowInv /\ SpeechTypes
  BY DEF TaskInv, TalkInv
<1>2. Len(news) \in Nat /\ Len(news) <= MaxNews /\ DOMAIN news \subseteq Rows /\ DOMAIN news = 1..Len(news)
  BY <1>1, RowsAreNumbered
<1>3. TaskTypeOK
  BY <1>1, <1>2 DEF TaskTypeOK, SpeechTypes, TabRecs, Showing
<1>4. OneVoice
  <2> DEFINE A == {i \in Rows : speech[i].state \in ActiveSpeech}
  <2>1. CASE A = {}
    <3>1. IsFiniteSet(A) /\ Cardinality(A) = 0
      BY <2>1, FS_EmptySet
    <3> QED
      BY <3>1 DEF OneVoice
  <2>2. CASE A # {}
    <3>1. PICK x \in A : TRUE
      BY <2>2
    <3>2. A = {x}
      BY <1>1, <3>1 DEF RowInv, FactInv
    <3>3. Cardinality(A) = 1
      BY <3>2, FS_Singleton
    <3> QED
      BY <3>3 DEF OneVoice
  <2> QED
    BY <2>1, <2>2
<1>5. ToldOnce
  <2>1. \A i \in Rows : said[i] <= 1 \/ i \in replayed
    BY <1>1 DEF RowInv, ToldInv, SpeechTypes
  <2>2. ASSUME NEW i \in DOMAIN news, NEW k \in DOMAIN news, i < k, news[i].job = news[k].job, said[i] > 0, said[k] > 0,
               \A m \in i..k : ~(news[m].job = news[i].job /\ news[m].state # news[i].state)
        PROVE  FALSE
    <3>1. i \in Nat /\ k \in Nat /\ i \in Rows /\ k \in Rows
      BY <1>2
    <3>2. ASSUME NEW m \in DOMAIN news, news[m].job = news[i].job, (i <= m /\ m <= k) \/ (k <= m /\ m <= i)
          PROVE  news[m].state = news[i].state
      <4>1. m \in i..k
        BY <1>2, <2>2, <3>1, <3>2
      <4> QED
        BY <2>2, <3>2, <4>1
    <3>3. SameRun(news, i, k)
      BY <2>2, <3>2 DEF SameRun
    <3>4. k \in i..k
      BY <2>2, <3>1
    <3>5. news[k].state = news[i].state
      BY <2>2, <3>4
    <3>6. SameRun(news, k, i)
      BY <2>2, <3>2, <3>5 DEF SameRun
    <3>7. speech[k].claim < speech[i].claim /\ speech[i].claim < speech[k].claim
      BY <1>1, <2>2, <3>1, <3>3, <3>6 DEF RowInv, ToldInv
    <3>8. speech[k].claim \in Nat /\ speech[i].claim \in Nat
      BY <1>1, <3>1 DEF SpeechTypes, SpeechRecs
    <3> QED
      BY <3>7, <3>8
  <2> QED
    BY <2>1, <2>2 DEF ToldOnce
<1> QED
  BY <1>1, <1>3, <1>4, <1>5 DEF TaskSafe, RowInv, FactInv, LogInv

\* A part of the dashboard that does not run keeps its invariant.
LEMMA RecipientsRest ==
  ASSUME RecInv, UNCHANGED recVars
  PROVE  RecInv'
<1>1. chosen' = chosen /\ ops' = ops /\ asks' = asks /\ bridge' = bridge
  BY DEF recVars
<1>2. RecTyped' /\ KindInv'
  BY <1>1 DEF RecInv, RecTyped, KindInv
<1>3. SendInv'
  BY <1>1 DEF RecInv, SendInv, HasToken, On
<1>4. InspectInv' /\ ConfirmInv' /\ SelectionIsNewest'
  BY <1>1 DEF RecInv, InspectInv, ConfirmInv, ConfirmedWasSent, SelectionIsNewest, On
<1> QED
  BY <1>2, <1>3, <1>4 DEF RecInv

\* Targets that do not run keep their invariant.
LEMMA TargetsRest ==
  ASSUME TargetInv, UNCHANGED targetVars
  PROVE  TargetInv'
<1>1. row' = row /\ live' = live /\ discarded' = discarded /\ conns' = conns /\ switches' = switches /\ hangups' = hangups
  BY DEF targetVars
<1>2. TargetTyped' /\ StackInv'
  BY <1>1 DEF TargetInv, TargetTyped, StackInv
<1>3. SwitchInv'
  BY <1>1 DEF TargetInv, SwitchInv, MovedByOne, Pushed
<1>4. AskInv' /\ ConnInv'
  BY <1>1 DEF TargetInv, AskInv, ConnInv, Opened
<1> QED
  BY <1>2, <1>3, <1>4 DEF TargetInv

\* The invariant of the whole dashboard.
BoardInv == RecInv /\ TargetInv /\ StreamInv /\ InterInv /\ DashInv /\ TaskInv

\* The dashboard starts in its invariant.
LEMMA BoardStarts == BoardInit => BoardInv
BY RecStarts, TargetStarts, StreamStarts, InterStarts, DashStarts, TasksStart DEF BoardInit, BoardInv

\* Every step of the dashboard keeps its invariant: one part moves, the others rest.
LEMMA BoardStepKept ==
  ASSUME BoardInv, [BoardNext]_BoardVars
  PROVE  BoardInv'
<1>1. RecNext \/ UNCHANGED recVars
  BY DEF BoardNext, BoardVars
<1>2. TargetNext \/ UNCHANGED targetVars
  BY DEF BoardNext, BoardVars
<1>3. StreamNext \/ UNCHANGED streamVars
  BY DEF BoardNext, BoardVars
<1>7. InterNext \/ UNCHANGED interVars
  BY DEF BoardNext, BoardVars
<1>8. DashNext \/ UNCHANGED dashVars
  BY DEF BoardNext, BoardVars
<1>11. TaskNext \/ UNCHANGED taskVars
  BY DEF BoardNext, BoardVars
<1>4. RecInv'
  BY <1>1, RecStepKept, RecipientsRest DEF BoardInv
<1>5. TargetInv'
  BY <1>2, TargetStepKept, TargetsRest DEF BoardInv
<1>6. StreamInv'
  BY <1>3, StreamStepKept, StreamRests DEF BoardInv
<1>9. InterInv'
  BY <1>7, InterStepKept, InterRests DEF BoardInv
<1>10. DashInv'
  BY <1>8, DashStepKept, DashRests DEF BoardInv
<1>12. TaskInv'
  BY <1>11, TaskStepKept, TasksRest DEF BoardInv
<1> QED
  BY <1>4, <1>5, <1>6, <1>9, <1>10, <1>12 DEF BoardInv

\* The invariant of the dashboard holds in every behaviour: the parts' invariants together.
THEOREM BoardIsInvariant == BoardSpec => []BoardInv
<1>1. BoardInv /\ [BoardNext]_BoardVars => BoardInv'
  BY BoardStepKept
<1> QED
  BY BoardStarts, <1>1, PTL DEF BoardSpec

\* However the calls of a tab are retried, recovered or raced, the host runs one job of a call
\* and no job it may run is forgotten, an approval is decided once and never if it was told
\* failed, every post of a correction has the body frozen first; and no answer of the voice is
\* in the history before the words it answers, what is recorded as saved is there, and a settled
\* interaction is whole.
THEOREM ActionsAreSafe == BoardSpec => []ActionsSafe
<1>1. BoardInv => ActionsSafe
  BY DashInvIsEnough, InterInvIsEnough DEF BoardInv, ActionsSafe
<1> QED
  BY <1>1, BoardIsInvariant, PTL

\* What the tab chose holds: a message is delivered once at most, the selected recipient is
\* that of the newest selection, what is shown as confirmed went out; and the connection that
\* is served is the one of the selected target, and is open.
THEOREM ChoicesAreSafe == BoardSpec => []ChoicesSafe
<1>1. BoardInv => ChoicesSafe
  BY RecInvIsEnough, TargetInvIsEnough DEF BoardInv, ChoicesSafe
<1> QED
  BY <1>1, BoardIsInvariant, PTL

\* An event log that reports no gap missed no event of its epoch, and its rows stand in order
\* without a double.
THEOREM EventLogIsWhole == BoardSpec => []StreamSafe
<1>1. BoardInv => StreamSafe
  BY StreamInvIsEnough DEF BoardInv
<1> QED
  BY <1>1, BoardIsInvariant, PTL

\* What the tab hears of its tasks: the log follows the jobs, one update is spoken at a time,
\* what was told is not told again unasked unless it was asked for in between, what a record
\* says was submitted was; and an event log without a gap is whole.
THEOREM NewsIsTrue == BoardSpec => []NewsSafe
<1>1. BoardInv => NewsSafe
  BY TaskInvIsEnough, StreamInvIsEnough DEF BoardInv, NewsSafe
<1> QED
  BY <1>1, BoardIsInvariant, PTL

\* No step takes back what is known of a delivery, moves the place read of an event ring back
\* within an epoch, or writes a stack of targets that is not computed from the one before.
THEOREM NothingIsTakenBack == BoardSpec => StepsGoForward
<1>1. BoardInv /\ [BoardNext]_BoardVars =>
        [\A o \in Operations : /\ Rank(ops'[o].result) >= Rank(ops[o].result)
                               /\ Rank(ops[o].result) = 4 => ops'[o].result = ops[o].result]_recVars
  <2> SUFFICES ASSUME BoardInv, BoardNext, ~UNCHANGED recVars
               PROVE  \A o \in Operations : /\ Rank(ops'[o].result) >= Rank(ops[o].result)
                                            /\ Rank(ops[o].result) = 4 => ops'[o].result = ops[o].result
    BY DEF BoardVars
  <2>1. RecInv /\ RecNext
    BY DEF BoardInv, BoardNext
  <2> QED
    BY <2>1, KnowledgeStep DEF Grows
<1>2. BoardInv /\ [BoardNext]_BoardVars =>
        [source'.epoch = source.epoch => source'.cursor >= source.cursor /\ source'.latest >= source.latest]_streamVars
  <2> SUFFICES ASSUME BoardInv, BoardNext, ~UNCHANGED streamVars
               PROVE  source'.epoch = source.epoch => source'.cursor >= source.cursor /\ source'.latest >= source.latest
    BY DEF BoardVars
  <2>1. StreamInv /\ StreamNext
    BY DEF BoardInv, BoardNext
  <2> QED
    BY <2>1, StreamStepKept DEF StreamForward
<1>3. BoardInv /\ [BoardNext]_BoardVars =>
        [row'.revision # row.revision =>
           \/ row'.stack = Pushed(row'.target)
           \/ row.stack # <<>> /\ row'.stack = Front(row.stack) /\ row'.target = Last(row.stack)]_targetVars
  <2> SUFFICES ASSUME BoardInv, BoardNext, ~UNCHANGED targetVars
               PROVE  row'.revision # row.revision =>
                        \/ row'.stack = Pushed(row'.target)
                        \/ row.stack # <<>> /\ row'.stack = Front(row.stack) /\ row'.target = Last(row.stack)
    BY DEF BoardVars
  <2>1. TargetInv /\ TargetNext
    BY DEF BoardInv, BoardNext
  <2> QED
    BY <2>1, TargetStepKept DEF MovedByOne
<1> QED
  BY <1>1, <1>2, <1>3, BoardIsInvariant, PTL DEF BoardSpec, StepsGoForward, KnowledgeGrows, CursorHolds, StackMovesByOne
================================================================================
