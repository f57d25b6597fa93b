--------------------------- MODULE CompactionSteps ---------------------------
(***************************************************************************)
(* The inductive invariant of Compaction, and the steps that keep it but   *)
(* for Complete: CompactionProofs has that one, and the theorems.          *)
(*                                                                         *)
(* What the runs check is not inductive.  A compaction drops its inputs by *)
(* identity, so that no two SSTables share one has to be known wherever    *)
(* they are listed: in the levels, in `active` and in the lines of the     *)
(* MANIFEST, which still has the inputs of every compaction since its last *)
(* rewriting.  That a row is listed once needs the levels and `active` to  *)
(* agree (Mirror), and that the ranges of a level stay disjoint needs to   *)
(* know how the inputs were picked (JobOK).                                *)
(*                                                                         *)
(* The constants are arbitrary: any keys, triggers, sizes, TTL and number  *)
(* of levels, flushes and faults.                                          *)
(***************************************************************************)
EXTENDS Compaction, FiniteSetTheorems, TLAPS

\* What there is.
Sst == [id : Nat, seq : Nat, level : Nat, size : Nat, min : Nat, max : Nat, src : SUBSET Nat]
AddEvents == [type : {"ADD"}, sst : Sst]
Event == AddEvents \cup [type : {"BEGIN", "END"}, id : Nat] \cup {Torn}

\* The SSTables of all ADD lines of the MANIFEST, and all there are.
FileSsts == {e.sst : e \in {x \in Range(file) : x.type = "ADD"}}
Everywhere == AllSsts \cup active \cup FileSsts

FileOK == file \in Seq(Event)

LevelsOK ==
  /\ levels \in [Levels -> SUBSET Sst]
  /\ \A l \in Levels : IsFiniteSet(levels[l]) /\ \A s \in levels[l] : s.level = l

ActiveOK == active \in SUBSET Sst /\ IsFiniteSet(active)

CountersOK ==
  /\ next \in Nat /\ now \in Nat
  /\ flushed \in SUBSET Nat /\ \A f \in flushed : f < next

\* What is known of an SSTable, wherever it is listed.
Sound(s) ==
  /\ s.id < next /\ s.min <= s.max /\ s.level <= MaxLevels + 1
  /\ s.src \subseteq flushed
SstsSound == \A s \in Everywhere : Sound(s)
UniqueIds == \A s, t \in Everywhere : s.id = t.id => s = t

\* The compaction under way: what pick_l0_compaction or pick_ln_compaction chose.
Below(l) == IF l < MaxLevels THEN levels[l + 1] ELSE {}
Picked(l, inputs) ==
  \/ l = 0
  \/ \E s \in levels[l] : inputs = {s} \cup {t \in Below(l) : overlaps_with(s, t)}
JobOK ==
  job # NoJob =>
    /\ job.id \in pending \cap Nat
    /\ job.inputs \subseteq AllSsts /\ job.inputs # {}
    /\ \E l \in Levels : job.output = l + 1 /\ Picked(l, job.inputs)

NoneTorn == "torn" \notin fault => Torn \notin Range(file)

\* Every row that is left is in one of the SSTables.
CoversAll(ssts) == \A f \in flushed \ expired : Covers(ssts, f)
AllCovered ==
  /\ "torn" \notin fault => CoversAll(active) /\ CoversAll(FileSsts)
  /\ fault \cap {"torn", "panicked"} = {} => CoversAll(AllSsts)

\* The levels and `active` agree, but for a failed CompactionEnd and the panic.
Mirror ==
  /\ "failed" \notin fault => AllSsts \subseteq active
  /\ fault \cap {"failed", "panicked"} = {} => active \subseteq AllSsts

Apart(ssts) == \A s, t \in ssts : s # t => s.src \cap t.src = {}
RowsOnce ==
  fault \cap {"failed", "split"} = {} => Apart(AllSsts) /\ Apart(active) /\ Apart(FileSsts)

Disjoint(ssts) ==
  \A s, t \in ssts : s # t /\ s.level = t.level /\ s.level >= 2 => ~overlaps_with(s, t)
LevelsDisjoint ==
  fault = {} => Disjoint(AllSsts) /\ Disjoint(active) /\ Disjoint(FileSsts)

CompactionInv ==
  /\ FileOK /\ LevelsOK /\ ActiveOK /\ CountersOK
  /\ SstsSound /\ UniqueIds /\ JobOK
  /\ NoneTorn /\ AllCovered /\ Mirror /\ RowsOnce /\ LevelsDisjoint
-----------------------------------------------------------------------------
\* A non-empty set of natural numbers has a least element.
LEMMA LeastNat ==
  ASSUME NEW T \in SUBSET Nat, T # {}
  PROVE  \E n \in T : \A m \in T : n <= m
<1> DEFINE R == OpToRel(<, Nat)
<1>1. IsWellFoundedOn(R, Nat)
  BY NatLessThanWellFounded, Zenon
<1>2. \A x, y \in Nat : x < y => <<x, y>> \in R
  BY ZenonT(30) DEF OpToRel
<1> HIDE DEF R
<1>3. PICK n \in T : \A m \in T : ~ (<<m, n>> \in R)
  BY <1>1, WFMin, ZenonT(30)
<1>4. ASSUME NEW m \in T PROVE n <= m
  <2>1. n \in Nat /\ m \in Nat
    OBVIOUS
  <2>2. ~ (m < n)
    BY <1>2, <1>3, <2>1, Zenon
  <2> QED
    BY <2>1, <2>2
<1> QED
  BY <1>4

\* So Min finds it.
LEMMA MinFacts ==
  ASSUME NEW T \in SUBSET Nat, T # {}
  PROVE  Min(T) \in T /\ \A m \in T : Min(T) <= m
<1>1. \E n \in T : \A m \in T : n <= m
  BY LeastNat
<1> QED
  BY <1>1, Zenon DEF Min

\* A finite set of natural numbers is bounded: the values up to the k-th of an
\* enumeration are, whatever k.
LEMMA FiniteBounded ==
  ASSUME NEW T \in SUBSET Nat, IsFiniteSet(T)
  PROVE  \E b \in Nat : \A m \in T : m <= b
<1>1. PICK n \in Nat : ExistsSurjection(1 .. n, T)
  BY FS_NatSurjection
<1>2. PICK f : f \in Surjection(1 .. n, T)
  BY <1>1 DEF ExistsSurjection
<1>3. f \in [1 .. n -> T] /\ \A t \in T : \E i \in 1 .. n : f[i] = t
  BY <1>2 DEF Surjection
<1> DEFINE Bounded(k) == \E b \in Nat : \A i \in 1 .. k : f[i] <= b
           Bad == {k \in 0 .. n : ~ Bounded(k)}
<1>4. Bad = {}
  <2> SUFFICES ASSUME Bad # {} PROVE FALSE
    OBVIOUS
  <2>1. Bad \in SUBSET Nat
    OBVIOUS
  <2>2. PICK k \in Bad : \A m \in Bad : k <= m
    BY <2>1, LeastNat, Zenon
  <2>3. k # 0
    <3>1. \A i \in 1 .. 0 : f[i] <= 0
      OBVIOUS
    <3> QED
      BY <3>1
  <2>4. k \in 1 .. n /\ k - 1 \in 0 .. n /\ k - 1 < k /\ ~ (k <= k - 1)
    <3>1. k \in 0 .. n
      BY <2>2
    <3> QED
      BY <2>3, <3>1
  <2>5. k - 1 \notin Bad
    BY <2>1, <2>2, <2>4, Zenon
  <2>5b. Bounded(k - 1)
    BY <2>4, <2>5
  <2>6. PICK b \in Nat : \A i \in 1 .. k - 1 : f[i] <= b
    BY <2>5b, Zenon
  <2>7. f[k] \in Nat
    BY <1>3, <2>4, Zenon
  <2>8. ASSUME NEW i \in 1 .. k PROVE f[i] <= b + f[k]
    <3>1. CASE i = k
      BY <2>7, <3>1
    <3>2. CASE i # k
      <4>1. i \in 1 .. k - 1 /\ i \in 1 .. n
        BY <2>4, <3>2
      <4>2. f[i] \in Nat /\ f[i] <= b
        BY <1>3, <2>6, <4>1, Zenon
      <4> QED
        BY <2>7, <4>2
    <3> QED
      BY <3>1, <3>2
  <2>9. b + f[k] \in Nat
    BY <2>7
  <2> QED
    BY <2>8, <2>9, SMTT(30)
<1>5. Bounded(n)
  BY <1>4
<1>6. PICK b \in Nat : \A i \in 1 .. n : f[i] <= b
  BY <1>5
<1> QED
  BY <1>3, <1>6, Zenon

\* And Max finds the greatest of a finite set: the least of its bounds.
LEMMA MaxFacts ==
  ASSUME NEW T \in SUBSET Nat, T # {}, IsFiniteSet(T)
  PROVE  Max(T) \in T /\ \A m \in T : Max(T) >= m
<1> DEFINE Bounds == {b \in Nat : \A m \in T : m <= b}
<1>1. Bounds \in SUBSET Nat /\ Bounds # {}
  BY FiniteBounded, Zenon
<1>2. PICK b \in Bounds : \A c \in Bounds : b <= c
  BY <1>1, LeastNat, Zenon
<1>3. b \in T
  <2> SUFFICES ASSUME b \notin T PROVE FALSE
    OBVIOUS
  <2>1. PICK x \in T : TRUE
    BY Zenon
  <2>2. x \in Nat /\ x <= b /\ x # b /\ b \in Nat
    BY <1>2, <2>1
  <2>3. b - 1 \in Nat
    BY <2>2
  <2>4. \A m \in T : m <= b - 1
    BY <1>2
  <2>5. b - 1 \in Bounds
    BY <2>3, <2>4
  <2> QED
    BY <1>2, <2>2, <2>5
<1>4. \E x \in T : \A m \in T : x >= m
  BY <1>2, <1>3
<1> QED
  BY <1>4, Zenon DEF Max

\* The values of a function on a finite set.
LEMMA FiniteValues ==
  ASSUME NEW S, IsFiniteSet(S), NEW f, DOMAIN f = S
  PROVE  IsFiniteSet({f[x] : x \in S})
<1> DEFINE T == {f[x] : x \in S}
           g == [x \in S |-> f[x]]
<1>1. g \in Surjection(S, T)
  BY DEF Surjection
<1> HIDE DEF T, g
<1>2. IsFiniteSet(T)
  BY <1>1, FS_Surjection
<1> QED
  BY <1>2 DEF T

\* The fields that merge_sort_inputs takes the least or the greatest of.
LEMMA FieldsFinite ==
  ASSUME NEW S \in SUBSET Sst, IsFiniteSet(S)
  PROVE  /\ {s.seq : s \in S} \in SUBSET Nat /\ IsFiniteSet({s.seq : s \in S})
         /\ {s.max : s \in S} \in SUBSET Nat /\ IsFiniteSet({s.max : s \in S})
         /\ {s.min : s \in S} \in SUBSET Nat
<1>1. IsFiniteSet({s.seq : s \in S})
  <2> DEFINE f == [s \in S |-> s.seq]
  <2>1. DOMAIN f = S /\ {f[s] : s \in S} = {s.seq : s \in S}
    OBVIOUS
  <2> HIDE DEF f
  <2>2. IsFiniteSet({f[s] : s \in S})
    BY <2>1, FiniteValues
  <2> QED
    BY <2>1, <2>2, Zenon
<1>2. IsFiniteSet({s.max : s \in S})
  <2> DEFINE f == [s \in S |-> s.max]
  <2>1. DOMAIN f = S /\ {f[s] : s \in S} = {s.max : s \in S}
    OBVIOUS
  <2> HIDE DEF f
  <2>2. IsFiniteSet({f[s] : s \in S})
    BY <2>1, FiniteValues
  <2> QED
    BY <2>1, <2>2, Zenon
<1>3. /\ {s.seq : s \in S} \in SUBSET Nat
      /\ {s.max : s \in S} \in SUBSET Nat
      /\ {s.min : s \in S} \in SUBSET Nat
  BY DEF Sst
<1> QED
  BY <1>1, <1>2, <1>3

\* level_size_bytes and the like are numbers.
LEMMA TotalSizeNat ==
  ASSUME NEW S \in SUBSET Sst, IsFiniteSet(S)
  PROVE  TotalSize(S) \in Nat
<1> DEFINE f == [s \in S |-> {s} \X (1 .. s.size)]
<1>1. DOMAIN f = S /\ {f[s] : s \in S} = {{s} \X (1 .. s.size) : s \in S}
  OBVIOUS
<1>2. ASSUME NEW s \in S PROVE IsFiniteSet(f[s])
  <2>1. s.size \in Int
    BY DEF Sst
  <2>2. IsFiniteSet(1 .. s.size)
    BY <2>1, FS_Interval
  <2>3. IsFiniteSet({s})
    BY FS_Singleton, Zenon
  <2>4. IsFiniteSet({s} \X (1 .. s.size))
    BY <2>2, <2>3, FS_Product, Zenon
  <2> QED
    BY <2>4
<1> HIDE DEF f
<1>3. IsFiniteSet({f[s] : s \in S})
  BY <1>1, FiniteValues
<1>4. IsFiniteSet(UNION {f[s] : s \in S})
  BY <1>2, <1>3, FS_UNION, Zenon
<1>5. Cardinality(UNION {f[s] : s \in S}) \in Nat
  BY <1>4, FS_CardinalityType
<1> QED
  BY <1>1, <1>5, Zenon DEF TotalSize

\* The new MANIFEST has a line for every active SSTable, and no other.
LEMMA AddLinesFacts ==
  ASSUME NEW S \in SUBSET Sst, IsFiniteSet(S)
  PROVE  /\ AddLines(S) \in Seq(AddEvents)
         /\ Range(AddLines(S)) = {AddEvent(s) : s \in S}
<1> DEFINE lines == {AddEvent(s) : s \in S}
           f == [s \in S |-> AddEvent(s)]
           n == Cardinality(lines)
<1>1. DOMAIN f = S /\ {f[s] : s \in S} = lines
  OBVIOUS
<1>2. lines \subseteq AddEvents
  BY DEF AddEvents, AddEvent
<1>3. AddLines(S) = CHOOSE g \in [1 .. n -> lines] : Range(g) = lines
  BY DEF AddLines
<1> HIDE DEF f, lines
<1>4. IsFiniteSet(lines)
  BY <1>1, FiniteValues
<1>5. n \in Nat /\ ExistsBijection(1 .. n, lines)
  BY <1>4, FS_CardinalityType
<1> HIDE DEF n
<1>6. PICK h : h \in Bijection(1 .. n, lines)
  BY <1>5 DEF ExistsBijection
<1>7. h \in [1 .. n -> lines] /\ Range(h) = lines
  BY <1>6 DEF Bijection, Surjection, Injection, Range
<1>8. AddLines(S) \in [1 .. n -> lines] /\ Range(AddLines(S)) = lines
  BY <1>3, <1>7
<1>9. AddLines(S) \in Seq(AddEvents)
  BY <1>2, <1>5, <1>8
<1> QED
  BY <1>8, <1>9 DEF lines
-----------------------------------------------------------------------------
(* The SSTables of the levels, of `active` and of the MANIFEST. *)

\* The lines are events.
LEMMA LinesTyped ==
  ASSUME FileOK
  PROVE  Range(file) \subseteq Event /\ IsFiniteSet(Range(file))
<1>1. Range(file) \subseteq Event
  BY DEF FileOK, Range
<1>2. DOMAIN file = 1 .. Len(file) /\ Len(file) \in Nat
  BY DEF FileOK
<1>3. IsFiniteSet(DOMAIN file)
  BY <1>2, FS_Interval
<1>4. IsFiniteSet({file[i] : i \in DOMAIN file})
  BY <1>3, FiniteValues
<1> QED
  BY <1>1, <1>4 DEF Range

\* What recover() brings back is listed in the file, and is all of it unless a
\* line cannot be parsed.
LEMMA RecoveredFacts ==
  ASSUME FileOK
  PROVE  /\ FileSsts \subseteq Sst /\ IsFiniteSet(FileSsts)
         /\ RecoveredActive \subseteq FileSsts
         /\ Torn \notin Range(file) => RecoveredActive = FileSsts
<1> DEFINE adds == {x \in Range(file) : x.type = "ADD"}
           f == [e \in adds |-> e.sst]
<1>1. \A e \in Event : e.type = "ADD" => e.sst \in Sst
  BY DEF Event, AddEvents, Torn
<1>2. FileSsts \subseteq Sst
  BY <1>1, LinesTyped DEF FileSsts
<1>3. DOMAIN f = adds /\ {f[e] : e \in adds} = FileSsts
  BY Zenon DEF FileSsts
<1>4. IsFiniteSet(adds)
  BY LinesTyped, FS_Subset
<1> HIDE DEF f
<1>5. IsFiniteSet({f[e] : e \in adds})
  BY <1>3, <1>4, FiniteValues
<1>6. Readable \subseteq Range(file)
  BY DEF Readable, Range
<1>7. RecoveredActive \subseteq FileSsts
  BY <1>6 DEF RecoveredActive, OfType, FileSsts
<1>8. ASSUME Torn \notin Range(file) PROVE RecoveredActive = FileSsts
  <2>1. DOMAIN file = 1 .. Len(file) /\ Len(file) \in Nat
    BY DEF FileOK
  <2>2. \A i \in DOMAIN file : file[i] # Torn
    BY <1>8 DEF Range
  <2>3. \A k \in DOMAIN file : \A j \in 1 .. k : file[j] # Torn
    BY <2>1, <2>2
  <2>4. Readable = Range(file)
    BY <2>3 DEF Readable, Range
  <2> QED
    BY <2>4 DEF RecoveredActive, OfType, FileSsts
<1> QED
  BY <1>2, <1>3, <1>5, <1>7, <1>8, Zenon

\* append_event adds one line.
LEMMA AppendLine ==
  ASSUME FileOK, NEW e \in Event, file' = Append(file, e)
  PROVE  FileOK' /\ Range(file)' = Range(file) \cup {e}
<1>1. file \in Seq(Event)
  BY DEF FileOK
<1>2. file' \in Seq(Event) /\ Len(file') = Len(file) + 1 /\ DOMAIN file' = 1 .. Len(file) + 1
  BY <1>1
<1>3. \A i \in 1 .. Len(file) : file'[i] = file[i]
  BY <1>1
<1>4. file'[Len(file) + 1] = e
  BY <1>1
<1>5. DOMAIN file = 1 .. Len(file) /\ Len(file) \in Nat
  BY <1>1
<1>6. Range(file') \subseteq Range(file) \cup {e}
  BY <1>2, <1>3, <1>4, <1>5 DEF Range
<1>7. Range(file) \subseteq Range(file')
  BY <1>2, <1>3, <1>5 DEF Range
<1>8. e \in Range(file')
  <2>1. Len(file) + 1 \in DOMAIN file'
    BY <1>2, <1>5
  <2> QED
    BY <1>4, <2>1 DEF Range
<1> QED
  BY <1>2, <1>6, <1>7, <1>8 DEF FileOK

\* An AddSstable line lists its SSTable.
LEMMA AppendAdd ==
  ASSUME FileOK, NEW s \in Sst, file' = Append(file, AddEvent(s))
  PROVE  /\ FileOK' /\ FileSsts' = FileSsts \cup {s}
         /\ Torn \notin Range(file) => Torn \notin Range(file)'
<1>1. AddEvent(s) \in Event /\ AddEvent(s).type = "ADD" /\ AddEvent(s).sst = s
  BY DEF Event, AddEvents, AddEvent
<1>2. AddEvent(s) # Torn
  BY DEF AddEvent, Torn
<1>3. FileOK' /\ Range(file)' = Range(file) \cup {AddEvent(s)}
  BY <1>1, AppendLine
<1>4. FileSsts' = FileSsts \cup {s}
  BY <1>1, <1>3 DEF FileSsts
<1> QED
  BY <1>2, <1>3, <1>4

\* The other lines list none.
LEMMA AppendOther ==
  ASSUME FileOK, NEW e \in Event, e.type # "ADD", file' = Append(file, e)
  PROVE  /\ FileOK' /\ FileSsts' = FileSsts
         /\ e # Torn /\ Torn \notin Range(file) => Torn \notin Range(file)'
<1>1. FileOK' /\ Range(file)' = Range(file) \cup {e}
  BY AppendLine
<1>2. FileSsts' = FileSsts
  BY <1>1 DEF FileSsts
<1> QED
  BY <1>1, <1>2

\* A failing append leaves the lines alone, perhaps with a torn one after them.
LEMMA TornAppendFacts ==
  ASSUME FileOK, NoneTorn, NEW f \in SUBSET {"failed", "panicked"}, TornAppend(f)
  PROVE  /\ FileOK' /\ NoneTorn' /\ FileSsts' = FileSsts
         /\ fault \cup f \subseteq fault'
         /\ fault' \subseteq fault \cup f \cup {"torn"}
<1>1. CASE file' = file /\ fault' = fault \cup f
  BY <1>1 DEF FileOK, NoneTorn, FileSsts
<1>2. CASE file' = Append(file, Torn) /\ fault' = fault \cup f \cup {"torn"}
  <2>1. Torn \in Event /\ Torn.type # "ADD"
    BY DEF Event, Torn
  <2>2. FileOK' /\ FileSsts' = FileSsts
    BY <1>2, <2>1, AppendOther
  <2> QED
    BY <1>2, <2>2 DEF NoneTorn
<1> QED
  BY <1>1, <1>2 DEF TornAppend

\* Every SSTable that is listed anywhere is one.
LEMMA EverywhereTyped ==
  ASSUME FileOK, LevelsOK, ActiveOK
  PROVE  /\ Everywhere \subseteq Sst
         /\ IsFiniteSet(AllSsts)
<1>1. FileSsts \subseteq Sst
  BY RecoveredFacts
<1>2. AllSsts \subseteq Sst
  BY DEF LevelsOK, AllSsts
<1>3. IsFiniteSet(AllSsts)
  <2>1. DOMAIN levels = Levels /\ \A l \in Levels : IsFiniteSet(levels[l])
    BY DEF LevelsOK
  <2>2. IsFiniteSet(Levels)
    BY ConfigAssumption, FS_Interval DEF Levels
  <2>3. IsFiniteSet({levels[l] : l \in Levels})
    BY <2>1, <2>2, FiniteValues
  <2> QED
    BY <2>1, <2>3, FS_UNION DEF AllSsts
<1> QED
  BY <1>1, <1>2, <1>3 DEF Everywhere, ActiveOK

\* New SSTables with new identities keep every identity unique.
LEMMA FreshKeeps ==
  ASSUME FileOK, LevelsOK, ActiveOK, CountersOK, SstsSound, UniqueIds,
         NEW New \in SUBSET Sst,
         Everywhere' \subseteq Everywhere \cup New,
         next' \in Nat, next <= next', flushed \subseteq flushed',
         \A s \in New : s.id >= next /\ Sound(s)',
         \A s, t \in New : s.id = t.id => s = t
  PROVE  SstsSound' /\ UniqueIds'
<1>1. next \in Nat /\ \A s \in Everywhere \cup New : s.id \in Nat
  BY EverywhereTyped DEF CountersOK, Sst
<1>2. \A s \in Everywhere : s.id < next
  BY DEF SstsSound, Sound
<1>3. \A s \in Everywhere : Sound(s)'
  BY <1>1 DEF SstsSound, Sound
<1>4. SstsSound'
  BY <1>3 DEF SstsSound
<1>5. \A s \in Everywhere, t \in New : s.id # t.id
  BY <1>1, <1>2
<1>6. \A s, t \in Everywhere \cup New : s.id = t.id => s = t
  BY <1>5 DEF UniqueIds
<1> QED
  BY <1>4, <1>6 DEF UniqueIds
-----------------------------------------------------------------------------
(* merge_sort_inputs. *)

\* The inputs of the compaction under way.
LEMMA InputFacts ==
  ASSUME FileOK, LevelsOK, ActiveOK, JobOK, job # NoJob
  PROVE  /\ job.inputs \subseteq Sst /\ Valid \subseteq job.inputs
         /\ IsFiniteSet(job.inputs) /\ IsFiniteSet(Valid)
         /\ job.output \in Nat /\ job.output <= MaxLevels + 1 /\ job.output >= 1
<1>1. job.inputs \subseteq AllSsts
  BY DEF JobOK
<1>2. AllSsts \subseteq Sst /\ IsFiniteSet(AllSsts)
  BY EverywhereTyped DEF Everywhere
<1>3. IsFiniteSet(job.inputs)
  BY <1>1, <1>2, FS_Subset
<1>4. Valid \subseteq job.inputs
  BY DEF Valid
<1>5. IsFiniteSet(Valid)
  BY <1>3, <1>4, FS_Subset
<1>6. PICK l \in Levels : job.output = l + 1
  BY DEF JobOK
<1>7. MaxLevels \in Nat
  BY ConfigAssumption
<1>8. job.output \in Nat /\ job.output <= MaxLevels + 1 /\ job.output >= 1
  BY <1>6, <1>7 DEF Levels
<1> QED
  BY <1>1, <1>2, <1>3, <1>4, <1>5, <1>8

\* The number of outputs: none when all inputs have expired, else at least one.
LEMMA CountFacts ==
  ASSUME FileOK, LevelsOK, ActiveOK, JobOK, job # NoJob
  PROVE  /\ OutputCount \in Nat
         /\ Valid = {} <=> OutputCount = 0
<1> DEFINE parts == (TotalSize(Valid) + FileSize - 1) \div FileSize
<1>1. TotalSize(Valid) \in Nat
  BY InputFacts, TotalSizeNat
<1>2. FileSize \in Nat /\ FileSize > 0
  BY ConfigAssumption
<1>3. parts \in Int
  BY <1>1, <1>2
<1> HIDE DEF parts
<1>4. Max({parts, 1}) = IF parts >= 1 THEN parts ELSE 1
  BY <1>3 DEF Max
<1>5. Valid # {} => OutputCount = IF parts >= 1 THEN parts ELSE 1
  BY <1>4 DEF OutputCount, parts
<1>6. Valid = {} => OutputCount = 0
  BY DEF OutputCount
<1> QED
  BY <1>3, <1>5, <1>6

\* What one output is: it covers the inputs that are left, under a new identity.
OutputOK(o) ==
  /\ o \in Sst
  /\ o.level = job.output /\ o.src = UNION {s.src : s \in Valid}
  /\ o.id >= next /\ o.id < next + OutputCount
  /\ \E a \in Valid : o.min = a.min
  /\ \E b \in Valid : o.max = b.max
  /\ \A a \in Valid : o.min <= a.min /\ a.max <= o.max

\* merge_sort_inputs makes such outputs, one for each number.
LEMMA OutputFacts ==
  ASSUME FileOK, LevelsOK, ActiveOK, JobOK, CountersOK, job # NoJob
  PROVE  /\ \A o \in merge_sort_inputs : OutputOK(o)
         /\ IsFiniteSet(merge_sort_inputs)
         /\ \A o, p \in merge_sort_inputs : o.id = p.id => o = p
         /\ OutputCount <= 1 => \A o, p \in merge_sort_inputs : o = p
         /\ Valid # {} => merge_sort_inputs # {}
         /\ Valid = {} => merge_sort_inputs = {}
<1> DEFINE out(i) ==
             [id |-> next + i, level |-> job.output,
              seq |-> Max({s.seq : s \in Valid}),
              size |-> TotalSize(Valid) \div OutputCount,
              min |-> Min({s.min : s \in Valid}), max |-> Max({s.max : s \in Valid}),
              src |-> UNION {s.src : s \in Valid}]
           Numbers == 0 .. OutputCount - 1
<1>1. merge_sort_inputs = {out(i) : i \in Numbers}
  BY DEF merge_sort_inputs
<1>2. OutputCount \in Nat /\ next \in Nat
  BY CountFacts DEF CountersOK
<1>3. Valid \in SUBSET Sst /\ IsFiniteSet(Valid)
  BY InputFacts
<1>4. ASSUME NEW i \in Numbers PROVE OutputOK(out(i))
  <2>1. OutputCount > 0 /\ i \in Nat
    BY <1>2
  <2>2. Valid # {}
    BY <2>1, CountFacts
  <2>3. PICK v \in Valid : TRUE
    BY <2>2
  <2>4. /\ Max({s.seq : s \in Valid}) \in {s.seq : s \in Valid}
        /\ {s.seq : s \in Valid} \subseteq Nat
    <3> DEFINE T == {s.seq : s \in Valid}
    <3>1. T \in SUBSET Nat /\ IsFiniteSet(T)
      BY <1>3, FieldsFinite, Zenon
    <3>2. T # {}
      BY <2>3, Zenon
    <3> HIDE DEF T
    <3>3. Max(T) \in T
      BY <3>1, <3>2, MaxFacts
    <3> QED
      BY <3>1, <3>3, Zenon DEF T
  <2>5. /\ Max({s.max : s \in Valid}) \in {s.max : s \in Valid}
        /\ \A m \in {s.max : s \in Valid} : Max({s.max : s \in Valid}) >= m
        /\ {s.max : s \in Valid} \subseteq Nat
    <3> DEFINE T == {s.max : s \in Valid}
    <3>1. T \in SUBSET Nat /\ IsFiniteSet(T)
      BY <1>3, FieldsFinite, Zenon
    <3>2. T # {}
      BY <2>3, Zenon
    <3> HIDE DEF T
    <3>3. Max(T) \in T /\ \A m \in T : Max(T) >= m
      BY <3>1, <3>2, MaxFacts
    <3> QED
      BY <3>1, <3>3, Zenon DEF T
  <2>6. /\ Min({s.min : s \in Valid}) \in {s.min : s \in Valid}
        /\ \A m \in {s.min : s \in Valid} : Min({s.min : s \in Valid}) <= m
        /\ {s.min : s \in Valid} \subseteq Nat
    <3> DEFINE T == {s.min : s \in Valid}
    <3>1. T \in SUBSET Nat
      BY <1>3, FieldsFinite, Zenon
    <3>2. T # {}
      BY <2>3, Zenon
    <3> HIDE DEF T
    <3>3. Min(T) \in T /\ \A m \in T : Min(T) <= m
      BY <3>1, <3>2, MinFacts
    <3> QED
      BY <3>1, <3>3, Zenon DEF T
  <2>7. TotalSize(Valid) \div OutputCount \in Nat
    <3>1. TotalSize(Valid) \in Nat
      BY <1>3, TotalSizeNat
    <3> QED
      BY <1>2, <2>1, <3>1
  <2>8. job.output \in Nat
    BY InputFacts
  <2>9. (UNION {s.src : s \in Valid}) \subseteq Nat
    BY <1>3 DEF Sst
  <2>10. out(i) \in Sst
    <3>1. next + i \in Nat
      BY <1>2, <2>1
    <3>2. Max({s.seq : s \in Valid}) \in Nat
      BY <2>4
    <3>3. Max({s.max : s \in Valid}) \in Nat
      BY <2>5
    <3>4. Min({s.min : s \in Valid}) \in Nat
      BY <2>6
    <3> QED
      BY <2>7, <2>8, <2>9, <3>1, <3>2, <3>3, <3>4 DEF Sst
  <2>11. out(i).id >= next /\ out(i).id < next + OutputCount
    <3>1. out(i).id = next + i
      OBVIOUS
    <3> QED
      BY <1>2, <3>1
  <2>12. \E a \in Valid : out(i).min = a.min
    BY <2>6, SMTT(30)
  <2>13. \E b \in Valid : out(i).max = b.max
    BY <2>5, Zenon
  <2>14. ASSUME NEW a \in Valid PROVE out(i).min <= a.min /\ a.max <= out(i).max
    <3>1. out(i).min <= a.min
      BY <2>6
    <3>2. out(i).max >= a.max
      BY <2>5
    <3>3. out(i).max \in Nat /\ a.max \in Nat
      BY <1>3, <2>10 DEF Sst
    <3> QED
      BY <3>1, <3>2, <3>3
  <2>15. out(i).level = job.output /\ out(i).src = UNION {s.src : s \in Valid}
    OBVIOUS
  <2> HIDE DEF out
  <2> QED
    BY <2>10, <2>11, <2>12, <2>13, <2>14, <2>15 DEF OutputOK
<1>5. ASSUME NEW i \in Numbers, NEW j \in Numbers, out(i).id = out(j).id
      PROVE  out(i) = out(j)
  <2>1. next + i = next + j
    BY <1>5
  <2>2. i = j
    BY <1>2, <2>1
  <2> QED
    BY <2>2
<1>6. IsFiniteSet(merge_sort_inputs)
  <2> DEFINE f == [i \in Numbers |-> out(i)]
  <2>1. DOMAIN f = Numbers /\ {f[i] : i \in Numbers} = {out(i) : i \in Numbers}
    OBVIOUS
  <2>2. IsFiniteSet(Numbers)
    BY <1>2, FS_Interval
  <2> HIDE DEF f, Numbers
  <2>3. IsFiniteSet({f[i] : i \in Numbers})
    BY <2>1, <2>2, FiniteValues
  <2> QED
    BY <1>1, <2>1, <2>3, Zenon
<1> HIDE DEF out
<1>7. ASSUME OutputCount <= 1, NEW i \in Numbers, NEW j \in Numbers PROVE i = j
  BY <1>2, <1>7
<1>8. ASSUME Valid # {} PROVE 0 \in Numbers
  BY <1>2, <1>8, CountFacts
<1>9. ASSUME Valid = {} PROVE Numbers = {}
  BY <1>2, <1>9, CountFacts
<1>10. \A o \in merge_sort_inputs : OutputOK(o)
  BY <1>1, <1>4
<1>11. \A o, p \in merge_sort_inputs : o.id = p.id => o = p
  BY <1>1, <1>5
<1>12. OutputCount <= 1 => \A o, p \in merge_sort_inputs : o = p
  BY <1>1, <1>7
<1>13. Valid # {} => merge_sort_inputs # {}
  BY <1>1, <1>8
<1>14. Valid = {} => merge_sort_inputs = {}
  BY <1>1, <1>9
<1> QED
  BY <1>6, <1>10, <1>11, <1>12, <1>13, <1>14
-----------------------------------------------------------------------------
(* The steps.  Init and Tick first. *)

\* A new partition has no SSTables.
LEMMA InitInv == Init => CompactionInv
<1> SUFFICES ASSUME Init PROVE CompactionInv
  OBVIOUS
<1>1. Range(file) = {} /\ file \in Seq(Event)
  BY DEF Init, Range
<1>2. FileSsts = {} /\ AllSsts = {} /\ active = {} /\ Everywhere = {}
  BY <1>1 DEF Init, FileSsts, AllSsts, Everywhere, Empty
<1>3. FileOK /\ NoneTorn
  BY <1>1 DEF FileOK, NoneTorn
<1>4. IsFiniteSet({})
  BY FS_EmptySet
<1>5. LevelsOK /\ ActiveOK
  BY <1>4 DEF Init, LevelsOK, ActiveOK, Empty
<1>6. CountersOK
  BY DEF Init, CountersOK
<1>7. SstsSound /\ UniqueIds
  BY <1>2 DEF SstsSound, UniqueIds
<1>8. JobOK /\ flushed = {}
  BY DEF Init, JobOK
<1>9. AllCovered /\ Mirror
  BY <1>2, <1>8 DEF AllCovered, CoversAll, Mirror
<1>10. RowsOnce /\ LevelsDisjoint
  BY <1>2 DEF RowsOnce, Apart, LevelsDisjoint, Disjoint
<1> QED
  BY <1>3, <1>5, <1>6, <1>7, <1>8, <1>9, <1>10 DEF CompactionInv

\* The invariant does not read the clock.
LEMMA TickInv == CompactionInv /\ (Tick \/ UNCHANGED vars) => CompactionInv'
<1> SUFFICES ASSUME CompactionInv, Tick \/ UNCHANGED vars PROVE CompactionInv'
  OBVIOUS
<1>1. UNCHANGED <<levels, active, pending, file, job, next, flushed, expired, fault>>
  BY DEF Tick, vars, history
<1>2. now \in Nat /\ now' \in Nat
  BY DEF Tick, vars, CompactionInv, CountersOK
<1>3. FileSsts' = FileSsts /\ AllSsts' = AllSsts /\ Everywhere' = Everywhere
  BY <1>1 DEF FileSsts, AllSsts, Everywhere
<1>4. FileOK' /\ NoneTorn'
  BY <1>1 DEF CompactionInv, FileOK, NoneTorn
<1>5. LevelsOK' /\ ActiveOK'
  BY <1>1 DEF CompactionInv, LevelsOK, ActiveOK
<1>6. CountersOK'
  BY <1>1, <1>2 DEF CompactionInv, CountersOK
<1>7. SstsSound' /\ UniqueIds'
  BY <1>1, <1>3 DEF CompactionInv, SstsSound, Sound, UniqueIds
<1>8. JobOK'
  BY <1>1, <1>3 DEF CompactionInv, JobOK, Picked, Below
<1>9. AllCovered' /\ Mirror'
  BY <1>1, <1>3 DEF CompactionInv, AllCovered, CoversAll, Covers, Mirror
<1>10. RowsOnce' /\ LevelsDisjoint'
  BY <1>1, <1>3 DEF CompactionInv, RowsOnce, Apart, LevelsDisjoint, Disjoint
<1> QED
  BY <1>4, <1>5, <1>6, <1>7, <1>8, <1>9, <1>10 DEF CompactionInv

\* A failed append that changes nothing else keeps the invariant.
LEMMA TornInv ==
  ASSUME CompactionInv, TornAppend({}),
         UNCHANGED <<levels, active, pending, job, now, next, flushed, expired>>
  PROVE  CompactionInv'
<1>1. FileOK /\ NoneTorn
  BY DEF CompactionInv
<1>2. /\ FileOK' /\ NoneTorn' /\ FileSsts' = FileSsts
      /\ fault \subseteq fault' /\ fault' \subseteq fault \cup {"torn"}
  <2> DEFINE none == {}
  <2>1. none \in SUBSET {"failed", "panicked"} /\ TornAppend(none)
    OBVIOUS
  <2> HIDE DEF none
  <2>2. /\ FileOK' /\ NoneTorn' /\ FileSsts' = FileSsts
        /\ fault \cup none \subseteq fault' /\ fault' \subseteq fault \cup none \cup {"torn"}
    BY <1>1, <2>1, TornAppendFacts
  <2> QED
    BY <2>2 DEF none
<1>3. AllSsts' = AllSsts /\ Everywhere' = Everywhere
  BY <1>2 DEF AllSsts, Everywhere
<1>4. LevelsOK' /\ ActiveOK' /\ CountersOK'
  BY DEF CompactionInv, LevelsOK, ActiveOK, CountersOK
<1>5. SstsSound' /\ UniqueIds'
  BY <1>3 DEF CompactionInv, SstsSound, Sound, UniqueIds
<1>6. JobOK'
  BY <1>3 DEF CompactionInv, JobOK, Picked, Below
<1>7. AllCovered' /\ Mirror'
  <2>1. AllCovered'
    BY <1>2, <1>3 DEF CompactionInv, AllCovered, CoversAll, Covers
  <2>2. Mirror'
    BY <1>2, <1>3 DEF CompactionInv, Mirror
  <2> QED
    BY <2>1, <2>2
<1>8. RowsOnce' /\ LevelsDisjoint'
  <2>1. RowsOnce'
    BY <1>2, <1>3 DEF CompactionInv, RowsOnce, Apart
  <2>2. LevelsDisjoint'
    BY <1>2, <1>3 DEF CompactionInv, LevelsDisjoint, Disjoint
  <2> QED
    BY <2>1, <2>2
<1> QED
  BY <1>2, <1>4, <1>5, <1>6, <1>7, <1>8 DEF CompactionInv

\* register_flush adds an SSTable of new rows to L0, `active` and the MANIFEST.
LEMMA FlushKeeps ==
  ASSUME CompactionInv, NEW s \in Sst,
         s.id = next, s.level = 0, s.src = {next}, s.min <= s.max,
         file' = Append(file, AddEvent(s)),
         next' = next + 1,
         active' = active \cup {s},
         levels' = [l \in Levels |-> IF l = 0 THEN levels[l] \cup {s} ELSE levels[l]],
         flushed' = flushed \cup {next},
         job = NoJob,
         UNCHANGED <<faults, fault, pending, job, now, expired>>
  PROVE  CompactionInv'
<1>1. next \in Nat /\ next' \in Nat /\ next < next' /\ \A f \in flushed : f \in Nat /\ f < next
  BY DEF CompactionInv, CountersOK
<1>3. /\ FileOK' /\ FileSsts' = FileSsts \cup {s}
      /\ Torn \notin Range(file) => Torn \notin Range(file)'
  <2>1. FileOK
    BY DEF CompactionInv
  <2> QED
    BY <2>1, AppendAdd
<1>4. NoneTorn'
  BY <1>3 DEF CompactionInv, NoneTorn
<1>5. 0 \in Levels /\ MaxLevels \in Nat
  BY ConfigAssumption DEF Levels
<1>6. /\ levels'[0] = levels[0] \cup {s}
      /\ \A l \in Levels : l # 0 => levels'[l] = levels[l]
  BY <1>5
<1>7. AllSsts' = AllSsts \cup {s}
  BY <1>5, <1>6 DEF AllSsts
<1>8. Everywhere' = Everywhere \cup {s}
  BY <1>3, <1>7 DEF Everywhere
<1>9. IsFiniteSet({s})
  BY FS_Singleton, Zenon
<1>10. LevelsOK'
  <2>1. \A l \in Levels : IsFiniteSet(levels[l]) /\ \A t \in levels[l] : t.level = l
    BY DEF CompactionInv, LevelsOK
  <2>2. IsFiniteSet(levels[0] \cup {s})
    BY <1>5, <1>9, <2>1, FS_Union
  <2>3. levels' \in [Levels -> SUBSET Sst]
    BY DEF CompactionInv, LevelsOK
  <2>4. ASSUME NEW l \in Levels
        PROVE  IsFiniteSet(levels'[l]) /\ \A t \in levels'[l] : t.level = l
    BY <1>6, <2>1, <2>2, Zenon
  <2> QED
    BY <2>3, <2>4, Zenon DEF LevelsOK
<1>11. ActiveOK'
  BY <1>9, FS_Union, Zenon DEF CompactionInv, ActiveOK
<1>12. CountersOK'
  <2>1. \A f \in flushed' : f \in Nat /\ f < next'
    BY <1>1
  <2> QED
    BY <1>1, <2>1 DEF CompactionInv, CountersOK
<1>13. SstsSound' /\ UniqueIds'
  <2> DEFINE New == {s}
  <2>1. FileOK /\ LevelsOK /\ ActiveOK /\ CountersOK /\ SstsSound /\ UniqueIds
    BY DEF CompactionInv
  <2>2. Sound(s)'
    BY <1>1, <1>5 DEF Sound
  <2>3. \A t \in New : t.id >= next /\ Sound(t)'
    BY <1>1, <2>2, SMTT(30)
  <2>4. New \in SUBSET Sst /\ \A t, u \in New : t.id = u.id => t = u
    OBVIOUS
  <2>5. Everywhere' \subseteq Everywhere \cup New /\ flushed \subseteq flushed' /\ next <= next'
    BY <1>1, <1>8
  <2> HIDE DEF New
  <2> QED
    BY <1>1, <2>1, <2>3, <2>4, <2>5, FreshKeeps, SMTT(30)
<1>14. JobOK'
  BY DEF JobOK
<1>15. \A S : CoversAll(S) => CoversAll(S \cup {s})'
  BY DEF CoversAll, Covers
<1>16. AllCovered'
  BY <1>3, <1>7, <1>15, Zenon DEF CompactionInv, AllCovered, CoversAll
<1>17. Mirror'
  BY <1>7 DEF CompactionInv, Mirror
<1>18. \A t \in Everywhere : t.src \cap s.src = {}
  <2>1. \A t \in Everywhere : t.src \subseteq flushed
    BY DEF CompactionInv, SstsSound, Sound
  <2>2. next \notin flushed
    BY <1>1
  <2> QED
    BY <2>1, <2>2
<1>19. ASSUME NEW S \in SUBSET Everywhere, Apart(S) PROVE Apart(S \cup {s})
  BY <1>18, <1>19 DEF Apart
<1>20. AllSsts \subseteq Everywhere /\ active \subseteq Everywhere /\ FileSsts \subseteq Everywhere
  BY DEF Everywhere
<1>21. RowsOnce'
  <2> SUFFICES ASSUME fault' \cap {"failed", "split"} = {}
               PROVE  Apart(AllSsts') /\ Apart(active') /\ Apart(FileSsts')
    BY DEF RowsOnce, Apart
  <2>1. Apart(AllSsts) /\ Apart(active) /\ Apart(FileSsts)
    BY DEF CompactionInv, RowsOnce
  <2>2. Apart(AllSsts \cup {s}) /\ Apart(active \cup {s}) /\ Apart(FileSsts \cup {s})
    BY <1>19, <1>20, <2>1
  <2> QED
    BY <1>3, <1>7, <2>2
<1>22. \A S : Disjoint(S) => Disjoint(S \cup {s})
  BY DEF Disjoint
<1>23. LevelsDisjoint'
  <2> SUFFICES ASSUME fault' = {}
               PROVE  Disjoint(AllSsts') /\ Disjoint(active') /\ Disjoint(FileSsts')
    BY DEF LevelsDisjoint, Disjoint
  <2>1. Disjoint(AllSsts) /\ Disjoint(active) /\ Disjoint(FileSsts)
    BY DEF CompactionInv, LevelsDisjoint
  <2>2. Disjoint(AllSsts \cup {s}) /\ Disjoint(active \cup {s}) /\ Disjoint(FileSsts \cup {s})
    BY <1>22, <2>1
  <2> QED
    BY <1>3, <1>7, <2>2
<1> QED
  BY <1>3, <1>4, <1>10, <1>11, <1>12, <1>13, <1>14, <1>16, <1>17, <1>21, <1>23, SMTT(30) DEF CompactionInv

\* Or its append fails.
LEMMA FlushInv ==
  ASSUME CompactionInv, NEW range \in Ranges, RegisterFlush(range)
  PROVE  CompactionInv'
<1> DEFINE s == [id |-> next, seq |-> next, level |-> 0, size |-> 1,
                 min |-> range[1], max |-> range[2], src |-> {next}]
<1>1. CASE /\ TornAppend({})
           /\ UNCHANGED <<levels, active, pending, job, now, next, flushed, expired>>
  BY <1>1, TornInv
<1>2. CASE /\ file' = Append(file, AddEvent(s))
           /\ next' = next + 1
           /\ active' = active \cup {s}
           /\ levels' = AddAll(levels, {s})
           /\ flushed' = flushed \cup {next}
           /\ job = NoJob
           /\ UNCHANGED <<faults, fault, pending, job, now, expired>>
  <2>1. /\ s \in Sst /\ s.id = next /\ s.level = 0 /\ s.src = {next}
        /\ s.min <= s.max
    <3>1. range[1] \in Nat /\ range[2] \in Nat /\ range[1] <= range[2]
      BY ConfigAssumption, ZenonT(30) DEF Ranges
    <3>2. next \in Nat
      BY DEF CompactionInv, CountersOK
    <3> QED
      BY <3>1, <3>2 DEF Sst
  <2> HIDE DEF s
  <2>2. PICK new \in Sst : new = s
    BY <2>1
  <2>3. levels' = [l \in Levels |-> IF l = 0 THEN levels[l] \cup {s} ELSE levels[l]]
    BY <1>2, <2>1 DEF AddAll
  <2> QED
    BY <1>2, <2>1, <2>2, <2>3, FlushKeeps, Zenon
<1> QED
  BY <1>1, <1>2 DEF RegisterFlush

\* The SSTables that PartitionLevels holds after adding some to levels without any.
LEMMA RebuiltLevels ==
  ASSUME NEW S \in SUBSET Sst, IsFiniteSet(S), levels' = AddAll(Empty, S)
  PROVE  LevelsOK' /\ AllSsts' = {s \in S : s.level \in Levels}
<1>1. levels' = [l \in Levels |-> {s \in S : s.level = l}]
  BY DEF AddAll, Empty
<1>2. \A l \in Levels : levels'[l] = {s \in S : s.level = l}
  BY <1>1
<1>3. levels' \in [Levels -> SUBSET Sst]
  BY <1>1
<1>4. ASSUME NEW l \in Levels
      PROVE  IsFiniteSet(levels'[l]) /\ \A s \in levels'[l] : s.level = l
  <2>1. levels'[l] \subseteq S
    BY <1>2
  <2>2. IsFiniteSet(levels'[l])
    BY <2>1, FS_Subset
  <2> QED
    BY <1>2, <2>2
<1>5. AllSsts' = {s \in S : s.level \in Levels}
  BY <1>2 DEF AllSsts
<1> QED
  BY <1>3, <1>4, <1>5 DEF LevelsOK

\* A restart lists nothing that the MANIFEST does not.
LEMMA CrashInv ==
  ASSUME CompactionInv, Crash
  PROVE  CompactionInv'
<1> DEFINE deep == IF \E s \in RecoveredActive : s.level > MaxLevels THEN {"panicked"} ELSE {}
<1>1. FileOK /\ NoneTorn
  BY DEF CompactionInv
<1>2. /\ FileOK' /\ NoneTorn' /\ FileSsts' = FileSsts
      /\ fault \cup deep \subseteq fault'
      /\ fault' \subseteq fault \cup deep \cup {"torn"}
  <2>1. deep \in SUBSET {"failed", "panicked"} /\ TornAppend(deep)
    BY DEF Crash
  <2> HIDE DEF deep
  <2> QED
    BY <1>1, <2>1, TornAppendFacts
<1>3. PICK rec : rec = RecoveredActive
  OBVIOUS
<1>4. rec \subseteq FileSsts /\ FileSsts \subseteq Sst /\ IsFiniteSet(FileSsts)
  BY <1>1, <1>3, RecoveredFacts
<1>5. "torn" \notin fault => rec = FileSsts
  BY <1>1, <1>3, RecoveredFacts DEF NoneTorn
<1>6. rec \subseteq Sst /\ IsFiniteSet(rec)
  BY <1>4, FS_Subset
<1>7. /\ active' = rec /\ levels' = AddAll(Empty, rec) /\ job' = NoJob
      /\ next' = next /\ flushed' = flushed /\ expired' = expired /\ now' = now
  BY <1>3 DEF Crash
<1>8. LevelsOK' /\ AllSsts' = {s \in rec : s.level \in Levels}
  BY <1>6, <1>7, RebuiltLevels
<1>9. "panicked" \notin fault' => AllSsts' = rec
  <2> SUFFICES ASSUME "panicked" \notin fault' PROVE \A s \in rec : s.level \in Levels
    BY <1>8
  <2>1. ~ \E s \in rec : s.level > MaxLevels
    BY <1>2, <1>3
  <2>2. MaxLevels \in Nat /\ \A s \in rec : s.level \in Nat
    BY <1>6, ConfigAssumption DEF Sst
  <2> QED
    BY <2>1, <2>2 DEF Levels
<1>10. ActiveOK' /\ CountersOK' /\ JobOK'
  BY <1>6, <1>7 DEF CompactionInv, ActiveOK, CountersOK, JobOK
<1>11. Everywhere' \subseteq Everywhere
  BY <1>2, <1>4, <1>7, <1>8 DEF Everywhere
<1>12. SstsSound' /\ UniqueIds'
  BY <1>7, <1>11 DEF CompactionInv, SstsSound, Sound, UniqueIds
<1>13. AllCovered'
  <2>1. ASSUME "torn" \notin fault' PROVE CoversAll(FileSsts) /\ rec = FileSsts
    BY <1>2, <1>5, <2>1 DEF CompactionInv, AllCovered
  <2>2. ASSUME "torn" \notin fault' PROVE CoversAll(active)' /\ CoversAll(FileSsts)'
    BY <1>2, <1>7, <2>1, <2>2 DEF CoversAll
  <2>3. ASSUME fault' \cap {"torn", "panicked"} = {} PROVE CoversAll(AllSsts)'
    BY <1>7, <1>9, <2>1, <2>3 DEF CoversAll
  <2> QED
    BY <2>2, <2>3 DEF AllCovered
<1>14. Mirror'
  BY <1>7, <1>8, <1>9 DEF Mirror
<1>15. AllSsts' \subseteq FileSsts /\ active' \subseteq FileSsts /\ FileSsts' \subseteq FileSsts
  BY <1>2, <1>4, <1>7, <1>8
<1>16. RowsOnce'
  BY <1>2, <1>15 DEF CompactionInv, RowsOnce, Apart
<1>17. LevelsDisjoint'
  BY <1>2, <1>15 DEF CompactionInv, LevelsDisjoint, Disjoint
<1> QED
  BY <1>2, <1>8, <1>10, <1>12, <1>13, <1>14, <1>16, <1>17 DEF CompactionInv

\* A compaction begins with inputs from two adjacent levels.
LEMMA BeginInv ==
  ASSUME CompactionInv, Begin
  PROVE  CompactionInv'
<1>1. PICK l \in highest_priority_level : \E inputs \in Inputs(l) :
        \/ /\ job' = [id |-> next, inputs |-> inputs, output |-> l + 1]
           /\ next' = next + 1
           /\ file' = Append(file, BeginEvent(next))
           /\ pending' = pending \cup {next}
           /\ UNCHANGED <<faults, fault>>
        \/ /\ CountFault
           /\ TornAppend({})
           /\ UNCHANGED <<job, next, pending>>
  BY DEF Begin
<1>2. PICK inputs \in Inputs(l) :
        \/ /\ job' = [id |-> next, inputs |-> inputs, output |-> l + 1]
           /\ next' = next + 1
           /\ file' = Append(file, BeginEvent(next))
           /\ pending' = pending \cup {next}
           /\ UNCHANGED <<faults, fault>>
        \/ /\ CountFault
           /\ TornAppend({})
           /\ UNCHANGED <<job, next, pending>>
  BY <1>1
<1>3. UNCHANGED <<levels, active, now, flushed, expired>>
  BY DEF Begin
<1>4. CASE TornAppend({}) /\ UNCHANGED <<job, next, pending>>
  BY <1>3, <1>4, TornInv
<1>5. CASE /\ job' = [id |-> next, inputs |-> inputs, output |-> l + 1]
           /\ next' = next + 1
           /\ file' = Append(file, BeginEvent(next))
           /\ pending' = pending \cup {next}
           /\ UNCHANGED <<faults, fault>>
  <2>1. next \in Nat /\ next' \in Nat /\ next < next'
    BY <1>5 DEF CompactionInv, CountersOK
  <2>2. BeginEvent(next) \in Event /\ BeginEvent(next).type # "ADD" /\ BeginEvent(next) # Torn
    BY <2>1 DEF BeginEvent, Event, Torn
  <2>3. /\ FileOK' /\ FileSsts' = FileSsts
        /\ Torn \notin Range(file) => Torn \notin Range(file)'
    <3>1. FileOK
      BY DEF CompactionInv
    <3> QED
      BY <1>5, <2>2, <3>1, AppendOther
  <2>4. NoneTorn'
    BY <1>5, <2>3 DEF CompactionInv, NoneTorn
  <2>5. AllSsts' = AllSsts /\ Everywhere' = Everywhere
    BY <1>3, <2>3 DEF AllSsts, Everywhere
  <2>6. LevelsOK' /\ ActiveOK'
    BY <1>3 DEF CompactionInv, LevelsOK, ActiveOK
  <2>7. CountersOK'
    <3>1. \A f \in flushed : f \in Nat /\ f < next
      BY DEF CompactionInv, CountersOK
    <3>2. \A f \in flushed : f < next'
      BY <2>1, <3>1
    <3> QED
      BY <1>3, <2>1, <3>2 DEF CompactionInv, CountersOK
  <2>8. SstsSound' /\ UniqueIds'
    <3>1. \A s \in Everywhere : s.id \in Nat
      BY EverywhereTyped DEF CompactionInv, Sst
    <3>2. \A s \in Everywhere : s.id < next'
      BY <2>1, <3>1 DEF CompactionInv, SstsSound, Sound
    <3> QED
      BY <1>3, <2>5, <3>2 DEF CompactionInv, SstsSound, Sound, UniqueIds
  <2>9. l \in Levels /\ Score(l)[1] >= Score(l)[2]
    BY DEF highest_priority_level
  <2>10. MaxLevels \in Nat /\ l \in Nat /\ 0 \in Levels /\ Trigger \in Nat /\ Trigger > 0
    BY <2>9, ConfigAssumption DEF Levels
  <2>11. inputs \subseteq AllSsts /\ inputs # {} /\ Picked(l, inputs)
    <3>1. CASE l = 0
      <4>1. inputs = levels[0]
        BY <3>1 DEF Inputs
      <4>2. Score(0) = <<Cardinality(levels[0]), Trigger>>
        BY DEF Score
      <4>3. Cardinality(levels[0]) >= Trigger
        BY <2>9, <3>1, <4>2
      <4>4. levels[0] # {}
        BY <2>10, <4>3, FS_EmptySet, SMTT(30)
      <4> QED
        BY <2>10, <3>1, <4>1, <4>4 DEF AllSsts, Picked
    <3>2. CASE l # 0
      <4>1. PICK s \in levels[l] : inputs = {s} \cup {t \in Below(l) : overlaps_with(s, t)}
        BY <3>2 DEF Inputs, Below
      <4>2. Below(l) \subseteq AllSsts
        <5>1. l < MaxLevels => l + 1 \in Levels
          BY <2>10 DEF Levels
        <5> QED
          BY <5>1 DEF Below, AllSsts
      <4>3. s \in AllSsts
        BY <2>9, SMTT(30) DEF AllSsts
      <4> QED
        BY <4>1, <4>2, <4>3 DEF Picked
    <3> QED
      BY <3>1, <3>2
  <2>12. JobOK'
    <3>1. job'.id = next /\ job'.inputs = inputs /\ job'.output = l + 1
      BY <1>5
    <3>2. Picked(l, inputs)'
      BY <1>3, <2>11 DEF Picked, Below
    <3>3. next \in pending' \cap Nat
      BY <1>5, <2>1, SMTT(30)
    <3> QED
      BY <2>5, <2>9, <2>11, <3>1, <3>2, <3>3 DEF JobOK
  <2>13. AllCovered'
    BY <1>3, <1>5, <2>3, <2>5 DEF CompactionInv, AllCovered, CoversAll
  <2>14. Mirror'
    BY <1>3, <1>5, <2>5, SMTT(30) DEF CompactionInv, Mirror
  <2>15. RowsOnce'
    BY <1>3, <1>5, <2>3, <2>5, SMTT(30) DEF CompactionInv, RowsOnce, Apart
  <2>16. LevelsDisjoint'
    BY <1>3, <1>5, <2>3, <2>5 DEF CompactionInv, LevelsDisjoint, Disjoint
  <2> QED
    BY <2>3, <2>4, <2>6, <2>7, <2>8, <2>12, <2>13, <2>14, <2>15, <2>16, SMTT(30) DEF CompactionInv
<1> QED
  BY <1>2, <1>4, <1>5
==============================================================================
