-------------------------- MODULE CompactionProofs ---------------------------
(***************************************************************************)
(* Complete keeps the invariant of CompactionSteps: the outputs take the   *)
(* place of the inputs in `active` and, unless the MANIFEST cannot be      *)
(* written, in the levels.  The theorems follow.                           *)
(***************************************************************************)
EXTENDS CompactionSteps

(* complete_compaction and the levels after it. *)

\* What every outcome of Complete does: `out` takes the place of the inputs.
Completes(out) ==
  /\ job # NoJob /\ out = merge_sort_inputs
  /\ active' = {s \in active : \A t \in job.inputs : s.id # t.id} \cup out
  /\ next' = next + OutputCount
  /\ expired' = expired \cup (UNION {s.src : s \in job.inputs \ Valid})
  /\ job' = NoJob /\ now' = now /\ flushed' = flushed

\* Removing by identity removes the inputs and nothing else.
LEMMA RemovesInputs ==
  ASSUME UniqueIds, JobOK, job # NoJob, NEW S \in SUBSET Everywhere
  PROVE  {s \in S : \A t \in job.inputs : s.id # t.id} = S \ job.inputs
<1>1. job.inputs \subseteq Everywhere
  BY DEF JobOK, Everywhere
<1>2. \A s \in S : (\A t \in job.inputs : s.id # t.id) <=> s \notin job.inputs
  BY <1>1 DEF UniqueIds
<1> QED
  BY <1>2

\* The rows of the inputs are in the outputs, or have expired.
LEMMA CompletesCovers ==
  ASSUME CompactionInv, NEW out, Completes(out), NEW S, CoversAll(S)
  PROVE  \A f \in flushed' \ expired' : Covers((S \ job.inputs) \cup out, f)
<1>1. TAKE f \in flushed' \ expired'
<1>2. f \in flushed \ expired /\ f \notin UNION {s.src : s \in job.inputs \ Valid}
  BY DEF Completes
<1>3. PICK s \in S : f \in s.src
  BY <1>2 DEF CoversAll, Covers
<1>4. CASE s \notin job.inputs
  BY <1>3, <1>4 DEF Covers
<1>5. CASE s \in job.inputs
  <2>1. s \in Valid
    BY <1>2, <1>3, <1>5
  <2>2. /\ \A o \in merge_sort_inputs : OutputOK(o)
        /\ Valid # {} => merge_sort_inputs # {}
    BY OutputFacts DEF CompactionInv, Completes
  <2>3. PICK o \in out : OutputOK(o)
    BY <2>1, <2>2 DEF Completes
  <2>4. f \in o.src
    BY <1>3, <2>1, <2>3 DEF OutputOK
  <2> QED
    BY <2>3, <2>4 DEF Covers
<1> QED
  BY <1>4, <1>5

\* A row of the outputs is a row of an input.
LEMMA OutputRows ==
  ASSUME CompactionInv, NEW out, Completes(out), NEW o \in out
  PROVE  /\ o \in Sst /\ o.id >= next /\ Sound(o)'
         /\ \A f \in o.src : \E s \in job.inputs : f \in s.src
<1>1. OutputOK(o)
  BY OutputFacts DEF CompactionInv, Completes
<1>2. /\ job.inputs \subseteq Sst /\ Valid \subseteq job.inputs
      /\ job.output \in Nat /\ job.output <= MaxLevels + 1
  BY InputFacts DEF CompactionInv, Completes
<1>3. \A f \in o.src : \E s \in job.inputs : f \in s.src
  BY <1>1, <1>2 DEF OutputOK
<1>4. \A s \in job.inputs : s.src \subseteq flushed /\ s.min <= s.max
  BY DEF CompactionInv, Completes, JobOK, SstsSound, Sound, Everywhere
<1>5. o.src \subseteq flushed
  BY <1>3, <1>4
<1>6. o.min <= o.max
  <2>1. PICK a \in Valid : o.min <= a.min /\ a.max <= o.max
    BY <1>1 DEF OutputOK
  <2>2. a.min \in Nat /\ a.max \in Nat /\ o.min \in Nat /\ o.max \in Nat
    BY <1>1, <1>2 DEF OutputOK, Sst
  <2>3. a.min <= a.max
    BY <1>2, <1>4
  <2> QED
    BY <2>1, <2>2, <2>3
<1>7. o.id < next'
  BY <1>1 DEF OutputOK, Completes
<1>8. o.level <= MaxLevels + 1
  BY <1>1, <1>2 DEF OutputOK
<1>9. flushed' = flushed
  BY DEF Completes
<1>10. Sound(o)'
  BY <1>5, <1>6, <1>7, <1>8, <1>9 DEF Sound
<1> QED
  BY <1>1, <1>3, <1>10 DEF OutputOK

\* What every outcome keeps, wherever the SSTables are listed after it.
LEMMA CompletesKeeps ==
  ASSUME CompactionInv, NEW out, Completes(out),
         Everywhere' \subseteq Everywhere \cup out
  PROVE  /\ active' = (active \ job.inputs) \cup out
         /\ ActiveOK' /\ CountersOK' /\ JobOK' /\ SstsSound' /\ UniqueIds'
<1>1. /\ FileOK /\ LevelsOK /\ ActiveOK /\ JobOK /\ CountersOK /\ SstsSound /\ UniqueIds
      /\ job # NoJob
  BY DEF CompactionInv, Completes
<1>2. active \subseteq Everywhere
  BY DEF Everywhere
<1>3. active' = (active \ job.inputs) \cup out
  BY <1>1, <1>2, RemovesInputs DEF Completes
<1>4. out \subseteq Sst /\ \A o \in out : o.id >= next /\ Sound(o)'
  BY OutputRows
<1>5. IsFiniteSet(out) /\ \A o, p \in out : o.id = p.id => o = p
  BY <1>1, OutputFacts DEF Completes
<1>6. OutputCount \in Nat /\ next \in Nat
  BY <1>1, CountFacts DEF CountersOK
<1>7. next' \in Nat /\ next <= next'
  BY <1>6 DEF Completes
<1>8. ActiveOK'
  <2>1. active \subseteq Sst /\ IsFiniteSet(active)
    BY <1>1 DEF ActiveOK
  <2>2. IsFiniteSet(active \ job.inputs)
    BY <2>1, FS_Subset
  <2>3. IsFiniteSet((active \ job.inputs) \cup out)
    BY <1>5, <2>2, FS_Union, Zenon
  <2> QED
    BY <1>3, <1>4, <2>1, <2>3 DEF ActiveOK
<1>9. CountersOK'
  <2>1. flushed' = flushed /\ now' = now
    BY DEF Completes
  <2>2. \A f \in flushed : f \in Nat /\ f < next
    BY <1>1 DEF CountersOK
  <2>3. \A f \in flushed : f < next'
    BY <1>6, <1>7, <2>2
  <2> QED
    BY <1>1, <1>7, <2>1, <2>3 DEF CountersOK
<1>10. JobOK'
  BY DEF JobOK, Completes
<1>11. SstsSound' /\ UniqueIds'
  <2>1. flushed \subseteq flushed'
    BY DEF Completes
  <2> QED
    BY <1>1, <1>4, <1>5, <1>7, <2>1, FreshKeeps
<1> QED
  BY <1>3, <1>8, <1>9, <1>10, <1>11

\* complete_compaction fails: the levels keep the inputs, and so does the file.
LEMMA CompleteFails ==
  ASSUME CompactionInv, NEW out, Completes(out),
         FileOK', NoneTorn', FileSsts' = FileSsts, levels' = levels,
         fault \cup {"failed"} \subseteq fault'
  PROVE  CompactionInv'
<1>1. AllSsts' = AllSsts /\ LevelsOK'
  BY DEF AllSsts, LevelsOK, CompactionInv
<1>2. active' \subseteq active \cup out
  BY DEF Completes
<1>3. Everywhere' \subseteq Everywhere \cup out
  BY <1>1, <1>2 DEF Everywhere
<1>4. /\ active' = (active \ job.inputs) \cup out
      /\ ActiveOK' /\ CountersOK' /\ JobOK' /\ SstsSound' /\ UniqueIds'
  BY <1>3, CompletesKeeps
<1>5. flushed' \ expired' \subseteq flushed \ expired
  BY DEF Completes
<1>6. AllCovered'
  <2>1. ASSUME "torn" \notin fault' PROVE CoversAll(active)'
    <3>1. CoversAll(active)
      BY <2>1 DEF CompactionInv, AllCovered
    <3>2. \A f \in flushed' \ expired' : Covers((active \ job.inputs) \cup out, f)
      BY <3>1, CompletesCovers
    <3>3. \A f \in flushed' \ expired' : Covers(active', f)
      BY <1>4, <3>2
    <3> QED
      BY <3>3 DEF CoversAll, Covers
  <2>2. ASSUME "torn" \notin fault' PROVE CoversAll(FileSsts)'
    BY <1>5, <2>2 DEF CompactionInv, AllCovered, CoversAll, Covers
  <2>3. ASSUME fault' \cap {"torn", "panicked"} = {} PROVE CoversAll(AllSsts)'
    BY <1>1, <1>5, <2>3 DEF CompactionInv, AllCovered, CoversAll, Covers
  <2> QED
    BY <2>1, <2>2, <2>3 DEF AllCovered
<1>7. Mirror' /\ RowsOnce' /\ LevelsDisjoint'
  BY DEF Mirror, RowsOnce, LevelsDisjoint
<1> QED
  BY <1>1, <1>4, <1>6, <1>7 DEF CompactionInv

\* The file gets its CompactionEnd line, or is rewritten with what is active.
LEMMA RewriteFacts ==
  ASSUME FileOK, NoneTorn, NEW c \in Nat, NEW act \in SUBSET Sst, IsFiniteSet(act),
         file' = Rewrite(Append(file, EndEvent(c)), act), fault \subseteq fault'
  PROVE  FileOK' /\ NoneTorn' /\ (FileSsts' = FileSsts \/ FileSsts' = act)
<1>1. CASE file' = Append(file, EndEvent(c))
  <2>1. EndEvent(c) \in Event /\ EndEvent(c).type # "ADD" /\ EndEvent(c) # Torn
    BY DEF EndEvent, Event, Torn
  <2>2. /\ FileOK' /\ FileSsts' = FileSsts
        /\ Torn \notin Range(file) => Torn \notin Range(file)'
    BY <1>1, <2>1, AppendOther
  <2> QED
    BY <2>2 DEF NoneTorn
<1>2. CASE file' = AddLines(act)
  <2>1. file' \in Seq(AddEvents) /\ Range(file') = {AddEvent(s) : s \in act}
    BY <1>2, AddLinesFacts
  <2>2. AddEvents \subseteq Event
    BY DEF Event
  <2>3. FileOK'
    BY <2>1, <2>2 DEF FileOK
  <2>4. \A s \in act : AddEvent(s).type = "ADD" /\ AddEvent(s).sst = s /\ AddEvent(s) # Torn
    BY DEF AddEvent, Torn
  <2>5. Torn \notin Range(file')
    BY <2>1, <2>4
  <2>6. FileSsts' \subseteq act
    BY <2>1, <2>4 DEF FileSsts
  <2>7. ASSUME NEW s \in act PROVE s \in FileSsts'
    <3>1. AddEvent(s) \in {x \in Range(file') : x.type = "ADD"}
      BY <2>1, <2>4
    <3> QED
      BY <2>4, <3>1 DEF FileSsts
  <2> QED
    BY <2>3, <2>5, <2>6, <2>7 DEF NoneTorn
<1> QED
  BY <1>1, <1>2 DEF Rewrite

\* PartitionLevels drops the inputs and takes the outputs, if it has their level.
LEMMA LevelsAfter ==
  ASSUME CompactionInv, NEW out, Completes(out),
         levels' = AddAll(RemoveAll(levels, job.inputs), out)
  PROVE  /\ LevelsOK'
         /\ AllSsts' = (AllSsts \ job.inputs) \cup {o \in out : o.level \in Levels}
<1>1. levels \in [Levels -> SUBSET Sst]
  BY DEF CompactionInv, LevelsOK
<1>2. \A l \in Levels : levels[l] \subseteq AllSsts
  BY DEF AllSsts
<1>3. ASSUME NEW l \in Levels
      PROVE  levels'[l] = (levels[l] \ job.inputs) \cup {o \in out : o.level = l}
  <2>1. levels'[l] = {s \in levels[l] : \A t \in job.inputs : s.id # t.id}
                       \cup {o \in out : o.level = l}
    BY DEF AddAll, RemoveAll
  <2>2. levels[l] \in SUBSET Everywhere
    BY <1>2 DEF Everywhere
  <2>3. {s \in levels[l] : \A t \in job.inputs : s.id # t.id} = levels[l] \ job.inputs
    BY <2>2, RemovesInputs DEF CompactionInv, Completes
  <2> QED
    BY <2>1, <2>3
<1>4. out \subseteq Sst
  BY OutputRows
<1>5. IsFiniteSet(out)
  BY OutputFacts DEF CompactionInv, Completes
<1>6. DOMAIN levels' = Levels /\ levels' = [l \in Levels |-> levels'[l]]
  BY DEF AddAll
<1>7. \A l \in Levels : levels'[l] \in SUBSET Sst
  BY <1>1, <1>3, <1>4
<1>8. levels' \in [Levels -> SUBSET Sst]
  BY <1>6, <1>7
<1>9. ASSUME NEW l \in Levels
      PROVE  IsFiniteSet(levels'[l]) /\ \A s \in levels'[l] : s.level = l
  <2>1. IsFiniteSet(levels[l]) /\ \A s \in levels[l] : s.level = l
    BY DEF CompactionInv, LevelsOK
  <2>2. IsFiniteSet(levels[l] \ job.inputs)
    BY <2>1, FS_Subset
  <2>3. IsFiniteSet({o \in out : o.level = l})
    BY <1>5, FS_Subset
  <2>4. IsFiniteSet((levels[l] \ job.inputs) \cup {o \in out : o.level = l})
    BY <2>2, <2>3, FS_Union, Zenon
  <2> QED
    BY <1>3, <2>1, <2>4, Zenon
<1>10. AllSsts' = (AllSsts \ job.inputs) \cup {o \in out : o.level \in Levels}
  BY <1>3 DEF AllSsts
<1> QED
  BY <1>8, <1>9, <1>10 DEF LevelsOK

\* One output in the place of its inputs shares no row with the other SSTables.
LEMMA OutputApart ==
  ASSUME CompactionInv, NEW out, Completes(out), OutputCount <= 1,
         NEW S, job.inputs \subseteq S, Apart(S)
  PROVE  Apart((S \ job.inputs) \cup out)
<1>1. \A o, p \in out : o = p
  BY OutputFacts DEF CompactionInv, Completes
<1>2. ASSUME NEW o \in out, NEW u \in S \ job.inputs PROVE o.src \cap u.src = {}
  <2>1. \A f \in o.src : \E s \in job.inputs : f \in s.src
    BY OutputRows
  <2>2. \A s \in job.inputs : s.src \cap u.src = {}
    BY DEF Apart
  <2> QED
    BY <2>1, <2>2
<1> QED
  BY <1>1, <1>2 DEF Apart

\* A file that neither overlaps the chosen one nor the ones that were taken
\* along does not overlap their hull.
LEMMA HullDisjoint ==
  ASSUME NEW s \in Sst, NEW T \in SUBSET Sst, NEW u \in Sst, NEW o \in Sst,
         \A t \in T : overlaps_with(s, t) /\ ~overlaps_with(u, t),
         ~overlaps_with(u, s), s.min <= s.max, u.min <= u.max,
         \E a \in {s} \cup T : o.min = a.min,
         \E b \in {s} \cup T : o.max = b.max
  PROVE  ~overlaps_with(u, o) /\ ~overlaps_with(o, u)
<1>1. PICK a \in {s} \cup T : o.min = a.min
  OBVIOUS
<1>2. PICK b \in {s} \cup T : o.max = b.max
  OBVIOUS
<1>3. \A x \in {s, u, o, a, b} : x.min \in Nat /\ x.max \in Nat
  BY DEF Sst
<1>4. overlaps_with(s, a) /\ overlaps_with(s, b) /\ ~overlaps_with(u, a) /\ ~overlaps_with(u, b)
  BY <1>3 DEF overlaps_with
<1>5. CASE u.max < s.min
  <2>1. a.min > u.max
    BY <1>3, <1>4, <1>5 DEF overlaps_with
  <2> QED
    BY <1>1, <1>3, <2>1 DEF overlaps_with
<1>6. CASE s.max < u.min
  <2>1. b.max < u.min
    BY <1>3, <1>4, <1>6 DEF overlaps_with
  <2> QED
    BY <1>2, <1>3, <2>1 DEF overlaps_with
<1>7. u.max < s.min \/ s.max < u.min
  BY <1>3 DEF overlaps_with
<1> QED
  BY <1>5, <1>6, <1>7

\* One output in the place of its inputs overlaps no other file of its level.
LEMMA OutputDisjoint ==
  ASSUME CompactionInv, NEW out, Completes(out), OutputCount <= 1,
         job.output <= MaxLevels, Disjoint(AllSsts)
  PROVE  Disjoint((AllSsts \ job.inputs) \cup out)
<1>1. \A o, p \in out : o = p
  BY OutputFacts DEF CompactionInv, Completes
<1>2. ASSUME NEW o \in out, NEW u \in AllSsts \ job.inputs, u.level = o.level, o.level >= 2
      PROVE  ~overlaps_with(u, o) /\ ~overlaps_with(o, u)
  <2>1. OutputOK(o)
    BY OutputFacts DEF CompactionInv, Completes
  <2>2. o.level = job.output /\ o \in Sst
    BY <2>1 DEF OutputOK
  <2>3. PICK l \in Levels : job.output = l + 1 /\ Picked(l, job.inputs)
    BY DEF CompactionInv, Completes, JobOK
  <2>4. MaxLevels \in Nat /\ l \in Nat /\ l # 0 /\ l < MaxLevels /\ l + 1 \in Levels
    BY <1>2, <2>2, <2>3, ConfigAssumption DEF Levels
  <2>5. PICK s \in levels[l] : job.inputs = {s} \cup {t \in Below(l) : overlaps_with(s, t)}
    BY <2>3, <2>4 DEF Picked
  <2> DEFINE T == {t \in levels[l + 1] : overlaps_with(s, t)}
  <2>6. job.inputs = {s} \cup T
    BY <2>4, <2>5 DEF Below
  <2>7. \A m \in Levels : \A x \in levels[m] : x.level = m /\ x \in AllSsts
    BY DEF CompactionInv, LevelsOK, AllSsts
  <2>8. u \in levels[l + 1]
    <3>1. PICK m \in Levels : u \in levels[m]
      BY DEF AllSsts
    <3>2. m = l + 1
      BY <1>2, <2>2, <2>3, <2>7, <3>1
    <3> QED
      BY <3>1, <3>2
  <2>9. AllSsts \subseteq Sst /\ \A x \in AllSsts : x.min <= x.max
    BY EverywhereTyped DEF CompactionInv, Everywhere, SstsSound, Sound
  <2>10. s \in Sst /\ u \in Sst /\ T \subseteq Sst /\ s.min <= s.max /\ u.min <= u.max
    BY <2>4, <2>7, <2>9
  <2>11. u \notin T /\ u # s
    BY <2>6
  <2>12. ~overlaps_with(s, u)
    BY <2>8, <2>11
  <2>13. ~overlaps_with(u, s)
    BY <2>12 DEF overlaps_with
  <2>14. ASSUME NEW t \in T PROVE overlaps_with(s, t) /\ ~overlaps_with(u, t)
    <3>1. t \in AllSsts /\ t.level = l + 1 /\ u.level = l + 1 /\ t # u
      BY <2>4, <2>7, <2>8, <2>11
    <3>2. l + 1 >= 2
      BY <2>4
    <3> QED
      BY <3>1, <3>2 DEF Disjoint
  <2>15. Valid \subseteq {s} \cup T
    BY <2>6 DEF Valid
  <2>16. /\ \E a \in {s} \cup T : o.min = a.min
         /\ \E b \in {s} \cup T : o.max = b.max
    BY <2>1, <2>15, SMTT(30) DEF OutputOK
  <2> HIDE DEF T
  <2> QED
    BY <2>2, <2>10, <2>13, <2>14, <2>16, HullDisjoint, Zenon
<1> QED
  BY <1>1, <1>2 DEF Disjoint

\* The whole of run_compaction's second half, when nothing fails.
LEMMA CompleteSucceeds ==
  ASSUME CompactionInv, NEW out, Completes(out),
         file' = Rewrite(Append(file, EndEvent(job.id)), active'),
         levels' = AddAll(RemoveAll(levels, job.inputs), out),
         fault' = fault \cup (IF job.output > MaxLevels /\ OutputCount > 0 THEN {"panicked"} ELSE {})
                        \cup (IF OutputCount > 1 THEN {"split"} ELSE {})
  PROVE  CompactionInv'
<1>1. /\ FileOK /\ NoneTorn /\ job # NoJob /\ job.id \in Nat
      /\ job.inputs \subseteq AllSsts
  BY DEF CompactionInv, Completes, JobOK
<1>2. /\ LevelsOK'
      /\ AllSsts' = (AllSsts \ job.inputs) \cup {o \in out : o.level \in Levels}
  BY LevelsAfter
<1>3. PICK act : act = active'
  OBVIOUS
<1>4. act \subseteq Sst /\ IsFiniteSet(act)
  <2>1. out \subseteq Sst
    BY OutputRows
  <2>2. IsFiniteSet(out)
    BY OutputFacts DEF CompactionInv, Completes
  <2>3. active \subseteq Sst /\ IsFiniteSet(active)
    BY DEF CompactionInv, ActiveOK
  <2>4. IsFiniteSet({s \in active : \A t \in job.inputs : s.id # t.id})
    BY <2>3, FS_Subset
  <2>5. IsFiniteSet({s \in active : \A t \in job.inputs : s.id # t.id} \cup out)
    BY <2>2, <2>4, FS_Union, Zenon
  <2> QED
    BY <1>3, <2>1, <2>3, <2>5, SMTT(30) DEF Completes
<1>5. fault \subseteq fault'
  OBVIOUS
<1>6. FileOK' /\ NoneTorn' /\ (FileSsts' = FileSsts \/ FileSsts' = active')
  <2>1. PICK c \in Nat : c = job.id
    BY <1>1
  <2>2. file' = Rewrite(Append(file, EndEvent(c)), act)
    BY <1>3, <2>1
  <2>3. FileOK' /\ NoneTorn' /\ (FileSsts' = FileSsts \/ FileSsts' = act)
    BY <1>1, <1>4, <1>5, <2>2, RewriteFacts, SMTT(30)
  <2> QED
    BY <1>3, <2>3
<1>7. active' \subseteq active \cup out
  BY DEF Completes
<1>8. Everywhere' \subseteq Everywhere \cup out
  BY <1>2, <1>6, <1>7 DEF Everywhere
<1>9. /\ active' = (active \ job.inputs) \cup out
      /\ ActiveOK' /\ CountersOK' /\ JobOK' /\ SstsSound' /\ UniqueIds'
  BY <1>8, CompletesKeeps, SMTT(30)
<1>10. "panicked" \notin fault' => AllSsts' = (AllSsts \ job.inputs) \cup out
  <2> SUFFICES ASSUME "panicked" \notin fault', NEW o \in out PROVE o.level \in Levels
    BY <1>2, SMTT(30)
  <2>1. OutputOK(o) /\ merge_sort_inputs # {}
    BY OutputFacts DEF CompactionInv, Completes
  <2>2. OutputCount \in Nat /\ OutputCount # 0
    <3>1. OutputCount \in Nat /\ (Valid = {} <=> OutputCount = 0)
      BY CountFacts DEF CompactionInv, Completes
    <3>2. Valid # {}
      BY <2>1, OutputFacts DEF CompactionInv, Completes
    <3> QED
      BY <3>1, <3>2, SMTT(30)
  <2>3. ~ (job.output > MaxLevels)
    BY <2>2
  <2>4. job.output \in Nat /\ MaxLevels \in Nat
    BY InputFacts, ConfigAssumption DEF CompactionInv, Completes
  <2> QED
    BY <2>1, <2>3, <2>4 DEF OutputOK, Levels
<1>11. AllCovered'
  <2>1. flushed' \ expired' \subseteq flushed \ expired
    BY DEF Completes
  <2>2. ASSUME "torn" \notin fault' PROVE CoversAll(active)'
    <3>1. CoversAll(active)
      BY <2>2 DEF CompactionInv, AllCovered
    <3>2. \A f \in flushed' \ expired' : Covers((active \ job.inputs) \cup out, f)
      BY <3>1, CompletesCovers
    <3>3. \A f \in flushed' \ expired' : Covers(active', f)
      BY <1>9, <3>2
    <3> QED
      BY <3>3 DEF CoversAll, Covers
  <2>3. ASSUME "torn" \notin fault' PROVE CoversAll(FileSsts)'
    <3>1. CASE FileSsts' = FileSsts
      BY <2>1, <2>3, <3>1 DEF CompactionInv, AllCovered, CoversAll, Covers
    <3>2. CASE FileSsts' = active'
      BY <2>2, <2>3, <3>2 DEF CoversAll, Covers
    <3> QED
      BY <1>6, <3>1, <3>2, SMTT(30)
  <2>4. ASSUME fault' \cap {"torn", "panicked"} = {} PROVE CoversAll(AllSsts)'
    <3>1. CoversAll(AllSsts)
      BY <2>4 DEF CompactionInv, AllCovered
    <3>2. \A f \in flushed' \ expired' : Covers((AllSsts \ job.inputs) \cup out, f)
      BY <3>1, CompletesCovers
    <3>3. \A f \in flushed' \ expired' : Covers(AllSsts', f)
      BY <1>10, <2>4, <3>2
    <3> QED
      BY <3>3 DEF CoversAll, Covers
  <2> QED
    BY <2>2, <2>3, <2>4 DEF AllCovered
<1>12. Mirror'
  <2>1. "failed" \notin fault' => AllSsts' \subseteq active'
    BY <1>2, <1>5, <1>9 DEF CompactionInv, Mirror
  <2>2. fault' \cap {"failed", "panicked"} = {} => active' \subseteq AllSsts'
    BY <1>5, <1>9, <1>10 DEF CompactionInv, Mirror
  <2> QED
    BY <2>1, <2>2 DEF Mirror
<1>13. "split" \notin fault' => OutputCount <= 1
  <2>1. OutputCount \in Nat
    BY CountFacts DEF CompactionInv, Completes
  <2> QED
    BY <2>1
<1>14. RowsOnce'
  <2> SUFFICES ASSUME fault' \cap {"failed", "split"} = {}
               PROVE  Apart(AllSsts') /\ Apart(active') /\ Apart(FileSsts')
    BY DEF RowsOnce, Apart
  <2>1. Apart(AllSsts) /\ Apart(active) /\ Apart(FileSsts)
    BY <1>5 DEF CompactionInv, RowsOnce
  <2>2. AllSsts \subseteq active
    BY <1>5 DEF CompactionInv, Mirror
  <2>3. Apart((AllSsts \ job.inputs) \cup out)
    BY <1>1, <1>13, <2>1, OutputApart, SMTT(30)
  <2>4. Apart((active \ job.inputs) \cup out)
    BY <1>1, <1>13, <2>1, <2>2, OutputApart, SMTT(30)
  <2>5. AllSsts' \subseteq (AllSsts \ job.inputs) \cup out
    BY <1>2
  <2>6. Apart(AllSsts')
    BY <2>3, <2>5 DEF Apart
  <2>7. Apart(active')
    BY <1>9, <2>4
  <2> QED
    BY <1>6, <2>1, <2>6, <2>7
<1>15. LevelsDisjoint'
  <2> SUFFICES ASSUME fault' = {}
               PROVE  Disjoint(AllSsts') /\ Disjoint(active') /\ Disjoint(FileSsts')
    BY DEF LevelsDisjoint, Disjoint
  <2>1. fault = {} /\ Disjoint(AllSsts) /\ Disjoint(active) /\ Disjoint(FileSsts)
    BY <1>5 DEF CompactionInv, LevelsDisjoint
  <2>2. active = AllSsts
    BY <2>1, Zenon DEF CompactionInv, Mirror
  <2>3. Disjoint((AllSsts \ job.inputs) \cup out)
    <3>1. CASE job.output <= MaxLevels
      BY <1>13, <2>1, <3>1, OutputDisjoint, SMTT(30)
    <3>2. CASE ~ (job.output <= MaxLevels)
      <4>1. job.output \in Nat /\ MaxLevels \in Nat
        BY InputFacts, ConfigAssumption, SMTT(30) DEF CompactionInv, Completes
      <4>2. OutputCount \in Nat /\ (Valid = {} <=> OutputCount = 0)
        BY CountFacts DEF CompactionInv, Completes
      <4>3. job.output > MaxLevels
        BY <3>2, <4>1
      <4>4. ~ (OutputCount > 0)
        BY <4>3
      <4>5. Valid = {}
        BY <4>2, <4>4, SMTT(30)
      <4>6. out = {}
        BY <4>5, OutputFacts, SMTT(30) DEF CompactionInv, Completes
      <4> QED
        BY <2>1, <4>6 DEF Disjoint
    <3> QED
      BY <3>1, <3>2
  <2>4. AllSsts' = (AllSsts \ job.inputs) \cup out /\ active' = AllSsts'
    BY <1>9, <1>10, <2>2, SMTT(30)
  <2> QED
    BY <1>6, <2>1, <2>3, <2>4, Zenon
<1> QED
  BY <1>2, <1>6, <1>9, <1>11, <1>12, <1>14, <1>15, SMTT(30) DEF CompactionInv

\* All its outcomes.
LEMMA CompleteInv ==
  ASSUME CompactionInv, Complete
  PROVE  CompactionInv'
<1>1. PICK out : out = merge_sort_inputs
  OBVIOUS
<1>2. Completes(out)
  BY <1>1, SMTT(30) DEF Complete, Completes
<1>3. FileOK /\ NoneTorn /\ job # NoJob /\ job.id \in Nat
  BY DEF CompactionInv, Complete, JobOK
<1>4. CASE /\ file' = Rewrite(Append(file, EndEvent(job.id)), active')
           /\ levels' = AddAll(RemoveAll(levels, job.inputs), out)
           /\ fault' = fault
                \cup (IF job.output > MaxLevels /\ OutputCount > 0 THEN {"panicked"} ELSE {})
                \cup (IF OutputCount > 1 THEN {"split"} ELSE {})
  BY <1>2, <1>4, CompleteSucceeds
<1>5. CASE TornAppend({"failed"}) /\ levels' = levels
  <2> DEFINE failed == {"failed"}
  <2>1. failed \in SUBSET {"failed", "panicked"} /\ TornAppend(failed)
    BY <1>5
  <2> HIDE DEF failed
  <2>2. FileOK' /\ NoneTorn' /\ FileSsts' = FileSsts /\ fault \cup failed \subseteq fault'
    BY <1>3, <2>1, TornAppendFacts
  <2> QED
    BY <1>2, <1>5, <2>2, CompleteFails DEF failed
<1>6. CASE /\ file' = Append(file, EndEvent(job.id)) /\ fault' = fault \cup {"failed"}
           /\ levels' = levels
  <2>1. EndEvent(job.id) \in Event /\ EndEvent(job.id).type # "ADD" /\ EndEvent(job.id) # Torn
    BY <1>3 DEF EndEvent, Event, Torn
  <2>2. /\ FileOK' /\ FileSsts' = FileSsts
        /\ Torn \notin Range(file) => Torn \notin Range(file)'
    BY <1>3, <1>6, <2>1, AppendOther
  <2>3. NoneTorn'
    BY <1>3, <1>6, <2>2 DEF NoneTorn
  <2> QED
    BY <1>2, <1>6, <2>2, <2>3, CompleteFails
<1> QED
  BY <1>1, <1>4, <1>5, <1>6 DEF Complete
-----------------------------------------------------------------------------
(* The theorems. *)

\* The invariant holds in every reachable state.
THEOREM CompactionInvariant == Spec => []CompactionInv
<1>1. CompactionInv /\ [Next]_vars => CompactionInv'
  <2> SUFFICES ASSUME CompactionInv, [Next]_vars PROVE CompactionInv'
    OBVIOUS
  <2>1. ASSUME NEW range \in Ranges, RegisterFlush(range) PROVE CompactionInv'
    BY <2>1, FlushInv
  <2>2. CASE Begin
    BY <2>2, BeginInv
  <2>3. CASE Complete
    BY <2>3, CompleteInv
  <2>4. CASE Crash
    BY <2>4, CrashInv
  <2>5. CASE Tick \/ UNCHANGED vars
    BY <2>5, TickInv
  <2> QED
    BY <2>1, <2>2, <2>3, <2>4, <2>5 DEF Next
<1> QED
  BY <1>1, InitInv, PTL DEF Spec

\* The levels list every row that is left, and list it once.
THEOREM ExactTheorem == Spec => []DataExact
<1>1. CompactionInv => DataExact
  <2> SUFFICES ASSUME CompactionInv PROVE DataExact
    OBVIOUS
  <2>1. RecoveredActive \subseteq FileSsts
    BY RecoveredFacts DEF CompactionInv
  <2>2. MaxLevels \in Nat /\ next \in Nat
    BY ConfigAssumption DEF CompactionInv, CountersOK
  <2>3. AllSsts \subseteq Everywhere /\ active \subseteq Everywhere /\ Everywhere \subseteq Sst
    BY EverywhereTyped DEF CompactionInv, Everywhere
  <2>4. ASSUME NEW l \in Levels, NEW s \in levels[l]
        PROVE  s.level = l /\ s.min <= s.max /\ s.id < next /\ s.src \subseteq flushed
    <3>1. s \in Everywhere
      BY <2>3 DEF AllSsts
    <3> QED
      BY <3>1 DEF CompactionInv, LevelsOK, SstsSound, Sound
  <2>5. ASSUME NEW s \in active PROVE s.level \in 0 .. MaxLevels + 1
    <3>1. s.level \in Nat /\ s.level <= MaxLevels + 1
      BY <2>3 DEF CompactionInv, SstsSound, Sound, Sst
    <3> QED
      BY <2>2, <3>1
  <2>6. job = NoJob \/ (job.inputs \subseteq AllSsts /\ job.inputs # {} /\ job.id \in pending)
    BY DEF CompactionInv, JobOK
  <2>7. flushed \subseteq 0 .. next - 1
    <3>1. \A f \in flushed : f \in Nat /\ f < next
      BY DEF CompactionInv, CountersOK
    <3> QED
      BY <2>2, <3>1
  <2>8. TypeOK
    BY <2>4, <2>5, <2>6, <2>7 DEF TypeOK
  <2>9. DataKept
    BY DEF CompactionInv, AllCovered, CoversAll, DataKept
  <2>10. NoRowTwice
    BY <2>1 DEF CompactionInv, RowsOnce, Apart, NoRowTwice
  <2> QED
    BY <2>8, <2>9, <2>10 DEF DataExact
<1> QED
  BY <1>1, CompactionInvariant, PTL

\* A restart at any moment brings every row that is left back.
THEOREM RecoveryTheorem == Spec => []RecoveryKeepsData
<1>1. CompactionInv => RecoveryKeepsData
  <2> SUFFICES ASSUME CompactionInv, "torn" \notin fault
               PROVE  \A f \in flushed \ expired : Covers(RecoveredActive, f)
    BY DEF RecoveryKeepsData
  <2>1. RecoveredActive = FileSsts
    BY RecoveredFacts DEF CompactionInv, NoneTorn
  <2> QED
    BY <2>1 DEF CompactionInv, AllCovered, CoversAll
<1> QED
  BY <1>1, CompactionInvariant, PTL

\* Below L1 no two files of a level overlap.
THEOREM DisjointTheorem == Spec => []DeepLevelsDisjoint
<1>1. CompactionInv => DeepLevelsDisjoint
  <2> SUFFICES ASSUME CompactionInv, fault = {}, NEW l \in 2 .. MaxLevels,
                      NEW s \in levels[l], NEW t \in levels[l], s # t
               PROVE  ~overlaps_with(s, t)
    BY DEF DeepLevelsDisjoint
  <2>1. l \in Levels /\ l >= 2
    BY ConfigAssumption DEF Levels
  <2>2. s \in AllSsts /\ t \in AllSsts /\ s.level = l /\ t.level = l
    BY <2>1 DEF CompactionInv, LevelsOK, AllSsts
  <2> QED
    BY <2>1, <2>2 DEF CompactionInv, LevelsDisjoint, Disjoint
<1> QED
  BY <1>1, CompactionInvariant, PTL
==============================================================================
