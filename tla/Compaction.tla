------------------------------ MODULE Compaction -----------------------------
(***************************************************************************)
(* One partition's leveled compaction on a storage node: PartitionLevels   *)
(* (storage-node/src/lsm/levels.rs), the MANIFEST (lsm/manifest.rs) and    *)
(* PartitionCompactor with its background worker (lsm/compaction.rs).      *)
(*                                                                         *)
(* Compaction works on metadata: an SSTable is its SstRef.  Sort keys are  *)
(* numbers, read as timestamps by the TTL filter.  `src` is history: the   *)
(* flushes whose rows the SSTable stands for.  row_count, paths and the    *)
(* lineage (compacted_from, generation) have no effect and are left out.   *)
(* The compactor's mutex covers a whole compaction, so only a crash comes  *)
(* between its steps.                                                      *)
(***************************************************************************)
EXTENDS Integers, Sequences, FiniteSetsExt

CONSTANTS
  Keys,        \* the sort keys of rows
  Trigger,     \* l0_file_compaction_trigger
  L1Max,       \* l1_max_bytes, in units of a flushed SSTable
  Multiplier,  \* level_size_multiplier
  MaxLevels,   \* max_levels
  FileSize,    \* target_file_size_bytes
  Ttl,         \* ttl_seconds
  RewriteAt,   \* MANIFEST length that makes complete_compaction rewrite it
  NoJob,       \* no compaction under way
  MaxFlushes, MaxNow, MaxFaults  \* bounds; crashes and I/O errors are faults

ASSUME ConfigAssumption ==
  /\ Keys \subseteq Nat
  /\ {Trigger, L1Max, Multiplier, MaxLevels, FileSize} \subseteq Nat \ {0}
  /\ {Ttl, RewriteAt, MaxFlushes, MaxNow, MaxFaults} \subseteq Nat

VARIABLES
  levels,      \* PartitionLevels.levels
  active,      \* Manifest.active
  pending,     \* Manifest.pending_compactions
  file,        \* the lines of the MANIFEST file
  job,         \* the compaction under way
  now,         \* the clock
  next,        \* identities given out so far
  faults,      \* crashes and I/O errors so far
  \* History, for the properties only:
  flushed,     \* flushes that register_flush has accepted
  expired,     \* flushes dropped by the TTL filter
  fault        \* which of "torn", "failed", "panicked", "split" have happened

vars == <<levels, active, pending, file, job, now, next, faults, flushed, expired, fault>>
history == <<flushed, expired, fault>>

Levels == 0 .. MaxLevels
Empty == [l \in Levels |-> {}]
\* A MANIFEST line that does not parse, as left by an append that did not
\* complete.
Torn == [type |-> "TORN"]
TornAppend(f) ==
  \/ file' = file /\ fault' = fault \cup f
  \/ file' = Append(file, Torn) /\ fault' = fault \cup f \cup {"torn"}
CountFault == faults < MaxFaults /\ faults' = faults + 1

Init ==
  /\ levels = Empty
  /\ active = {} /\ pending = {} /\ file = <<>>
  /\ job = NoJob
  /\ now = 0 /\ next = 0
  /\ faults = 0
  /\ flushed = {} /\ expired = {} /\ fault = {}

-------------------------------------------------------------------------------
(* levels.rs *)

\* The sum of the sizes, counted in units.
TotalSize(ssts) == Cardinality(UNION {{s} \X (1 .. s.size) : s \in ssts})
overlaps_with(s, t) == s.min <= t.max /\ t.min <= s.max

\* compaction_score, as a fraction.
Score(l) == IF l = 0 THEN <<Cardinality(levels[0]), Trigger>>
                     ELSE <<TotalSize(levels[l]), L1Max * Multiplier ^ (l - 1)>>

Mut_highest_priority_level ==
  LET urgent == {l \in Levels : Score(l)[1] > Score(l)[2]}
  IN  {l \in urgent : \A m \in urgent : Score(m)[1] * Score(l)[2] <= Score(l)[1] * Score(m)[2]}

\* highest_priority_level, as a set of at most one level: the last of those
\* with the highest score, if that is at least 1.
highest_priority_level ==
  LET urgent == {l \in Levels : Score(l)[1] >= Score(l)[2]}
      Below(m, l) == \/ Score(m)[1] * Score(l)[2] < Score(l)[1] * Score(m)[2]
                     \/ /\ Score(m)[1] * Score(l)[2] = Score(l)[1] * Score(m)[2]
                        /\ m <= l
  IN  {l \in urgent : \A m \in urgent : Below(m, l)}

MutRemoveLevel(lv, ssts) == [l \in Levels |-> IF \E t \in ssts : t.level = l THEN {} ELSE lv[l]]

AddAll(lv, ssts) == [l \in Levels |-> lv[l] \cup {s \in ssts : s.level = l}]
RemoveAll(lv, ssts) == [l \in Levels |-> {s \in lv[l] : \A t \in ssts : s.id # t.id}]

-------------------------------------------------------------------------------
(* manifest.rs *)

AddEvent(s) == [type |-> "ADD", sst |-> s]
BeginEvent(c) == [type |-> "BEGIN", id |-> c]
EndEvent(c) == [type |-> "END", id |-> c]

\* recover: the lines up to the first one that does not parse.  An END event
\* only closes its compaction.
Readable == {file[i] : i \in {k \in DOMAIN file : \A j \in 1 .. k : file[j] # Torn}}
OfType(type) == {e \in Readable : e.type = type}
RecoveredActive == {e.sst : e \in OfType("ADD")}
RecoveredPending == {e.id : e \in OfType("BEGIN")} \ {e.id : e \in OfType("END")}

\* The lines of a new MANIFEST, one for each SSTable.
AddLines(ssts) ==
  LET lines == {AddEvent(s) : s \in ssts}
  IN  CHOOSE f \in [1 .. Cardinality(lines) -> lines] : Range(f) = lines

MutRewrite(f, act) ==
  IF Len(f) > RewriteAt THEN AddLines({s \in act : s.level > 0}) ELSE f

\* atomic_rewrite writes the active SSTables to MANIFEST.tmp and renames it.
Rewrite(f, act) == IF Len(f) > RewriteAt THEN AddLines(act) ELSE f

-------------------------------------------------------------------------------
(* compaction.rs *)

\* The smallest and the largest key of a flushed SSTable.
Ranges == {r \in Keys \X Keys : r[1] <= r[2]}

\* register_flush.  A failing append_event leaves at most part of a line.
RegisterFlush(range) ==
  LET s == [id |-> next, seq |-> next, level |-> 0, size |-> 1, min |-> range[1], max |-> range[2], src |-> {next}] IN
  /\ job = NoJob
  /\ Cardinality(flushed) < MaxFlushes
  /\ \/ /\ file' = Append(file, AddEvent(s))
        /\ next' = next + 1
        /\ active' = active \cup {s}
        /\ levels' = AddAll(levels, {s})
        /\ flushed' = flushed \cup {next}
        /\ UNCHANGED <<faults, fault>>
     \/ /\ CountFault
        /\ TornAppend({})
        /\ UNCHANGED <<active, levels, next, flushed>>
  /\ UNCHANGED <<pending, job, now, expired>>

MutInputs(l) ==
  IF l = 0 THEN {levels[0]}
  ELSE {{s} : s \in {u \in levels[l] : \A v \in levels[l] : u.seq <= v.seq}}

\* pick_l0_compaction takes all of L0; pick_ln_compaction takes the file of
\* the level with the lowest sequence number and what it overlaps one below.
Inputs(l) ==
  IF l = 0 THEN {levels[0]}
  ELSE {{s} \cup {t \in (IF l < MaxLevels THEN levels[l + 1] ELSE {}) : overlaps_with(s, t)} :
        s \in {u \in levels[l] : \A v \in levels[l] : u.seq <= v.seq}}

\* pick_compaction and the first half of run_compaction, which ends there if
\* the event cannot be written.
Begin ==
  /\ job = NoJob
  /\ \E l \in highest_priority_level : \E inputs \in Inputs(l) :
       \/ /\ job' = [id |-> next, inputs |-> inputs, output |-> l + 1]
          /\ next' = next + 1
          /\ file' = Append(file, BeginEvent(next))
          /\ pending' = pending \cup {next}
          /\ UNCHANGED <<faults, fault>>
       \/ /\ CountFault
          /\ TornAppend({})
          /\ UNCHANGED <<job, next, pending>>
  /\ UNCHANGED <<levels, active, now, flushed, expired>>

\* merge_sort_inputs: inputs whose smallest key has outlived the TTL are
\* dropped; the rest become files of about the target size, all with the
\* whole key range.
Valid == {s \in job.inputs : s.min + Ttl > now}
OutputCount ==
  IF Valid = {} THEN 0 ELSE Max({(TotalSize(Valid) + FileSize - 1) \div FileSize, 1})
merge_sort_inputs ==
  {[id |-> next + i, level |-> job.output,
    seq |-> Max({s.seq : s \in Valid}),
    size |-> TotalSize(Valid) \div OutputCount,
    min |-> Min({s.min : s \in Valid}), max |-> Max({s.max : s \in Valid}),
    src |-> UNION {s.src : s \in Valid}] : i \in 0 .. OutputCount - 1}

\* The second half of run_compaction.  complete_compaction changes `active`
\* first; if it then cannot write its event, or rewrite the file, the levels
\* keep the inputs.  An
\* output level beyond the last makes PartitionLevels::add panic after the
\* inputs have been removed.
Complete ==
  LET outputs == merge_sort_inputs
      act == {s \in active : \A t \in job.inputs : s.id # t.id} \cup outputs
      panics == job.output > MaxLevels /\ OutputCount > 0
  IN
  /\ job # NoJob
  /\ active' = act
  /\ pending' = pending \ {job.id}
  /\ next' = next + OutputCount
  /\ \/ /\ file' = Rewrite(Append(file, EndEvent(job.id)), act)
        /\ levels' = AddAll(RemoveAll(levels, job.inputs), outputs)
        /\ fault' = fault \cup (IF panics THEN {"panicked"} ELSE {})
                          \cup (IF OutputCount > 1 THEN {"split"} ELSE {})
        /\ UNCHANGED faults
     \/ /\ CountFault
        /\ \/ TornAppend({"failed"})
           \/ /\ Len(file) + 1 > RewriteAt
              /\ file' = Append(file, EndEvent(job.id)) /\ fault' = fault \cup {"failed"}
        /\ UNCHANGED levels
  /\ expired' = expired \cup (UNION {s.src : s \in job.inputs \ Valid})
  /\ job' = NoJob
  /\ UNCHANGED <<now, flushed>>

\* The process dies, perhaps while appending a line, and
\* PartitionCompactor::new rebuilds its state from the MANIFEST.
Crash ==
  /\ CountFault
  /\ TornAppend(IF \E s \in RecoveredActive : s.level > MaxLevels THEN {"panicked"} ELSE {})
  /\ active' = RecoveredActive
  /\ pending' = RecoveredPending
  /\ levels' = AddAll(Empty, RecoveredActive)
  /\ job' = NoJob
  /\ UNCHANGED <<now, next, flushed, expired>>

\* Begin does not read the clock, so ticks during a compaction add nothing.
Tick == job = NoJob /\ now < MaxNow /\ now' = now + 1
        /\ UNCHANGED <<levels, active, pending, file, job, next, faults, history>>

Next ==
  \/ \E range \in Ranges : RegisterFlush(range)
  \/ Begin \/ Complete \/ Crash \/ Tick

\* CompactionWorker::run checks every partition at each interval.
Spec == Init /\ [][Next]_vars /\ WF_vars(Begin \/ Complete)

-------------------------------------------------------------------------------
AllSsts == UNION {levels[l] : l \in Levels}
Covers(ssts, f) == \E s \in ssts : f \in s.src

TypeOK ==
  /\ \A l \in Levels : \A s \in levels[l] :
       s.level = l /\ s.min <= s.max /\ s.id < next /\ s.src \subseteq flushed
  /\ \A s \in active : s.level \in 0 .. MaxLevels + 1
  /\ job = NoJob \/ (job.inputs \subseteq AllSsts /\ job.inputs # {} /\ job.id \in pending)
  /\ flushed \subseteq 0 .. next - 1

\* The rows of every accepted flush that the TTL filter has not dropped are
\* readable: an SSTable of the levels stands for them, through compactions,
\* failed MANIFEST writes and restarts (short of an unparsable line, which
\* hides the lines after it, and of the panic below the last level).
DataKept ==
  fault \cap {"torn", "panicked"} = {} =>
    \A f \in flushed \ expired : Covers(AllSsts, f)

\* So are they after a restart at any moment, a compaction under way or an
\* unwritten CompactionEnd included.
RecoveryKeepsData ==
  "torn" \notin fault =>
    \A f \in flushed \ expired : Covers(RecoveredActive, f)

\* No row is readable twice: two SSTables of the levels, or two that a
\* restart would bring back, never stand for the same flush (until an output
\* is split into parts, or a CompactionEnd cannot be written and `active`
\* and the levels part ways).
NoRowTwice ==
  fault \cap {"failed", "split"} = {} =>
    \A ssts \in {AllSsts, RecoveredActive} : \A s, t \in ssts :
      s # t => s.src \cap t.src = {}

\* Reading the levels gives every row that is left, and gives it once.
DataExact == TypeOK /\ DataKept /\ NoRowTwice

\* Below L1 the key ranges of a level are disjoint (FR-028), as long as no
\* output had to be split: the file chosen from level l takes along all that
\* it overlaps in level l + 1.
DeepLevelsDisjoint ==
  fault = {} => \A l \in 2 .. MaxLevels : \A s, t \in levels[l] : s # t => ~overlaps_with(s, t)

\* When flushes stop the worker catches up: from some point on no level's
\* score asks for compaction, unless the last level overflowed.
CompactionSettles == <>("panicked" \in fault) \/ <>[](\A l \in Levels : Score(l)[1] < Score(l)[2])

\* manifest.rs:157: recover() "replays the MANIFEST from the start to restore
\* the active state": what a restart would bring back is what is active now.
RecoveryRestoresActive == job = NoJob => RecoveredActive = active
==============================================================================
