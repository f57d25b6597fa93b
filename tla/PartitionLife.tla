---------------------------- MODULE PartitionLife ----------------------------
(***************************************************************************)
(* The life of a cube's time partitions on a storage node: created on the  *)
(* first row of their period (partition.rs), rows removed when they expire *)
(* (ttl.rs), moved from hot to cold to archive storage (tiering.rs).  A    *)
(* behaviour is about the partition map or about the tiers, `life'.  Time  *)
(* is counted in days; MonthDays[m] is the length of the m-th month of a   *)
(* year and stands for the calendar.                                       *)
(***************************************************************************)
EXTENDS Integers, Sequences, FiniteSets, FiniteSetsExt, SequencesExt

CONSTANTS
  MonthDays, MaxDays,         \* the calendar; bound on the clock and the rows' days
  LoadThreads,
  ColdAge, ArchiveAge,        \* hot_to_cold_age; <<>> or <<cold_to_archive_age>>
  PartNames, CreatedOn, Bytes, MinBytes, \* the registered partitions
  RetainDays, TsUnit, RowTimes           \* TtlPolicy::Row and the rows it filters

VARIABLES
  life, granularity, today,
  partitions, \* the cube's list, as PartitionKeys
  creating,   \* thread -> <<>>, or what get_or_create is about to add: [ts, key]
  routed,     \* thread -> <<>>, or [ts, key]: what get_or_create returned
  tiers,      \* partition -> [tier, moving]
  movers,     \* thread -> the candidates still to move: sequence of [name, tier]
  moving,     \* thread -> <<>> or the move in progress
  archived    \* partition -> times its move to the archive was carried out

partVars == <<partitions, creating, routed>>
tierVars == <<tiers, movers, moving, archived>>
lifeVars == <<life, granularity, today, partVars, tierVars>>

-------------------------------------------------------------------------------
\* create_partition: the day, month or year the timestamp lies in.
YearDays == FoldSeq(LAMBDA d, sum : d + sum, 0, MonthDays)
DaysBefore(m) == FoldSeq(LAMBDA d, sum : d + sum, 0, SubSeq(MonthDays, 1, m - 1))
MonthOf(ts) == Max({m \in DOMAIN MonthDays : DaysBefore(m) <= ts % YearDays})
YearStart(ts) == ts - (ts % YearDays)
CreatePartition(ts) ==
  LET day == [lo |-> ts, hi |-> ts + 1]
      month == [lo |-> YearStart(ts) + DaysBefore(MonthOf(ts)),
                hi |-> YearStart(ts) + DaysBefore(MonthOf(ts)) + MonthDays[MonthOf(ts)]]
      year == [lo |-> YearStart(ts), hi |-> YearStart(ts) + YearDays] IN
  CASE granularity = "Day" -> day [] granularity = "Month" -> month [] granularity = "Year" -> year

Covers(key, ts) == ts >= key.lo /\ ts < key.hi

\* get_or_create: search under the read lock; when there is none, compute the
\* partition and add it under the write lock if no other thread has.  Keys of
\* one granularity have the same name exactly when they are equal.
Search(t, ts) ==
  LET found == SelectSeq(partitions, LAMBDA key : Covers(key, ts)) IN
  /\ creating[t] = <<>>
  /\ IF found # <<>>
     THEN /\ routed' = [routed EXCEPT ![t] = <<[ts |-> ts, key |-> found[1]]>>]
          /\ UNCHANGED creating
     ELSE /\ creating' = [creating EXCEPT ![t] = <<[ts |-> ts, key |-> CreatePartition(ts)]>>]
          /\ UNCHANGED routed
  /\ UNCHANGED partitions
MutAddPartition(t) ==
  /\ creating[t] # <<>>
  /\ LET key == creating[t][1].key IN
     partitions' = SortSeq(Append(partitions, key), LAMBDA a, b : a.lo < b.lo)
  /\ routed' = [routed EXCEPT ![t] = creating[t]]
  /\ creating' = [creating EXCEPT ![t] = <<>>]
AddPartition(t) ==
  /\ creating[t] # <<>>
  /\ LET key == creating[t][1].key IN
     partitions' = IF key \in ToSet(partitions) THEN partitions
                   ELSE SortSeq(Append(partitions, key), LAMBDA a, b : a.lo < b.lo)
  /\ routed' = [routed EXCEPT ![t] = creating[t]]
  /\ creating' = [creating EXCEPT ![t] = <<>>]
DropPartition(key) ==
  /\ key \in ToSet(partitions)
  /\ partitions' = SelectSeq(partitions, LAMBDA k : k # key)
  /\ UNCHANGED <<creating, routed>>
PartitionsInRange(lo, hi) ==
  SelectSeq(partitions, LAMBDA key : (lo = <<>> \/ key.hi > lo[1]) /\ (hi = <<>> \/ key.lo < hi[1]))

PartNext ==
  \/ \E t \in LoadThreads : AddPartition(t) \/ \E ts \in 0 .. MaxDays : Search(t, ts)
  \/ \E key \in ToSet(partitions) : DropPartition(key)

-------------------------------------------------------------------------------
\* TtlFilter for rows: a negative timestamp becomes a huge u64 and never expires.
Boundary == Max({0, today - RetainDays})
IsRowExpired(raw) == raw >= 0 /\ (IF TsUnit > 1 THEN raw \div TsUnit ELSE raw) < Boundary
FilterRows(times) == SelectSeq([i \in DOMAIN times |-> i], LAMBDA i : ~IsRowExpired(times[i]))

-------------------------------------------------------------------------------
\* TieringManager.  candidates is a snapshot; run_once then moves them one by
\* one, and each move is two locked steps.
Age(p) == Max({0, today - CreatedOn[p]})
ShouldMove(p) ==
  \/ tiers[p].tier = "Hot" /\ Age(p) >= ColdAge
  \/ tiers[p].tier = "Cold" /\ ArchiveAge # <<>> /\ Age(p) >= ArchiveAge[1]
Candidates == {p \in DOMAIN tiers : ~tiers[p].moving /\ Bytes[p] >= MinBytes /\ ShouldMove(p)}

RegisterPartition(p) ==
  /\ p \notin DOMAIN tiers
  /\ tiers' = [x \in DOMAIN tiers \union {p} |-> IF x = p THEN [tier |-> "Hot", moving |-> FALSE] ELSE tiers[x]]
  /\ UNCHANGED <<movers, moving, archived>>
RunOnce(t) ==
  /\ movers[t] = <<>> /\ moving[t] = <<>> /\ Candidates # {}
  /\ \E order \in SetToSeqs(Candidates) :
       movers' = [movers EXCEPT ![t] = [i \in DOMAIN order |-> [name |-> order[i], tier |-> tiers[order[i]].tier]]]
  /\ UNCHANGED <<tiers, moving, archived>>
\* move_to_cold refuses a partition that is not hot or is being moved;
\* move_to_archive only one that is not cold.
MayStart(m) == tiers[m.name].tier = m.tier /\ (m.tier = "Hot" => ~tiers[m.name].moving)
StartMove(t) ==
  /\ moving[t] = <<>> /\ movers[t] # <<>> /\ MayStart(Head(movers[t]))
  /\ tiers' = [tiers EXCEPT ![Head(movers[t]).name].moving = TRUE]
  /\ moving' = [moving EXCEPT ![t] = <<Head(movers[t])>>]
  /\ movers' = [movers EXCEPT ![t] = Tail(@)]
  /\ UNCHANGED archived
MoveFails(t) ==
  /\ moving[t] = <<>> /\ movers[t] # <<>> /\ ~MayStart(Head(movers[t]))
  /\ movers' = [movers EXCEPT ![t] = Tail(@)]
  /\ UNCHANGED <<tiers, moving, archived>>
FinishMove(t) ==
  /\ moving[t] # <<>>
  /\ LET m == moving[t][1]
         to == IF m.tier = "Hot" THEN "Cold" ELSE "Archive" IN
     /\ tiers' = [tiers EXCEPT ![m.name] = [tier |-> to, moving |-> FALSE]]
     /\ archived' = IF to = "Archive" THEN [archived EXCEPT ![m.name] = @ + 1] ELSE archived
  /\ moving' = [moving EXCEPT ![t] = <<>>]
  /\ UNCHANGED movers
TierNext ==
  \/ \E p \in PartNames : RegisterPartition(p)
  \/ \E t \in LoadThreads : RunOnce(t) \/ StartMove(t) \/ MoveFails(t) \/ FinishMove(t)

NextDay == today < MaxDays /\ today' = today + 1 /\ UNCHANGED <<life, granularity, partVars, tierVars>>
LifeInit ==
  /\ life \in {"partitions", "tiers"}
  /\ granularity \in IF life = "tiers" THEN {"Day"} ELSE {"Day", "Month", "Year"}
  /\ today = 0 /\ partitions = <<>>
  /\ creating = [t \in LoadThreads |-> <<>>] /\ routed = [t \in LoadThreads |-> <<>>]
  /\ tiers = << >> /\ movers = [t \in LoadThreads |-> <<>>] /\ moving = [t \in LoadThreads |-> <<>>]
  /\ archived = [p \in PartNames |-> 0]
LifeNext ==
  \/ life = "tiers" /\ NextDay
  \/ life = "partitions" /\ PartNext /\ UNCHANGED <<life, granularity, today, tierVars>>
  \/ life = "tiers" /\ TierNext /\ UNCHANGED <<life, granularity, today, partVars>>

-------------------------------------------------------------------------------
Overlap(a, b) == a.lo < b.hi /\ b.lo < a.hi

\* Whatever two loading threads and a drop do, the partitions of a cube stay
\* sorted and disjoint, a row is routed to a partition of its own time, and
\* range pruning misses no partition that holds a time of the range [lo, hi).
\* Whatever two tiering passes do, no two of them move one hot partition at a
\* time, a partition marked as moving has its mover, it leaves a tier only when
\* old enough, and no more passes archive it than read it as cold.  A row
\* outlives the filter exactly until its own time plus the retention.
PartitionsSound ==
  /\ \A i, j \in DOMAIN partitions : i < j => partitions[i].lo < partitions[j].lo /\ ~Overlap(partitions[i], partitions[j])
  /\ \A t \in LoadThreads : routed[t] # <<>> => Covers(routed[t][1].key, routed[t][1].ts)
  /\ \A lo, hi \in 0 .. MaxDays + 1 : \A key \in ToSet(partitions) :
       (\E ts \in lo .. hi - 1 : Covers(key, ts)) => key \in ToSet(PartitionsInRange(<<lo>>, <<hi>>))
  /\ \A t, u \in LoadThreads : t # u /\ moving[t] # <<>> /\ moving[t] = moving[u] => moving[t][1].tier = "Cold"
  /\ \A p \in DOMAIN tiers :
       /\ tiers[p].moving => \E t \in LoadThreads : moving[t] # <<>> /\ moving[t][1].name = p
       /\ tiers[p].tier # "Hot" => Age(p) >= ColdAge
       /\ tiers[p].tier = "Archive" => ArchiveAge # <<>> /\ Age(p) >= ArchiveAge[1]
       /\ archived[p] <= Cardinality(LoadThreads)
  /\ ToSet(FilterRows(RowTimes)) =
       {i \in DOMAIN RowTimes : RowTimes[i] < 0 \/ RowTimes[i] >= (today - RetainDays) * TsUnit}
==============================================================================
