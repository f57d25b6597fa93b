------------------------------ MODULE SnReports ------------------------------
(***************************************************************************)
(* What a storage node reports to the query node: full and recovered disks *)
(* (storage-node/src/disk_monitor.rs) and shard statistics after a flush   *)
(* or a compaction (storage-node/src/stats_reporter.rs), which the query   *)
(* node keeps (query-node/src/meta/stats.rs) for its optimizer.  The gRPC  *)
(* reporters of the code are stubs; the reports here arrive as the traits  *)
(* promise, or fail.  A behaviour is about one of the two, `reporting'.    *)
(***************************************************************************)
EXTENDS Integers, Sequences, FiniteSets, FiniteSetsExt, SequencesExt

CONSTANTS
  WatchPaths, MaxUsage, FullThreshold, RecoveryThreshold, \* a sequence of paths; usage in steps
  MaxPolls, MaxReportFaults,                              \* bounds on the cycles and the faults
  StatValues, MaxFlushes                                  \* values of the column; bound on the flushes

VARIABLES
  reporting,
  \* DiskMonitor and the query node's view of the paths
  usage, probed, pathState, qnPath, pollAt, telling, polls, reportFaults,
  \* the shard's files, the events, the handlers and StatsStore
  files, events, handlers, shardStats, flushes, applied, newestAt, muddled

diskVars == <<usage, probed, pathState, qnPath, pollAt, telling, polls, reportFaults>>
statVars == <<files, events, handlers, shardStats, flushes, applied, newestAt, muddled>>
reportVars == <<reporting, diskVars, statVars>>

Paths == ToSet(WatchPaths)

-------------------------------------------------------------------------------
UsageChanges(p) ==
  /\ \E u \in 0 .. MaxUsage : u # usage[p] /\ usage' = [usage EXCEPT ![p] = u]
  /\ UNCHANGED <<probed, pathState, qnPath, pollAt, telling, polls, reportFaults>>
\* poll_once visits the paths in order.  A path whose probe fails is skipped;
\* a state change is recorded before it is reported.
StartPoll ==
  /\ pollAt = 0 /\ polls < MaxPolls /\ pollAt' = 1 /\ polls' = polls + 1
  /\ UNCHANGED <<usage, probed, pathState, qnPath, telling, reportFaults>>
MutNextState(state, u) ==
  CASE state = "Normal" /\ u > FullThreshold -> "ReadOnly"
    [] state = "ReadOnly" /\ u < RecoveryThreshold -> "Normal"
    [] OTHER -> state
NextState(state, u) ==
  CASE state = "Normal" /\ u > FullThreshold -> "ReadOnly"
    [] state = "ReadOnly" /\ u <= RecoveryThreshold -> "Normal"
    [] OTHER -> state
ProbePath ==
  LET p == WatchPaths[pollAt]
      next == NextState(pathState[p], usage[p]) IN
  /\ pollAt \in DOMAIN WatchPaths /\ telling = <<>>
  /\ probed' = [probed EXCEPT ![p] = usage[p]]
  /\ pathState' = [pathState EXCEPT ![p] = next]
  /\ telling' = IF next = pathState[p] THEN <<>> ELSE <<next>>
  /\ pollAt' = IF next = pathState[p] THEN pollAt + 1 ELSE pollAt
  /\ UNCHANGED <<usage, qnPath, polls, reportFaults>>
ProbeFails ==
  /\ pollAt \in DOMAIN WatchPaths /\ telling = <<>> /\ reportFaults < MaxReportFaults
  /\ pollAt' = pollAt + 1 /\ reportFaults' = reportFaults + 1
  /\ UNCHANGED <<usage, probed, pathState, qnPath, telling, polls>>
Report ==
  /\ telling # <<>>
  /\ qnPath' = [qnPath EXCEPT ![WatchPaths[pollAt]] = telling[1]]
  /\ telling' = <<>> /\ pollAt' = pollAt + 1
  /\ UNCHANGED <<usage, probed, pathState, polls, reportFaults>>
\* A failed report ends the whole cycle; the state stays changed, so it is not
\* repeated.
ReportFails ==
  /\ telling # <<>> /\ reportFaults < MaxReportFaults /\ reportFaults' = reportFaults + 1
  /\ telling' = <<>> /\ pollAt' = 0
  /\ UNCHANGED <<usage, probed, pathState, qnPath, polls>>
EndPoll ==
  /\ pollAt > Len(WatchPaths) /\ pollAt' = 0
  /\ UNCHANGED <<usage, probed, pathState, qnPath, telling, polls, reportFaults>>
DiskNext ==
  \/ \E p \in Paths : UsageChanges(p)
  \/ StartPoll \/ ProbePath \/ ProbeFails \/ Report \/ ReportFails \/ EndPoll

-------------------------------------------------------------------------------
\* compute_shard_stats: the rows of the .col files and the range of the
\* .min_max files, as they are when it reads them.
ComputeShardStats ==
  [rows |-> MapThenSumSet(LAMBDA f : Cardinality(f.values), files),
   range |-> LET vs == UNION {f.values : f \in files} IN IF vs = {} THEN <<>> ELSE <<Min(vs), Max(vs)>>,
   at |-> flushes]

\* A flush adds a file, a compaction merges all of them; each sends its event.
FlushFile(vs) ==
  /\ flushes < MaxFlushes /\ flushes' = flushes + 1
  /\ files' = files \union {[id |-> flushes + 1, values |-> vs]}
  /\ events' = Append(events, [incremental |-> FALSE])
  /\ UNCHANGED <<handlers, shardStats, applied, newestAt, muddled>>
CompactFiles(incremental) ==
  /\ Cardinality(files) > 1
  /\ flushes < MaxFlushes /\ flushes' = flushes + 1
  /\ files' = {[id |-> flushes + 1, values |-> UNION {f.values : f \in files}]}
  /\ events' = Append(events, [incremental |-> incremental])
  /\ UNCHANGED <<handlers, shardStats, applied, newestAt, muddled>>
\* run spawns a task for every event, so two of them may finish in any order.
SpawnHandler ==
  /\ events # <<>> /\ events' = Tail(events)
  /\ handlers' = handlers \union {[incremental |-> Head(events).incremental, stats |-> <<>>, id |-> Cardinality(handlers) + applied]}
  /\ UNCHANGED <<files, shardStats, flushes, applied, newestAt, muddled>>
HandlerComputes(h) ==
  /\ h.stats = <<>>
  /\ handlers' = (handlers \ {h}) \union {[h EXCEPT !.stats = <<ComputeShardStats>>]}
  /\ UNCHANGED <<files, events, shardStats, flushes, applied, newestAt, muddled>>

Widen(a, b) == IF a = <<>> THEN b ELSE IF b = <<>> THEN a ELSE <<Min({a[1], b[1]}), Max({a[2], b[2]})>>
\* apply_shard_stats_report: an incremental report is added to what is there
\* and widens the range; any other replaces it.
ApplyShardStatsReport(new, incremental) ==
  IF ~incremental \/ shardStats = <<>> THEN new
  ELSE [rows |-> shardStats[1].rows + new.rows, range |-> Widen(shardStats[1].range, new.range), at |-> new.at]
HandlerReports(h) ==
  /\ h.stats # <<>>
  /\ shardStats' = <<ApplyShardStatsReport(h.stats[1], h.incremental)>>
  /\ handlers' = handlers \ {h} /\ applied' = applied + 1
  /\ muddled' = (muddled \union (IF h.incremental THEN {"incremental"} ELSE {})
                         \union (IF h.stats[1].at < newestAt THEN {"reordered"} ELSE {}))
  /\ newestAt' = Max({newestAt, h.stats[1].at})
  /\ UNCHANGED <<files, events, flushes>>
\* ANALYZE TABLE: reset_table_stats.
ResetTableStats ==
  /\ shardStats # <<>> /\ shardStats' = <<>>
  /\ UNCHANGED <<files, events, handlers, flushes, applied, newestAt, muddled>>
StatNext ==
  \/ \E vs \in SUBSET StatValues : vs # {} /\ FlushFile(vs)
  \/ \E incremental \in BOOLEAN : CompactFiles(incremental)
  \/ SpawnHandler \/ ResetTableStats
  \/ \E h \in handlers : HandlerComputes(h) \/ HandlerReports(h)

-------------------------------------------------------------------------------
ReportInit ==
  /\ reporting \in {"disk", "stats"}
  /\ usage = [p \in Paths |-> 0] /\ probed = usage
  /\ pathState = [p \in Paths |-> "Normal"] /\ qnPath = pathState
  /\ pollAt = 0 /\ telling = <<>> /\ polls = 0 /\ reportFaults = 0
  /\ files = {} /\ events = <<>> /\ handlers = {} /\ shardStats = <<>>
  /\ flushes = 0 /\ applied = 0 /\ newestAt = 0 /\ muddled = {}
ReportNext ==
  \/ reporting = "disk" /\ DiskNext /\ UNCHANGED <<reporting, statVars>>
  \/ reporting = "stats" /\ StatNext /\ UNCHANGED <<reporting, diskVars>>

\* The query node's picture follows the storage node.  Disks: between two polls
\* the query node holds every path as the monitor does unless a report failed,
\* and the monitor's state follows the last probe with hysteresis (a read-only
\* path was last seen above the recovery threshold, a normal one not above the
\* full threshold).  Statistics: when no event is on its way and no report
\* overtook a newer one, the stored range covers every value in the shard's
\* files, and the row count is theirs unless incremental reports added to it.
QnFollowsNode ==
  /\ pollAt = 0 /\ reportFaults = 0 => qnPath = pathState
  /\ \A p \in Paths : IF pathState[p] = "ReadOnly" THEN probed[p] > RecoveryThreshold ELSE probed[p] <= FullThreshold
  /\ events = <<>> /\ handlers = {} /\ shardStats # <<>> /\ "reordered" \notin muddled =>
       /\ \A v \in UNION {f.values : f \in files} : v \in shardStats[1].range[1] .. shardStats[1].range[2]
       /\ muddled = {} => shardStats[1].rows = ComputeShardStats.rows
==============================================================================
