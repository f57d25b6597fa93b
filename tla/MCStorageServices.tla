-------------------------- MODULE MCStorageServices --------------------------
(***************************************************************************)
(* Instances of the components around the storage engine for TLC: skip     *)
(* indexes, shard scans and the streams out of the node, the block cache,  *)
(* partitions and tiers, encodings, the node's reports and registration,   *)
(* what SHOW says of its shards, and the paths rows are loaded by.         *)
(* service, fixed at the start, says which component takes steps; the      *)
(* others stay in one initial state.                                       *)
(***************************************************************************)
EXTENDS Pruning, ShardScan, BlockCache, Ingestion, MvRefresh, PartitionLife, SnReports, Encoding,
  ScanPaths, ShowCommands, Registration, StreamLoad

VARIABLE service

\* Pruning: two hash functions, and the text of each value.
FirstHash == [v \in ColumnValues |-> v * 17]
SecondHash == [v \in ColumnValues |-> v * 29 + 3]
ValueText == <<<<1, 2, 1>>, <<2>>, <<1, 1, 2, 2>>>>
SearchTexts == {<<1>>, <<1, 2>>, <<2, 1>>, <<1, 2, 2>>, <<1, 1, 2, 2>>, <<2, 2>>}

\* ShardScan: with and without predicates, of both value kinds.
ShardRequests ==
  {[preds |-> p, probe |-> k, minLevel |-> l, maxLevel |-> 1] :
     p \in {{}, {[op |-> "ge", v |-> 1, bytes |-> TRUE]}, {[op |-> "eq", v |-> 1, bytes |-> FALSE]}},
     k \in SUBSET {1, 2}, l \in {0, 1}}

\* MvRefresh: rows that lack a column, hold NULL, or a text for a number.
NumCell(x) == <<"num", x>>
StrCell(w) == <<"str", w>>
NullCell == <<"null">>
RowBatches ==
  {<<>>, <<[g |-> NumCell(1), v |-> NumCell(2)], [v |-> NumCell(-1)]>>,
   <<[g |-> NumCell(1), v |-> NullCell], [g |-> NullCell, v |-> StrCell("7")]>>, <<[g |-> NumCell(1), v |-> NumCell(2)]>>,
   <<[g |-> StrCell("x"), v |-> StrCell("x")]>>, <<[g |-> <<"bool", TRUE>>]>>}
ViewOf(fn) == [group |-> "g", column |-> "v", func |-> fn]
TwoViews ==
  {[a |-> ViewOf("Sum"), b |-> ViewOf("Min")], [a |-> ViewOf("CountDistinct"), b |-> ViewOf("Max")],
   [a |-> ViewOf("Count"), b |-> ViewOf("Avg")]}
ColumnOf(n, t, null) == [name |-> n, type |-> t, nullable |-> null]
IngestSchema == <<ColumnOf("v", "Int64", TRUE), ColumnOf("g", "Utf8", FALSE), ColumnOf("g", "Boolean", TRUE)>>
IntOf == [w \in {"7", "x"} |-> IF w = "7" THEN <<7>> ELSE <<>>]
CellHash ==
  [w \in {NumCell(1), NullCell, StrCell("x"), <<"bool", TRUE>>} |->
     CASE w = NumCell(1) -> 5 [] w = NullCell -> 0 [] w = StrCell("x") -> 4 [] OTHER -> 3]

\* PartitionLife: a year of a two-day and a one-day month.
MonthLengths == <<2, 1>>
PartDay == [p1 |-> 0, p2 |-> 1]
PartBytes == [p1 |-> 5, p2 |-> 5]
ArchiveAfter == <<2>>
SomeTimes == <<-1, 0, 1, 3, 5, 6, 9>>

\* SnReports: two watched paths.
TwoPaths == <<"a", "b">>

\* Encoding: a byte of two bits; rows with and without columns; JSON rows
\* whose keys change type.
ShortTexts == {<<>>, <<1>>, <<0, 2>>}
Words64 == {-4, -1, 2, 3}
BatchRows ==
  {[tx |-> 3, key |-> <<1>>, cols |-> <<>>],
   [tx |-> 1, key |-> <<>>, cols |-> <<<<<<2>>, <<>>>>, <<<<3>>, <<0, 1>>>>>>]}
JsonObjects ==
  {<<>>, [a |-> "Null"], [a |-> "Int64", b |-> "Null"], [a |-> "Float64"], [a |-> "Bool", b |-> "Int64"]}

\* ScanPaths: rows with and without a column; a tablet without a directory,
\* without partitions, with one, two, and an empty last one.
TabletRowShapes == {("a" :> "x"), ("a" :> "x" @@ "b" :> "y"), ("b" :> "z")}
BothColumns(S) == (1 :> S @@ 2 :> S)
TabletLayouts ==
  {<<>>, <<<<>>>>, <<<<BothColumns({1})>>>>, <<<<BothColumns({1}), BothColumns({1, 2})>>>>, <<<<BothColumns({1}), BothColumns({})>>>>}

\* ShowCommands: a day and a month.
ShownPartitions == {<<2026, 4, 12>>, <<2026, 12>>}
TwoNodes == <<"n1", "n2">>

\* Registration: two query nodes, and a storage or a compute node.
TwoQueryNodes == <<"q1", "q2">>
NodeKinds == {[q1 |-> "query", q2 |-> "query", s1 |-> k] : k \in {"storage", "compute"}}

-------------------------------------------------------------------------------
Components == {"pruning", "scan", "cache", "ingestion", "views", "life", "reports", "encoding",
               "paths", "show", "registration", "load"}
Others(c) ==
  /\ c # "pruning" => UNCHANGED pruningVars
  /\ c # "scan" => UNCHANGED shardScanVars
  /\ c # "cache" => UNCHANGED poolVars
  /\ c # "ingestion" => UNCHANGED ingestionVars
  /\ c # "views" => UNCHANGED mvVars
  /\ c # "life" => UNCHANGED lifeVars
  /\ c # "reports" => UNCHANGED reportVars
  /\ c # "encoding" => UNCHANGED encodingVars
  /\ c # "paths" => UNCHANGED pathVars
  /\ c # "show" => UNCHANGED showVars
  /\ c # "registration" => UNCHANGED registrationVars
  /\ c # "load" => UNCHANGED streamLoadVars
  /\ UNCHANGED service
\* A component that takes no step starts in one of its initial states only.
MCInit ==
  /\ service \in Components
  /\ service # "pruning" => column = <<>>
  /\ service # "scan" => shardFiles = <<>> /\ scanReq = [preds |-> {}, probe |-> {}, minLevel |-> 0, maxLevel |-> 1]
  /\ service # "cache" => pool = [kind |-> "Data", map |-> << >>, head |-> <<>>, tail |-> <<>>, used |-> 0]
  /\ service # "ingestion" => source = "async"
  /\ service # "views" => viewDef = CHOOSE d \in ViewDefs : TRUE
  /\ service # "life" => life = "tiers"
  /\ service # "reports" => reporting = "disk"
  /\ service # "encoding" => layout = "flat"
  /\ service # "paths" => path = "fragment"
  /\ service # "registration" => kindOf = CHOOSE k \in MemberKinds : TRUE
  /\ PruningInit /\ ShardScanInit /\ PoolInit /\ IngestionInit /\ MvInit /\ LifeInit /\ ReportInit /\ EncodingInit
  /\ PathsInit /\ ShowInit /\ RegistrationInit /\ StreamLoadInit
MCNext ==
  \/ service = "pruning" /\ PruningNext /\ Others("pruning")
  \/ service = "scan" /\ ShardScanNext /\ Others("scan")
  \/ service = "cache" /\ PoolNext /\ Others("cache")
  \/ service = "ingestion" /\ IngestionNext /\ Others("ingestion")
  \/ service = "views" /\ MvNext /\ Others("views")
  \/ service = "life" /\ LifeNext /\ Others("life")
  \/ service = "reports" /\ ReportNext /\ Others("reports")
  \/ service = "encoding" /\ EncodingNext /\ Others("encoding")
  \/ service = "paths" /\ PathsNext /\ Others("paths")
  \/ service = "show" /\ ShowNext /\ Others("show")
  \/ service = "registration" /\ RegistrationNext /\ Others("registration")
  \/ service = "load" /\ StreamLoadNext /\ Others("load")
MCVars ==
  <<service, pruningVars, shardScanVars, poolVars, ingestionVars, mvVars, lifeVars, reportVars, encodingVars,
    pathVars, showVars, registrationVars, streamLoadVars>>
MCSpec == MCInit /\ [][MCNext]_MCVars

-------------------------------------------------------------------------------
\* A scan returns every row it should: what the indexes, the partition
\* statistics and the runtime filters rule out holds no row that matches
\* (Pruning), the stream of a shard scan holds every readable part with a
\* probed key exactly once, newest first (ShardScan), and what is streamed out
\* of the node, through a relay or a compute node, arrives whole (ScanPaths).
ScansLoseNoRow == SkipLosesNoRow /\ ScanStreamComplete /\ StreamsFaithful

\* Ingested rows arrive exactly: in order through the insert buffer and the
\* routine load (Ingestion), at their own index and in one bucket through the
\* loader, in the aggregates of the views they feed (MvRefresh), and counted
\* once by the transaction of a stream load that accepted them (StreamLoad).
RowsArriveExact == BulkRowsExact /\ IngestedExact /\ LoadsAccounted

\* What a query node knows of the other nodes is so: the state of a storage
\* node follows its reports (SnReports), the overview of the cluster shows the
\* nodes that live (Registration), and the SHOW commands agree with each other
\* and with the replicas they ask (ShowCommands).
NodesSeenAsTheyAre == QnFollowsNode /\ OverviewSound /\ ShowsAgree
==============================================================================
