----------------------------- MODULE ShowCommands ----------------------------
(***************************************************************************)
(* SHOW PARTITIONS, SHARDS, PARTS and DISTRIBUTED STATUS, and the list of  *)
(* cubes of the web interface (web_ui/api.rs)                              *)
(* (query-node/src/meta/partition_info.rs, mysql_protocol/schema_cmds.rs)  *)
(* over the tablets of TabletManager (meta/tablet.rs) and the shard map.   *)
(*                                                                         *)
(* A command reads the list of tablets once and then, tablet by tablet,    *)
(* the shard entry and, from a storage node, the statistics and the parts: *)
(* every read is an await, between which tablets are allocated, replicas   *)
(* change and parts are written.  The storage nodes are a trait whose two  *)
(* implementations are stubs; they are modelled by its contract.  The      *)
(* entry is the one get_shard_entry answers (MetadataCaches has its        *)
(* cache).  Sizes in bytes are summed like the rows and left out.          *)
(***************************************************************************)
EXTENDS Replicas, FiniteSets

CONSTANTS
  Partitions,     \* names of partitions: the numbers between the underscores, -1 for a word
  Buckets,        \* bucket_count
  ReplicaNodes,   \* storage nodes, a sequence
  MaxShardChanges \* bound on changes of the cluster

VARIABLES
  cubeLive,   \* CubeManager finds the cube by its name
  tabletKv,   \* tablets of the cube in the Raft store: [part, bucket]
  shardOf,    \* the shard map: tablet -> replicas
  partsAt,    \* <<node, tablet>> -> the row counts of its parts
  command,    \* the SHOW being answered
  answer,     \* the last answer: [op, filter, tablets, rows]
  disturbed,  \* the cluster changed while the command ran
  changeCount

showVars == <<cubeLive, tabletKv, shardOf, partsAt, command, answer, disturbed, changeCount>>

Tablet(p, b) == [part |-> p, bucket |-> b]
AllTablets == {Tablet(p, b) : p \in Partitions, b \in 0 .. Buckets - 1}
Nodes == ToSet(ReplicaNodes)
NoCommand == [op |-> "none", filter |-> <<>>, tablets |-> {}, todo |-> {}, reads |-> <<>>, acc |-> <<>>]
NoAnswer == [op |-> "none", filter |-> <<>>, tablets |-> {}, acc |-> <<>>]
Row(t, r, rows, parts) == [tablet |-> t, replica |-> r, rows |-> rows, parts |-> parts]
\* Where allocate_for_cube and the shard map put a tablet.
Placement(b) ==
  [i \in 1 .. Len(ReplicaNodes) |->
     [node |-> ReplicaNodes[((b + i - 1) % Len(ReplicaNodes)) + 1], role |-> IF i = 1 THEN "Leader" ELSE "Follower",
      state |-> "Normal", lsn |-> 0]]
SumOf(rows) == FoldFunction(LAMBDA x, y : x + y, 0, rows)

-------------------------------------------------------------------------------
\* infer_partition_range.  The end of a day from the 28th on is that day.
InferPartitionRange(name) ==
  LET Numbers(n) == Len(name) >= n /\ \A i \in 1 .. n : name[i] >= 0 IN
  CASE Numbers(3) -> <<<<name[1], name[2], name[3]>>,
                       <<name[1], name[2], IF name[3] < 28 THEN name[3] + 1 ELSE name[3]>>>>
    [] ~Numbers(3) /\ Numbers(2) ->
         <<<<name[1], name[2], 1>>, IF name[2] >= 12 THEN <<name[1] + 1, 1, 1>> ELSE <<name[1], name[2] + 1, 1>>>>
    [] OTHER -> <<>>

\* list_for_cube; the commands resolve the name of the cube first, and use the
\* name as an id, which no tablet has, if there is none.
ListForCube == IF cubeLive THEN tabletKv ELSE {}
\* list_for_partition sorts by bucket, and route takes the bucket of the hash.
ListForPartition(p) == SetToSortSeq({t \in tabletKv : t.part = p}, LAMBDA a, b : a.bucket < b.bucket)
RouteTablet(p, hash) == SelectSeq(ListForPartition(p), LAMBDA t : t.bucket = hash % Buckets)

-------------------------------------------------------------------------------
\* The replicas a command asks about a tablet, once it has the entry.
MutReplicasAsked(op, replicas) == IF op = "status" THEN replicas ELSE BestReplica(replicas)
ReplicasAsked(op, replicas) ==
  IF op = "status" THEN SelectSeq(replicas, LAMBDA r : r.role = "Leader") ELSE BestReplica(replicas)

ListedBy(filter, t) == filter = <<>> \/ filter = <<"part", t.part>> \/ filter = <<"shard", t>>

\* A command lists the tablets.  Only SHOW SHARDS and SHOW PARTS take a
\* filter; the tablets come in the order of a hash map.
BeginShow(op, filter) ==
  /\ command = NoCommand
  /\ filter # <<>> => op = "parts" \/ (op = "shards" /\ filter[1] = "part")
  /\ command' = [NoCommand EXCEPT !.op = op, !.filter = filter, !.tablets = ListForCube,
                   !.todo = {t \in ListForCube : ListedBy(filter, t)}]
  /\ answer' = NoAnswer /\ disturbed' = FALSE
  /\ UNCHANGED <<cubeLive, tabletKv, shardOf, partsAt, changeCount>>

ShowPartitions == BeginShow("partitions", <<>>)
ShowShards(filter) == BeginShow("shards", filter)
ShowParts(filter) == BeginShow("parts", filter)
ShowDistributedStatus == BeginShow("status", <<>>)

\* get_shard_entry.  The reads of the replicas it asks follow.  SHOW SHARDS
\* has a row of defaults for a tablet without a usable entry, SHOW DISTRIBUTED
\* STATUS counts the replicas it does not ask.
ReadEntry(t) ==
  /\ command.op # "cubes" /\ t \in command.todo /\ command.reads = <<>>
  /\ LET replicas == IF t \in DOMAIN shardOf THEN shardOf[t] ELSE <<>>
         asked == ReplicasAsked(command.op, replicas)
         Reads(r) == (IF command.op = "parts" THEN <<>> ELSE <<[do |-> "stats", tablet |-> t, replica |-> r]>>)
                       \o <<[do |-> "parts", tablet |-> t, replica |-> r]>>
         unasked == CASE command.op = "status" -> SelectSeq(replicas, LAMBDA r : r \notin ToSet(asked))
                      [] command.op = "shards" /\ asked = <<>> -> <<[Placement(t.bucket)[1] EXCEPT !.lsn = 0]>>
                      [] OTHER -> <<>> IN
     command' = [command EXCEPT !.todo = @ \ {t},
                   !.reads = FlattenSeq([i \in DOMAIN asked |-> Reads(asked[i])]),
                   !.acc = @ \o [i \in DOMAIN unasked |-> Row(t, unasked[i], 0, <<>>)]]
  /\ UNCHANGED <<cubeLive, tabletKv, shardOf, partsAt, answer, disturbed, changeCount>>

\* get_shard_stats, then get_parts, of one replica; SHOW PARTS asks for the
\* parts only.
ReadNode ==
  /\ command.reads # <<>>
  /\ LET read == Head(command.reads)
         parts == partsAt[<<read.replica.node, read.tablet>>] IN
     command' = [command EXCEPT !.reads = Tail(@),
                   !.acc = CASE read.do = "stats" -> Append(@, Row(read.tablet, read.replica, SumOf(parts), <<>>))
                             [] read.do = "parts" /\ command.op = "parts" -> Append(@, Row(read.tablet, read.replica, 0, parts))
                             [] OTHER -> [@ EXCEPT ![Len(command.acc)].parts = parts]]
  /\ UNCHANGED <<cubeLive, tabletKv, shardOf, partsAt, answer, disturbed, changeCount>>

\* list_cubes of the web interface: lists the cubes, and asks every storage
\* node what it holds; a node that fails is left out.
BeginListCubes ==
  /\ command = NoCommand
  /\ command' = [NoCommand EXCEPT !.op = "cubes", !.tablets = ListForCube, !.todo = Nodes]
  /\ answer' = NoAnswer /\ disturbed' = FALSE
  /\ UNCHANGED <<cubeLive, tabletKv, shardOf, partsAt, changeCount>>
FetchSnCubeStats(n, reached) ==
  /\ command.op = "cubes" /\ n \in command.todo
  /\ LET held == SetToSeq({t \in AllTablets : partsAt[<<n, t>>] # <<>>})
         Held(t) == Row(t, [node |-> n], SumOf(partsAt[<<n, t>>]), partsAt[<<n, t>>]) IN
     command' = [command EXCEPT !.todo = @ \ {n}, !.filter = IF reached THEN @ ELSE <<"missing">>,
                   !.acc = IF reached THEN @ \o [i \in DOMAIN held |-> Held(held[i])] ELSE @]
  /\ UNCHANGED <<cubeLive, tabletKv, shardOf, partsAt, answer, disturbed, changeCount>>

EndShow ==
  /\ command # NoCommand /\ command.todo = {} /\ command.reads = <<>>
  /\ answer' = [op |-> command.op, filter |-> command.filter, tablets |-> command.tablets, acc |-> command.acc]
  /\ command' = NoCommand
  /\ UNCHANGED <<cubeLive, tabletKv, shardOf, partsAt, disturbed, changeCount>>

-------------------------------------------------------------------------------
(* What the four commands make of the rows they gathered.                   *)

RowsOfTablets(acc, T) == [i \in {j \in DOMAIN acc : acc[j].tablet \in T} |-> acc[i].rows]
PartsOfTablets(acc, T) == SumOf([i \in {j \in DOMAIN acc : acc[j].tablet \in T} |-> Len(acc[i].parts)])

\* list_partitions
ListPartitions(a) ==
  {LET T == {t \in a.tablets : t.part = p} IN
   [part |-> p, range |-> InferPartitionRange(p), shards |-> Cardinality(T),
    rows |-> SumOf(RowsOfTablets(a.acc, T)), parts |-> PartsOfTablets(a.acc, T)] : p \in {t.part : t \in a.tablets}}
\* list_shards, in the order the tablets were read
ListShards(a) ==
  [i \in DOMAIN a.acc |->
     LET x == a.acc[i] IN
     [shard |-> x.tablet, range |-> IF InferPartitionRange(x.tablet.part) = <<>> THEN <<x.tablet.part>>
                                    ELSE InferPartitionRange(x.tablet.part),
      node |-> x.replica.node, role |-> x.replica.role, state |-> x.replica.state, lsn |-> x.replica.lsn,
      rows |-> x.rows, parts |-> Len(x.parts)]]
\* list_parts
ListParts(a) ==
  FlattenSeq([i \in DOMAIN a.acc |->
                [j \in DOMAIN a.acc[i].parts |->
                   [shard |-> a.acc[i].tablet, node |-> a.acc[i].replica.node, rows |-> a.acc[i].parts[j]]]])
\* get_distributed_status; the average is kept as a pair
GetDistributedStatus(a) ==
  LET At(n) == {i \in DOMAIN a.acc : a.acc[i].replica.node = n} IN
  [n \in {a.acc[i].replica.node : i \in DOMAIN a.acc} |->
     [shards |-> Cardinality(At(n)),
      leaders |-> Cardinality({i \in At(n) : a.acc[i].replica.role = "Leader"}),
      partitions |-> Cardinality({a.acc[i].tablet.part : i \in At(n)}),
      rows |-> SumOf([i \in At(n) |-> a.acc[i].rows]),
      avgParts |-> <<SumOf([i \in At(n) |-> Len(a.acc[i].parts)]), Cardinality(At(n))>>]]

\* The row of the cube in list_cubes: what every node holds, each copy counted.
ListCubes(a) ==
  [rows |-> SumOf([i \in DOMAIN a.acc |-> a.acc[i].rows]),
   partitions |-> Cardinality({<<a.acc[i].replica.node, a.acc[i].tablet.part>> : i \in DOMAIN a.acc})]

-------------------------------------------------------------------------------
(* The cluster: tablets are allocated and registered in the shard map, the  *)
(* leader writes and its followers copy, replicas change state, the cube is *)
(* dropped.                                                                 *)

Changed == changeCount < MaxShardChanges /\ changeCount' = changeCount + 1 /\ disturbed' = TRUE

AllocatePartition(p) ==
  /\ \A t \in tabletKv : t.part # p
  /\ Changed
  /\ tabletKv' = tabletKv \union {Tablet(p, b) : b \in 0 .. Buckets - 1}
  /\ UNCHANGED <<cubeLive, shardOf, partsAt, command, answer>>
RegisterShard(t) ==
  /\ t \in tabletKv \ DOMAIN shardOf /\ Changed
  /\ shardOf' = [x \in DOMAIN shardOf \union {t} |-> IF x = t THEN Placement(t.bucket) ELSE shardOf[x]]
  /\ UNCHANGED <<cubeLive, tabletKv, partsAt, command, answer>>
WritePart(n, t, rows) ==
  /\ t \in tabletKv /\ Changed
  /\ partsAt' = [partsAt EXCEPT ![<<n, t>>] = Append(@, rows)]
  /\ UNCHANGED <<cubeLive, tabletKv, shardOf, command, answer>>
ReplicaChanges(t, i, state) ==
  /\ t \in DOMAIN shardOf /\ i \in DOMAIN shardOf[t] /\ shardOf[t][i].state # state /\ Changed
  /\ shardOf' = [shardOf EXCEPT ![t][i].state = state]
  /\ UNCHANGED <<cubeLive, tabletKv, partsAt, command, answer>>
CubeDropped ==
  /\ cubeLive /\ Changed /\ cubeLive' = FALSE
  /\ UNCHANGED <<tabletKv, shardOf, partsAt, command, answer>>

ShowInit ==
  /\ cubeLive = TRUE
  /\ tabletKv = {Tablet(p, b) : p \in {CHOOSE q \in Partitions : TRUE}, b \in 0 .. Buckets - 1}
  /\ shardOf = [t \in tabletKv |-> Placement(t.bucket)]
  /\ partsAt = [x \in Nodes \X AllTablets |->
                  IF x[2] \in tabletKv /\ Placement(x[2].bucket)[1].node = x[1] THEN <<1>> ELSE <<>>]
  /\ command = NoCommand /\ answer = NoAnswer
  /\ disturbed = FALSE /\ changeCount = 0

Filters == {<<>>} \union {<<"part", p>> : p \in Partitions} \union {<<"shard", t>> : t \in AllTablets}
ShowNext ==
  \/ ShowPartitions \/ ShowDistributedStatus
  \/ \E f \in Filters : ShowShards(f) \/ ShowParts(f)
  \/ \E t \in AllTablets : ReadEntry(t) \/ RegisterShard(t)
  \/ ReadNode \/ EndShow \/ CubeDropped \/ BeginListCubes
  \/ \E n \in Nodes, reached \in BOOLEAN : FetchSnCubeStats(n, reached)
  \/ \E p \in Partitions : AllocatePartition(p)
  \/ \E n \in Nodes, t \in AllTablets : WritePart(n, t, 2)
  \/ \E t \in AllTablets, i \in 1 .. Len(ReplicaNodes), s \in {"Offline", "CatchingUp"} : ReplicaChanges(t, i, s)

-------------------------------------------------------------------------------
\* The rows a tablet has at the replica a reader is sent to.
EntryOf(t) == IF t \in DOMAIN shardOf THEN shardOf[t] ELSE <<>>
RowsAt(t) == IF BestReplica(EntryOf(t)) = <<>> THEN 0 ELSE SumOf(partsAt[<<BestReplica(EntryOf(t))[1].node, t>>])
RowsIn(T) == SumOf([t \in T |-> RowsAt(t)])
Listed == {t \in answer.tablets : ListedBy(answer.filter, t)}

\* A SHOW, in whatever order the cluster changes under it, lists every tablet
\* it was told of exactly once (SHOW SHARDS a row for each, SHOW PARTITIONS
\* each in its partition, SHOW DISTRIBUTED STATUS no replica twice).  If
\* nothing changed while it ran, the counts are those of the replicas readers
\* are sent to: a partition's rows and parts are the sums of its shards' and of
\* the parts SHOW PARTS lists, and, as long as every shard's leader answers,
\* the leaders' rows add up to the same.  The list of cubes, if every node
\* answered, counts each copy of a row, so never fewer rows than SHOW
\* PARTITIONS.  And a hash goes to one tablet of the partition.
ShowsAgree ==
  /\ answer.op = "shards" =>
       \A t \in Listed : Cardinality({i \in DOMAIN ListShards(answer) : ListShards(answer)[i].shard = t}) = 1
  /\ answer.op = "partitions" =>
       SumOf([p \in {r.part : r \in ListPartitions(answer)} |->
                (CHOOSE r \in ListPartitions(answer) : r.part = p).shards]) = Cardinality(answer.tablets)
  /\ answer.op = "status" =>
       \A n \in DOMAIN GetDistributedStatus(answer) :
         LET s == GetDistributedStatus(answer)[n] IN
         s.shards <= Cardinality(answer.tablets) /\ s.leaders <= s.shards /\ s.partitions <= s.shards
  /\ (answer.op # "none" /\ ~disturbed) =>
       /\ answer.op = "partitions" =>
            \A r \in ListPartitions(answer) : r.rows = RowsIn({t \in answer.tablets : t.part = r.part})
       /\ answer.op = "shards" =>
            SumOf([i \in DOMAIN answer.acc |-> ListShards(answer)[i].rows]) = RowsIn(Listed)
       /\ answer.op = "parts" =>
            SumOf([i \in DOMAIN ListParts(answer) |-> ListParts(answer)[i].rows]) = RowsIn(Listed)
       /\ answer.op = "cubes" =>
            LET all == SumOf([x \in Nodes \X AllTablets |-> SumOf(partsAt[x])]) IN
            /\ ListCubes(answer).rows <= all
            /\ answer.filter = <<>> => ListCubes(answer).rows = all /\ all >= RowsIn(answer.tablets)
       /\ (answer.op = "status" /\ \A t \in answer.tablets : EntryOf(t) # <<>> /\ EntryOf(t)[1].state = "Normal") =>
            SumOf([n \in DOMAIN GetDistributedStatus(answer) |-> GetDistributedStatus(answer)[n].rows]) = RowsIn(answer.tablets)
  /\ \A p \in {t.part : t \in tabletKv}, h \in 0 .. 2 * Buckets : Len(RouteTablet(p, h)) = 1
==============================================================================
