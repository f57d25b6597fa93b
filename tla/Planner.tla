------------------------------- MODULE Planner -------------------------------
(***************************************************************************)
(* Planning on the query node (query-node/src/planner): the logical plan   *)
(* of a SELECT (logical.rs), the passes of the optimizer over it           *)
(* (cbo/optimizer.rs), its physical plan and the fragments that scan the   *)
(* shards (physical.rs), and the storage nodes chosen for the buckets of a *)
(* new cube (shard_placement.rs).  A plan denotes the rows it computes     *)
(* over a small database, so that a pass can be held against its input.    *)
(* `planning' fixes what a behaviour is about.                             *)
(***************************************************************************)
EXTENDS Integers, Sequences, FiniteSets, FiniteSetsExt, SequencesExt, Folds

CONSTANTS
  PlanCubes, PlanStatements, PlanJoins,   \* cubes; SELECTs; the joins given to the optimizer
  PlanDbs,                                \* databases: cube -> its rows [pk, v]
  ComputeNodes, ScanShards, ShardHome,    \* CNs in order; shard ids; shard -> SN
  MaxPlanned,                             \* bound on the fragment builds of a behaviour
  PlacementNodes, MaxBuckets              \* SN ids in order; bound on the buckets

VARIABLES
  planning,
  pStats, pDb, pInput, pPlan, pPass,                   \* a plan on its way through the passes
  cnLoad, cnIdx, colocated, asked, fragments, built,   \* PhysicalPlanner
  nodeUp, buckets                                      \* eligible SNs; the last placement

optVars == <<pStats, pDb, pInput, pPlan, pPass>>
fragVars == <<cnLoad, cnIdx, colocated, asked, fragments, built>>
placeVars == <<nodeUp, buckets>>
plannerVars == <<planning, optVars, fragVars, placeVars>>

Failed == <<"error">>

-------------------------------------------------------------------------------
\* translate_expr knows columns, literals and binary operators; anything else
\* (here "isnull") is an error, and so is the statement.
RECURSIVE Translatable(_)
Translatable(e) ==
  CASE e[1] \in {"col", "lit"} -> TRUE
    [] e[1] = "op" -> Translatable(e[3]) /\ Translatable(e[4])
    [] OTHER -> FALSE

\* plan_select.  ORDER BY, HAVING, JOIN and the projection are not looked at.
PlanSelect(s) ==
  LET scan == <<"scan", s.from, <<>>, <<>>>>
      filtered == IF s.where = <<>> THEN scan ELSE <<"filter", scan, s.where[1]>>
      grouped == IF s.groupBy # <<>> \/ s.counts THEN <<"agg", filtered, s.groupBy>> ELSE filtered IN
  IF s.where # <<>> /\ ~Translatable(s.where[1]) THEN Failed
  ELSE IF s.limit = <<>> THEN grouped ELSE <<"limit", grouped, s.limit[1]>>

-------------------------------------------------------------------------------
RECURSIVE PushDownPredicates(_)
PushDownPredicates(p) ==
  CASE p[1] = "filter" /\ p[2][1] = "scan" -> <<"scan", p[2][2], Append(p[2][3], p[3]), p[2][4]>>
    [] p[1] = "filter" /\ p[2][1] # "scan" -> <<"filter", PushDownPredicates(p[2]), p[3]>>
    [] p[1] = "limit" -> <<"limit", PushDownPredicates(p[2]), p[3]>>
    [] OTHER -> p

\* extract_range: the bounds a comparison of the partition column with a
\* literal puts on it; a conjunction or a disjunction puts none.
MutExtractRange(e) ==
  IF e[1] = "op" /\ e[3] = <<"col", "pk">> /\ e[4][1] = "lit"
    THEN CASE e[2] \in {">", ">="} -> <<<<e[4][2]>>, <<>>>>
           [] e[2] \in {"<", "<="} -> <<<<>>, <<e[4][2]>>>>
           [] e[2] = "=" -> <<<<e[4][2]>>, <<e[4][2]>>>>
           [] e[2] = "<>" -> <<<<e[4][2] + 1>>, <<>>>>
           [] OTHER -> <<<<>>, <<>>>>
    ELSE <<<<>>, <<>>>>
ExtractRange(e) ==
  IF e[1] = "op" /\ e[3] = <<"col", "pk">> /\ e[4][1] = "lit"
    THEN CASE e[2] \in {">", ">="} -> <<<<e[4][2]>>, <<>>>>
           [] e[2] \in {"<", "<="} -> <<<<>>, <<e[4][2]>>>>
           [] e[2] = "=" -> <<<<e[4][2]>>, <<e[4][2]>>>>
           [] OTHER -> <<<<>>, <<>>>>
    ELSE <<<<>>, <<>>>>
Or(new, old) == IF new # <<>> THEN new ELSE old
RECURSIVE PartitionPruning(_)
PartitionPruning(p) ==
  CASE p[1] = "scan" ->
         LET range == FoldLeft(LAMBDA acc, e : <<Or(ExtractRange(e)[1], acc[1]), Or(ExtractRange(e)[2], acc[2])>>,
                               <<<<>>, <<>>>>, p[3]) IN
         IF range = <<<<>>, <<>>>> THEN p ELSE <<"scan", p[2], p[3], range>>
    [] p[1] \in {"filter", "limit"} -> <<p[1], PartitionPruning(p[2]), p[3]>>
    [] OTHER -> p

RECURSIVE EstimateRows(_)
EstimateRows(p) ==
  CASE p[1] = "scan" -> pStats[p[2]]
    [] p[1] = "filter" -> EstimateRows(p[2]) \div 10
    [] p[1] = "limit" -> p[3]
    [] OTHER -> 1000
\* The smaller side becomes the build side; the type of the join is kept.
OptimizeJoinOrder(p) ==
  IF p[1] = "join" /\ EstimateRows(p[3]) < EstimateRows(p[2]) THEN <<"join", p[3], p[2], p[4]>> ELSE p

\* translate_node: filters are left to the shard scans; what it does not know
\* becomes an empty result.
RECURSIVE TranslateNode(_)
TranslateNode(p) ==
  CASE p[1] = "scan" -> <<"table", p[2]>>
    [] p[1] = "filter" -> TranslateNode(p[2])
    [] p[1] = "agg" ->
         LET partial == <<"partial", TranslateNode(p[2]), p[3]>> IN
         IF Len(ComputeNodes) > 1 THEN <<"final", <<"exchange", partial>>, p[3]>> ELSE partial
    [] p[1] = "join" -> <<"hashjoin", TranslateNode(p[2]), TranslateNode(p[3]), p[4]>>
    [] p[1] = "limit" -> <<"limit", TranslateNode(p[2]), p[3]>>
    [] OTHER -> <<"limit", <<"table", "unknown">>, 0>>

PlanPass ==
  /\ pPass < 4 /\ pPass' = pPass + 1
  /\ pPlan' = CASE pPlan = Failed -> Failed
                [] pPass = 0 -> PushDownPredicates(pPlan)
                [] pPass = 1 -> PartitionPruning(pPlan)
                [] pPass = 2 -> OptimizeJoinOrder(pPlan)
                [] OTHER -> TranslateNode(pPlan)
  /\ UNCHANGED <<pStats, pDb, pInput>>

-------------------------------------------------------------------------------
\* PhysicalPlanner::register_colocated_sn.
RegisterColocatedSn(cn, sn) ==
  /\ built = 0 /\ <<cn, sn>> \notin colocated
  /\ colocated' = colocated \union {<<cn, sn>>} /\ UNCHANGED <<cnLoad, cnIdx, asked, fragments, built>>
LeastLoadedCn == LET i == CHOOSE i \in DOMAIN ComputeNodes :
                            \A j \in DOMAIN ComputeNodes : \/ cnLoad[ComputeNodes[i]] < cnLoad[ComputeNodes[j]]
                                                           \/ cnLoad[ComputeNodes[i]] = cnLoad[ComputeNodes[j]] /\ i <= j
                 IN ComputeNodes[i]
\* cn_colocated_with takes any of them (a hash map's order), else the least
\* loaded CN; loads are only counted when the fragments are made.
CnCandidates(shard) ==
  LET near == {cn \in ToSet(ComputeNodes) : <<cn, ShardHome[shard]>> \in colocated} IN
  IF near # {} THEN near ELSE {LeastLoadedCn}
\* build_fragments: one fragment without shard scans, on the next CN in turn.
BuildFragments(ids, missing) ==
  LET cn == ComputeNodes[(cnIdx % Len(ComputeNodes)) + 1] IN
  /\ cnIdx' = cnIdx + 1 /\ cnLoad' = [cnLoad EXCEPT ![cn] = @ + 1]
  /\ fragments' = {[cn |-> cn, shards |-> {}]}
  /\ asked' = [shards |-> ids, missing |-> missing] /\ built' = built + 1
  /\ UNCHANGED colocated
\* build_shard_fragments: a shard whose lookup fails is left out.
BuildShardFragments(ids, missing) ==
  \E choice \in [ids \ missing -> ToSet(ComputeNodes)] :
    /\ \A s \in ids \ missing : choice[s] \in CnCandidates(s)
    /\ \A s, t \in ids \ missing : ShardHome[s] = ShardHome[t] => choice[s] = choice[t]
    /\ LET chosen == {choice[s] : s \in ids \ missing} IN
       /\ fragments' = {[cn |-> cn, shards |-> {s \in ids \ missing : choice[s] = cn}] : cn \in chosen}
       /\ cnLoad' = [cn \in DOMAIN cnLoad |-> cnLoad[cn] + (IF cn \in chosen THEN 1 ELSE 0)]
    /\ asked' = [shards |-> ids, missing |-> missing] /\ built' = built + 1
    /\ UNCHANGED <<cnIdx, colocated>>
FragNext ==
  \/ \E cn \in ToSet(ComputeNodes), s \in ScanShards : RegisterColocatedSn(cn, ShardHome[s])
  \/ /\ built < MaxPlanned
     /\ \E ids \in SUBSET ScanShards : \E missing \in SUBSET ids :
          IF ids = missing THEN BuildFragments(ids, missing) ELSE BuildShardFragments(ids, missing)

-------------------------------------------------------------------------------
\* ShardPlacement over the eligible storage nodes, in the order of their ids.
Eligible == SelectSeq(PlacementNodes, LAMBDA n : n \in nodeUp)
SelectNodes(count) ==
  /\ Eligible # <<>> /\ Len(Eligible) >= count
  /\ buckets' = [nodes |-> <<SubSeq(Eligible, 1, count)>>, replicas |-> count, up |-> nodeUp] /\ UNCHANGED nodeUp
AssignBuckets(n, replicas) ==
  LET size == Len(Eligible) IN
  /\ Eligible # <<>>
  /\ buckets' = [nodes |-> [b \in 1 .. n |-> [r \in 1 .. Min({replicas, size}) |->
                                                Eligible[((b - 1 + r - 1) % size) + 1]]],
                 replicas |-> replicas, up |-> nodeUp]
  /\ UNCHANGED nodeUp
NodeChanges(n) ==
  /\ nodeUp' = IF n \in nodeUp THEN nodeUp \ {n} ELSE nodeUp \union {n}
  /\ UNCHANGED buckets
PlaceNext ==
  \/ \E n \in ToSet(PlacementNodes) : NodeChanges(n)
  \/ \E count \in 1 .. Len(PlacementNodes) : SelectNodes(count)
  \/ \E n \in 1 .. MaxBuckets, r \in 1 .. Len(PlacementNodes) : AssignBuckets(n, r)

-------------------------------------------------------------------------------
PlannerInit ==
  /\ planning \in {"optimize", "fragments", "placement"}
  /\ IF planning = "optimize"
       THEN /\ pDb \in PlanDbs /\ pStats \in [PlanCubes -> {1, 2}]
            /\ \E s \in PlanStatements \union PlanJoins :
                 pInput = s /\ pPlan = IF s \in PlanJoins THEN s.plan ELSE PlanSelect(s)
       ELSE /\ pDb = [c \in PlanCubes |-> <<>>] /\ pStats = [c \in PlanCubes |-> 1]
            /\ pInput = <<>> /\ pPlan = Failed
  /\ pPass = 0
  /\ cnLoad = [cn \in ToSet(ComputeNodes) |-> 0] /\ cnIdx = 0 /\ colocated = {}
  /\ asked = [shards |-> {}, missing |-> {}] /\ fragments = {} /\ built = 0
  /\ nodeUp = ToSet(PlacementNodes) /\ buckets = [nodes |-> <<>>, replicas |-> 0, up |-> {}]
PlannerNext ==
  \/ planning = "optimize" /\ PlanPass /\ UNCHANGED <<planning, fragVars, placeVars>>
  \/ planning = "fragments" /\ FragNext /\ UNCHANGED <<planning, optVars, placeVars>>
  \/ planning = "placement" /\ PlaceNext /\ UNCHANGED <<planning, optVars, fragVars>>

-------------------------------------------------------------------------------
\* What plans denote: the rows, with a join's and a grouping's as a set.
RECURSIVE Value(_, _)
Value(e, row) ==
  CASE e[1] = "col" -> row[e[2]]
    [] e[1] = "lit" -> e[2]
    [] OTHER ->
       LET l == Value(e[3], row)  r == Value(e[4], row) IN
       CASE e[2] = "=" -> l = r   [] e[2] = "<>" -> l # r  [] e[2] = "<" -> l < r
         [] e[2] = "<=" -> l <= r [] e[2] = ">" -> l > r   [] e[2] = ">=" -> l >= r
         [] e[2] = "and" -> l /\ r [] e[2] = "or" -> l \/ r
InRange(range, row) ==
  range # <<>> => /\ range[1] # <<>> => row.pk >= range[1][1]
                  /\ range[2] # <<>> => row.pk <= range[2][1]
CountBy(rows, keys) ==
  IF keys = <<>> THEN {[key |-> 0, n |-> Len(rows)]}
  ELSE {[key |-> k, n |-> Len(SelectSeq(rows, LAMBDA r : Value(keys[1], r) = k))] : k \in {Value(keys[1], r) : r \in ToSet(rows)}}
JoinRows(a, b, l, r, type) ==
  LET pairs == {<<i, j>> \in (DOMAIN l) \X (DOMAIN r) : type = "Cross" \/ l[i].pk = r[j].pk} IN
  {{<<a, q[1]>>, <<b, q[2]>>} : q \in pairs}
    \union (IF type = "Full" THEN {{<<a, i>>} : i \in (DOMAIN l) \ {q[1] : q \in pairs}}
                                    \union {{<<b, j>>} : j \in (DOMAIN r) \ {q[2] : q \in pairs}} ELSE {})
RECURSIVE Denotes(_)
Denotes(p) ==
  CASE p[1] = "scan" -> SelectSeq(pDb[p[2]], LAMBDA r : InRange(p[4], r) /\ \A i \in DOMAIN p[3] : Value(p[3][i], r))
    [] p[1] = "filter" -> SelectSeq(Denotes(p[2]), LAMBDA r : Value(p[3], r))
    [] p[1] = "agg" -> CountBy(Denotes(p[2]), p[3])
    [] p[1] = "limit" -> LET rows == Denotes(p[2]) IN SubSeq(rows, 1, Min({p[3], Len(rows)}))
    [] p[1] = "join" -> JoinRows(p[2][2], p[3][2], Denotes(p[2]), Denotes(p[3]), p[4])
\* A physical plan over the rows the shard scans let through; the partial
\* counts are taken on every CN and added up.
RECURSIVE Computes(_, _)
Computes(p, where) ==
  CASE p[1] = "table" -> SelectSeq(pDb[p[2]], LAMBDA r : where = <<>> \/ Value(where[1], r))
    [] p[1] = "partial" -> CountBy(Computes(p[2], where), p[3])
    [] p[1] = "final" ->
         LET rows == Computes(p[2][2][2], where)
             n == Len(ComputeNodes)
             part(i) == LET ix == SetToSeq({k \in DOMAIN rows : k % n = i}) IN [k \in DOMAIN ix |-> rows[ix[k]]]
             all == UNION {{<<i, c>> : c \in CountBy(part(i), p[3])} : i \in 0 .. n - 1} IN
         {[key |-> k, n |-> MapThenSumSet(LAMBDA x : x[2].n, {x \in all : x[2].key = k})] : k \in {x[2].key : x \in all}}
    [] p[1] = "limit" -> LET rows == Computes(p[2], where) IN SubSeq(rows, 1, Min({p[3], Len(rows)}))
    [] p[1] = "hashjoin" -> JoinRows(p[2][2], p[3][2], Computes(p[2], where), Computes(p[3], where), p[4])

\* Planning changes how rows are found and never which.  Every pass of the
\* optimizer leaves a plan that denotes the rows of the statement's own plan
\* (outer joins of one side apart, see the hazards), and the physical plan
\* computes them from what the shard scans let through.  The fragments of a
\* build scan every shard that was looked up exactly once, one fragment per
\* compute node.  The replicas of a bucket are distinct storage nodes that
\* were eligible, as many as were asked for or there are, and no node is the
\* primary of two buckets more than another.
PlansKeepRows ==
  /\ planning = "optimize" /\ pPlan # Failed =>
       LET original == IF "plan" \in DOMAIN pInput THEN pInput.plan ELSE PlanSelect(pInput)
           where == IF "plan" \in DOMAIN pInput THEN <<>> ELSE pInput.where IN
       IF pPass < 4 THEN Denotes(pPlan) = Denotes(original) ELSE Computes(pPlan, where) = Denotes(original)
  /\ \A s \in asked.shards : Cardinality({f \in fragments : s \in f.shards}) = (IF s \in asked.missing THEN 0 ELSE 1)
  /\ \A f, g \in fragments : f.cn = g.cn => f = g
  /\ \A i \in DOMAIN buckets.nodes :
       LET nodes == buckets.nodes[i] IN
       /\ IsInjective(nodes) /\ ToSet(nodes) \subseteq buckets.up
       /\ Len(nodes) = Min({buckets.replicas, Cardinality(buckets.up)})
  /\ LET primaries(n) == Cardinality({i \in DOMAIN buckets.nodes : buckets.nodes[i][1] = n}) IN
     \A n, m \in buckets.up : primaries(n) <= primaries(m) + 1
==============================================================================
