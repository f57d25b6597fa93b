--------------------------- MODULE MCQueryServices ---------------------------
(***************************************************************************)
(* Instances of the components of the query node and the compute node for  *)
(* TLC.  service, fixed at the start, says which component takes steps;    *)
(* the others stay in one initial state, so that the states explored are   *)
(* those of each component, side by side.                                  *)
(***************************************************************************)
EXTENDS QueryPath, SelectExec, Catalogue, MetadataCaches, Planner, Routing, Admission, Analytics, Exchange, CubeDdl

CONSTANTS n1, n2
VARIABLE service

\* QueryPath: two statements' worth of rows.
RowBatches == {<<1, 2>>, <<3>>}

\* SelectExec: a word order, the words that read as numbers, and LIKE.
WordOrder == <<"", "1", "a", "b", "c", "d", "t", "u", "x", "y">>
WordNumber == [w \in {"1"} |-> 1]
LikeHolds == {<<"x", "x">>, <<"x", "y">>}
RowsOf(c1, v1, c2, v2) == {(<<c1>> :> x @@ <<c2>> :> y) : x \in v1, y \in v2}
UpToTwo(R) == {<<>>} \cup {<<r>> : r \in R} \cup {<<r, s>> : r \in R, s \in R}
SelectTables ==
  {[t |-> x, u |-> y] : x \in UpToTwo(RowsOf("a", {Num(1), Num(2), Null}, "b", {Num(1), Str("x")})),
                        y \in UpToTwo(RowsOf("c", {Str("1"), Num(2), Null}, "d", {Num(1)}))}
Col(q, c) == [k |-> "col", q |-> q, c |-> c]
Lit(v) == [k |-> "val", v |-> v]
Cmp(op, l, r) == [k |-> "cmp", op |-> op, l |-> l, r |-> r]
Both(l, r) == [k |-> "and", l |-> l, r |-> r]
Either(l, r) == [k |-> "or", l |-> l, r |-> r]
Agg(n, args, d) == [k |-> "agg", name |-> n, args |-> args, distinct |-> d]
IsNullTest(e, n) == [k |-> "isnull", e |-> e, negated |-> n]
Out(e, al) == [e |-> e, alias |-> al]
FromTable(t, al, js) == [table |-> t, alias |-> al, joins |-> js]
Select(items, from, where) ==
  [items |-> items, from |-> from, where |-> where, group |-> <<>>, having |-> <<>>, order |-> <<>>, limit |-> <<>>,
   distinct |-> FALSE]
FromT == FromTable("t", "", <<>>)
FromU == FromTable("u", "", <<>>)
ColA == Col("", "a")
ColB == Col("", "b")
ColC == Col("", "c")
ColD == Col("", "d")
\* Queries that read every column they need in an expression the pruning of
\* columns walks.
PrunableQueries == {
  Select(<<Out(ColA, ""), Out(ColD, "")>>, <<FromT, FromU>>, <<Both(Cmp("=", ColA, ColC), Cmp("=", ColB, Lit(Num(1))))>>),
  Select(<<>>, <<FromTable("t", "x", <<>>), FromTable("u", "y", <<>>)>>, <<Cmp("=", Col("y", "c"), Col("x", "a"))>>),
  Select(<<Out(ColA, ""), Out([k |-> "fn", name |-> "COALESCE", args |-> <<ColA, ColB>>], "y")>>, <<FromT, FromU>>,
         <<Cmp("<", ColA, ColC)>>),
  [Select(<<Out(ColB, ""), Out(Agg("COUNT", <<>>, FALSE), "x"), Out(Agg("SUM", <<ColA>>, FALSE), "")>>, <<FromT>>,
          <<Cmp(">=", ColA, Lit(Num(1)))>>)
    EXCEPT !.group = <<ColB>>, !.order = <<[e |-> ColB, asc |-> FALSE]>>, !.having = <<Cmp(">", Col("", "x"), Lit(Num(1)))>>],
  [Select(<<Out(ColA, "")>>, <<FromT>>,
          <<Either([k |-> "in", e |-> ColA, list |-> <<Lit(Num(2))>>, negated |-> FALSE],
                   [k |-> "like", e |-> ColB, pattern |-> Lit(Str("x")), negated |-> FALSE])>>)
    EXCEPT !.distinct = TRUE, !.limit = <<1>>],
  Select(<<Out([k |-> "arith", op |-> "+", l |-> Agg("COUNT", <<ColC>>, TRUE), r |-> Agg("MAX", <<ColD>>, FALSE)], "x")>>,
         <<FromT, FromU>>,
         <<Both([k |-> "not", e |-> Cmp("<>", ColC, ColA)],
                [k |-> "between", e |-> ColD, lo |-> Lit(Num(1)), hi |-> ColA, negated |-> FALSE])>>),
  [Select(<<Out([k |-> "case", operand |-> <<>>, conds |-> <<IsNullTest(ColA, FALSE)>>, results |-> <<Lit(Num(0))>>,
                 otherwise |-> <<ColA>>], "y"), Out(ColB, "")>>,
          <<FromTable("t", "x", <<[table |-> "u", alias |-> "y", kind |-> "inner", on |-> <<Cmp("=", Col("x", "a"), Col("y", "c"))>>]>>)>>,
          <<IsNullTest(ColA, TRUE)>>)
    EXCEPT !.order = <<[e |-> Col("", "y"), asc |-> TRUE], [e |-> ColB, asc |-> FALSE]>>]}
\* SELECT a FROM t WHERE b IS NULL, for the run that shows what pruning forgets.
NullTestQuery == {Select(<<Out(ColA, "")>>, <<FromT>>, <<IsNullTest(ColB, FALSE)>>)}
NullTables == {[t |-> x, u |-> <<>>] : x \in UpToTwo(RowsOf("a", {Num(1), Num(2)}, "b", {Null, Str("x")}))}

\* Catalogue: statements of two sessions on one name of each kind.
OnCube(o) == [op |-> o, name |-> "t"]
CreateCube(g) == [op |-> "createCube", name |-> "t", columns |-> <<"a", "b">>, sort |-> <<"a">>, part |-> <<>>,
                  dist |-> IF g THEN <<"b">> ELSE <<>>, guarded |-> g]
DdlStatements ==
  {CreateCube(TRUE), CreateCube(FALSE),
   [op |-> "webCreateCube", name |-> "t", columns |-> <<"a">>, sort |-> <<"a">>, part |-> "a", dist |-> "a"], OnCube("dropCube"), OnCube("addIndex"),
   [op |-> "addColumn", name |-> "t", column |-> "c"], [op |-> "dropColumn", name |-> "t", column |-> "a"],
   [op |-> "dropColumn", name |-> "t", column |-> "b"], [op |-> "modifyTtl", name |-> "t", days |-> 7],
   [op |-> "createDb", name |-> "d", guarded |-> TRUE], [op |-> "dropDb", name |-> "d"],
   [op |-> "createGroup", name |-> "g", buckets |-> 2], [op |-> "dropGroup", name |-> "g"],
   [op |-> "addMember", name |-> "g", cube |-> "t", buckets |-> 2], [op |-> "addMember", name |-> "g", cube |-> "u", buckets |-> 2],
   [op |-> "removeMember", name |-> "g", cube |-> "t"],
   [op |-> "createSmv", name |-> "m"], [op |-> "markMaterialized", name |-> "m"],
   [op |-> "updateProgress", name |-> "m", progress |-> 50], [op |-> "dropSmv", name |-> "m"],
   [op |-> "createView", name |-> "p", source |-> "t"], [op |-> "dropView", name |-> "p"],
   [op |-> "createExternal", name |-> "e"], [op |-> "dropExternal", name |-> "e"], [op |-> "refreshSchema", name |-> "e"],
   [op |-> "updateLeader"], [op |-> "allocate"]}
TabletHosts == <<1, 2, 3>>

\* MetadataCaches: a shard's replicas before and after a failover.
Replica(n, r, s, l) == [node |-> n, role |-> r, state |-> s, lsn |-> l]
ShardVersions ==
  <<<<Replica(n1, "Leader", "Normal", 2), Replica(n2, "Follower", "Normal", 1)>>,
    <<Replica(n1, "Leader", "Offline", 2), Replica(n2, "Follower", "Normal", 1)>>,
    <<Replica(n1, "Leader", "Offline", 2), Replica(n2, "Follower", "Offline", 1)>>>>

\* Planner: comparisons of the partition key and of another column.
PlanCol(c) == <<"col", c>>
PlanOp(o, a, b) == <<"op", o, a, b>>
PlanCmp(o, c, v) == PlanOp(o, PlanCol(c), <<"lit", v>>)
PlanFilters ==
  {PlanCmp(o, "pk", 2) : o \in {"=", "<>", "<", "<=", ">", ">="}}
    \cup {PlanCmp("=", "v", 1), PlanOp("and", PlanCmp(">", "pk", 1), PlanCmp("<", "pk", 3)),
          PlanOp("or", PlanCmp("=", "pk", 1), PlanCmp("=", "v", 1)), <<"isnull">>}
PlannedSelects ==
  {s \in [from : {"t"}, where : {<<>>} \cup {<<w>> : w \in PlanFilters}, groupBy : {<<>>, <<PlanCol("pk")>>},
          counts : BOOLEAN, limit : {<<>>, <<1>>}] : s.limit # <<>> => s.groupBy = <<>> /\ ~s.counts}
PlannedJoins ==
  {[plan |-> <<"join", <<"scan", "t", <<>>, <<>>>>, <<"scan", "u", <<>>, <<>>>>, j>>] : j \in {"Inner", "Cross", "Full"}}
PlanRow(pk, v) == [pk |-> pk, v |-> v]
PlanRows == {PlanRow(1, 1), PlanRow(2, 1), PlanRow(3, 1), PlanRow(2, 2)}
PlanTables ==
  {[t |-> x, u |-> y] : x \in {<<>>} \cup [1 .. 1 -> PlanRows] \cup [1 .. 2 -> PlanRows],
                        y \in {<<>>, <<PlanRow(2, 1)>>, <<PlanRow(1, 1), PlanRow(2, 1)>>}}
CnList == <<"c1", "c2">>
HomeOf == [s \in {1, 2, 3} |-> IF s = 3 THEN "n2" ELSE "n1"]
PlacementList == <<"n1", "n2", "n3">>

\* Routing: an event query, a hybrid one, a function, a subquery, a UNION of
\* two scans of one table, and a query without FROM.
WordQueries ==
  {<<"SELECT", "event_time", "FROM", "e1", "WHERE", "event_name">>, <<"SELECT", "session_id", "event_time", "FROM", "e1">>,
   <<"SELECT", "FUNNEL_COUNT", "FROM", "e2", "WHERE", "event_time">>,
   <<"SELECT", "session_id", "FROM", "(", "SELECT", "event_time", "FROM", "e1", ")">>,
   <<"SELECT", "session_start", "FROM", "e1", "UNION", "SELECT", "session_end", "FROM", "e1">>, <<"SELECT", "session_id">>}

\* Analytics: days around the end of a February with 29 days.
EventDays == {<<2024, 2, 29>>, <<2024, 3, 1>>, <<2024, 3, 20>>}
TwoSteps == <<"A", "B">>
PathQueries ==
  {[start |-> "", end |-> "B", depth |-> 2, gap |-> 1], [start |-> "A", end |-> "", depth |-> 3, gap |-> 0]}

\* Exchange: i64::MIN is -1, which a NULL key becomes.
LeastInt == -1
KeyChoices == {<<>>, <<1>>, <<-1>>}
TwoAndOne == {<<2, 1>>}
KeyRanges == {<<2, 3>>}
NullRow(i) == [id |-> i, key |-> <<>>, val |-> <<>>]
NullRows == <<<<NullRow(1), NullRow(2)>>, <<NullRow(3)>>>>

\* CubeDdl: column names that contain a keyword; sort keys that are allowed,
\* too long, too wide, or hold a JSON column; every order of the clauses.
DdlColumn(n, t, encoding) == [name |-> n, type |-> t, nullable |-> encoding # <<>>, encoding |-> encoding]
Varchar(n) == <<"VARCHAR", "(", n, ")">>
ColumnLists ==
  {<<DdlColumn(<<"ts">>, <<"DATETIME">>, <<>>), DdlColumn(<<"dev">>, Varchar("64"), <<"DICT">>), DdlColumn(<<"p">>, <<"JSON">>, <<>>)>>,
   <<DdlColumn(<<"ts">>, <<"BIGINT">>, <<>>), DdlColumn(<<"AUTO", "_id">>, <<"INT">>, <<>>), DdlColumn(<<"dev">>, Varchar("128"), <<>>),
     DdlColumn(<<"p">>, <<"VARCHAR">>, <<>>)>>,
   <<DdlColumn(<<"ts">>, <<"BIGINT">>, <<>>), DdlColumn(<<"n_", "BUCKETS">>, <<"INT">>, <<>>), DdlColumn(<<"dev">>, Varchar("32"), <<>>),
     DdlColumn(<<"p">>, Varchar("64"), <<>>), DdlColumn(<<"PROPERTIES">>, <<"JSON">>, <<>>)>>}
OrderClause(parens, columns) == [on |-> "order", parens |-> parens, columns |-> columns]
ClauseChoices ==
  {[on |-> "partition", column |-> <<"ts">>, granularity |-> "", auto |-> FALSE],
   [on |-> "partition", column |-> <<"ts">>, granularity |-> "DAY", auto |-> TRUE],
   OrderClause(TRUE, <<<<"dev">>, <<"ts">>>>), OrderClause(FALSE, <<<<"dev">>, <<"p">>>>), OrderClause(TRUE, [i \in 1 .. 5 |-> <<"ts">>]),
   [on |-> "distribution", columns |-> <<<<"dev">>, <<"ts">>>>, buckets |-> "32"],
   [on |-> "distribution", columns |-> <<<<"dev">>>>, buckets |-> ""],
   [on |-> "properties", pairs |-> <<<<<<"k">>, <<"v">>>>, <<<<"l">>, <<"w">>>>>>]}
ClauseLists == UNION {{c \in [1 .. n -> ClauseChoices] : Cardinality({c[i].on : i \in 1 .. n}) = n} : n \in 0 .. 4}
AlterActions ==
  {[do |-> "addColumn", column |-> DdlColumn(<<"x">>, Varchar("32"), e)] : e \in {<<>>, <<"DICT">>}}
    \cup {[do |-> "dropColumn", name |-> <<"x">>], [do |-> "dropIndex", name |-> <<"i">>], [do |-> "modifyTtl", days |-> "32"]}
    \cup {[do |-> "addIndex", name |-> <<"i">>, columns |-> <<<<"a">>, <<"b">>>>, type |-> t] : t \in {"BITMAP", "BLOOM", "MINMAX"}}
CubeNames == {<<"ev">>, <<"my_", "CUBE">>}
WrittenStatements ==
  {[kind |-> "create", name |-> <<"ev">>, ifNotExists |-> Len(c) = 2, columns |-> cs, clauses |-> c] : cs \in ColumnLists, c \in ClauseLists}
    \cup {[kind |-> "alter", name |-> n, action |-> a] : n \in CubeNames, a \in AlterActions}
    \cup {[kind |-> "drop", name |-> n, ifExists |-> b] : n \in CubeNames, b \in BOOLEAN}
Numerals == [x \in {"32", "64", "128"} |-> CASE x = "32" -> 32 [] x = "64" -> 64 [] OTHER -> 128]

-------------------------------------------------------------------------------
Components == {"query", "select", "catalogue", "caches", "planner", "routing", "admission", "analytics", "exchange", "ddl"}
Others(c) ==
  /\ c # "query" => UNCHANGED queryVars
  /\ c # "select" => UNCHANGED selectVars
  /\ c # "catalogue" => UNCHANGED catalogVars
  /\ c # "caches" => UNCHANGED cacheVars
  /\ c # "planner" => UNCHANGED plannerVars
  /\ c # "routing" => UNCHANGED routingVars
  /\ c # "admission" => UNCHANGED admissionVars
  /\ c # "analytics" => UNCHANGED analyticsVars
  /\ c # "exchange" => UNCHANGED exchangeVars
  /\ c # "ddl" => UNCHANGED cubeDdlVars
  /\ UNCHANGED service
First(S) == CHOOSE x \in S : TRUE
\* A component that takes no step starts in one of its initial states only.
MCInit ==
  /\ service \in Components
  /\ service # "query" => conf = [sn |-> {}, cn |-> FALSE]
  /\ service # "select" => memTables = First(Databases) /\ query = First(Queries)
  /\ service # "caches" => which = "shard"
  /\ service # "planner" => planning = "placement"
  /\ service # "admission" => admitting = "queries"
  /\ service # "analytics" => pathDef = First(PathDefs)
  /\ service # "exchange" => xPlan = [work |-> "sort", n |-> 2, range |-> First(FilterRanges)] /\ xInput = NullRows
  /\ service # "ddl" => written = [kind |-> "drop", name |-> <<"ev">>, ifExists |-> FALSE]
  /\ QueryInit /\ SelectInit /\ CatalogInit /\ CachesInit /\ PlannerInit /\ RoutingInit /\ AdmissionInit
  /\ AnalyticsInit /\ ExchangeInit /\ CubeDdlInit
MCNext ==
  \/ service = "query" /\ QueryNext /\ Others("query")
  \/ service = "select" /\ SelectNext /\ Others("select")
  \/ service = "catalogue" /\ CatalogNext /\ Others("catalogue")
  \/ service = "caches" /\ CachesNext /\ Others("caches")
  \/ service = "planner" /\ PlannerNext /\ Others("planner")
  \/ service = "routing" /\ RoutingNext /\ Others("routing")
  \/ service = "admission" /\ AdmissionNext /\ Others("admission")
  \/ service = "analytics" /\ AnalyticsNext /\ Others("analytics")
  \/ service = "exchange" /\ ExchangeNext /\ Others("exchange")
  \/ service = "ddl" /\ CubeDdlNext /\ Others("ddl")
MCVars ==
  <<service, queryVars, selectVars, catalogVars, cacheVars, plannerVars, routingVars, admissionVars, analyticsVars, exchangeVars,
    cubeDdlVars>>
MCSpec == MCInit /\ [][MCNext]_MCVars
\* Connections, sessions, callers and clients are the same two model values,
\* which every component treats alike.
Symmetry == Permutations(Connections)
SelectSpec == service = "select" /\ MCInit /\ [][MCNext]_MCVars

-------------------------------------------------------------------------------
\* DDL does what it says: a CUBE statement is parsed into what was written
\* (CubeDdl), and the statements of several sessions leave a catalogue that is
\* well formed and shown as it is, in which statements that do not overlap on
\* an object acted one after the other (Catalogue).
DdlSound == CubeDdlExact /\ CatalogSound
==============================================================================
