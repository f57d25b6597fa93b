------------------------------ MODULE Catalogue ------------------------------
(***************************************************************************)
(* Catalogue statements of a query node: databases and cubes               *)
(* (mysql_protocol/handler.rs, meta/cube.rs, meta/alter_cube.rs), tablets  *)
(* (meta/tablet.rs), colocate groups (meta/colocate.rs), session views     *)
(* (session_mv/manager.rs), pre-aggregated views (meta/preagg_mv.rs) and   *)
(* external tables (meta/external_table.rs).  All are values of the        *)
(* replicated key-value store.  A statement reads it, decides, and writes  *)
(* in a later step: other sessions run in between, and no statement checks *)
(* that what it read is still there when it writes.                        *)
(*                                                                         *)
(* The store of one node is modelled; MetaStore has its replication.       *)
(***************************************************************************)
EXTENDS Integers, Sequences, FiniteSets, FiniteSetsExt, SequencesExt

CONSTANTS
  Sessions,
  Statements,    \* statements a session may issue (records with a field op)
  MaxStatements, \* bound on statements
  MaxCubeIds,    \* bound on cubes ever created
  SnNodes,       \* available_nodes of allocate_for_cube, a sequence
  Replication,
  BucketCount

VARIABLES
  catalog,     \* the store: key -> value
  nextCube,    \* fresh cube ids (UUIDs)
  session,     \* session -> [stmt, key, todo]: steps the statement still has to take
  wanted,      \* what the acknowledged statements amount to: key -> abstract value
  raced,       \* keys on which two statements overlapped
  issuedCount  \* statements issued

catalogVars == <<catalog, nextCube, session, wanted, raced, issuedCount>>

IdleSession == [stmt |-> [op |-> "none"], key |-> <<>>, todo |-> <<>>]
Without(f, k) == [x \in DOMAIN f \ {k} |-> f[x]]
With(f, k, v) == [x \in DOMAIN f \union {k} |-> IF x = k THEN v ELSE f[x]]

-------------------------------------------------------------------------------
(* CubeManager: list and get_by_name.  Names are not unique; the first of   *)
(* the list is the one with the least id, and ids are random.               *)

CubeKeys == {k \in DOMAIN catalog : k[1] = "cube"}
CubesNamed(name) == {k \in CubeKeys : catalog[k].name = name}

ColumnSet(schema) == ToSet(schema.columns)

\* What a step of a statement writes; "check" is drop_cube's second look.
Put(v) == [do |-> "put", value |-> v]
Delete == [do |-> "delete", value |-> <<>>]
Check == [do |-> "check", value |-> <<>>]

-------------------------------------------------------------------------------
(* Each statement reads keys and either ends at once (<<>>) or has steps.   *)

\* stmt_to_schema: without PARTITION BY the first column, without DISTRIBUTED
\* BY the empty name (and four buckets).
StmtToSchema(s) ==
  [name |-> s.name, columns |-> s.columns, sort |-> s.sort, ttl |-> 0,
   part |-> IF s.part = <<>> THEN s.columns[1] ELSE s.part[1],
   dist |-> IF s.dist = <<>> THEN "" ELSE s.dist[1]]

\* CREATE CUBE [IF NOT EXISTS]: the existence test of CubeManager::create is
\* by the fresh id and never fails.
CreateCubeSteps(s) ==
  IF s.guarded /\ CubesNamed(s.name) # {} THEN {}
  ELSE {<<<<"cube", nextCube>>, <<Put(StmtToSchema(s))>>>>}

\* create_cube of the web interface takes the keys as they are given.
WebCreateCubeSteps(s) ==
  {<<<<"cube", nextCube>>,
     <<Put([name |-> s.name, columns |-> s.columns, sort |-> s.sort, ttl |-> 0, part |-> s.part, dist |-> s.dist])>>>>}

DropCubeSteps(s) == {<<k, <<Check, Delete>>>> : k \in CubesNamed(s.name)}

\* Columns are not checked.
MutAlterCubeSteps(s) ==
  {<<k, <<Put(CASE s.op = "addColumn" -> [catalog[k] EXCEPT !.columns = Append(@, s.column)]
                [] s.op = "dropColumn" -> [catalog[k] EXCEPT !.columns = SelectSeq(@, LAMBDA c : c # s.column)]
                [] s.op = "modifyTtl" -> [catalog[k] EXCEPT !.ttl = s.days])>>>> :
     k \in {c \in CubesNamed(s.name) : s.op # "addIndex"}}

\* AlterCubeHandler::execute; index statements write nothing.
AlterCubeSteps(s) ==
  LET add(v) == [v EXCEPT !.columns = Append(@, s.column)]
      drop(v) == [v EXCEPT !.columns = SelectSeq(@, LAMBDA c : c # s.column)]
      allowed(v) == CASE s.op = "addColumn" -> s.column \notin ColumnSet(v)
                      [] s.op = "dropColumn" -> s.column \in ColumnSet(v) /\ s.column \notin ToSet(v.sort)
                      [] OTHER -> TRUE IN
  {<<k, <<Put(CASE s.op = "addColumn" -> add(catalog[k])
                [] s.op = "dropColumn" -> drop(catalog[k])
                [] s.op = "modifyTtl" -> [catalog[k] EXCEPT !.ttl = s.days])>>>> :
     k \in {c \in CubesNamed(s.name) : s.op # "addIndex" /\ allowed(catalog[c])}}

\* CREATE DATABASE writes unless IF NOT EXISTS finds it; DROP DATABASE needs it.
DatabaseSteps(s) ==
  LET k == <<"db", s.name>> IN
  CASE s.op = "createDb" -> IF s.guarded /\ k \in DOMAIN catalog THEN {} ELSE {<<k, <<Put([made |-> TRUE])>>>>}
    [] s.op = "dropDb" -> IF k \in DOMAIN catalog THEN {<<k, <<Delete>>>>} ELSE {}

Regroup(g, members) == [g EXCEPT !.members = members, !.stable = Cardinality(members) >= 2]
ColocateSteps(s) ==
  LET k == <<"group", s.name>> IN
  CASE s.op = "createGroup" ->
         IF k \in DOMAIN catalog \/ s.buckets = 0 THEN {}
         ELSE {<<k, <<Put([buckets |-> s.buckets, members |-> {}, stable |-> FALSE])>>>>}
    [] k \notin DOMAIN catalog -> {}
    [] s.op = "dropGroup" /\ k \in DOMAIN catalog ->
         IF catalog[k].members # {} THEN {} ELSE {<<k, <<Delete>>>>}
    [] s.op = "addMember" /\ k \in DOMAIN catalog ->
         IF s.buckets # catalog[k].buckets THEN {}
         ELSE {<<k, <<Put(Regroup(catalog[k], catalog[k].members \union {s.cube}))>>>>}
    [] s.op = "removeMember" /\ k \in DOMAIN catalog ->
         {<<k, <<Put(Regroup(catalog[k], catalog[k].members \ {s.cube}))>>>>}

\* SmvManager: drop writes the status Dropped and then deletes the key.
SmvSteps(s) ==
  LET k == <<"smv", s.name>>
      live == k \in DOMAIN catalog IN
  CASE s.op = "createSmv" ->
         IF live /\ catalog[k].status # "Dropped" THEN {}
         ELSE {<<k, <<Put([status |-> "Creating", progress |-> 0])>>>>}
    [] ~live -> {}
    [] s.op = "markMaterialized" /\ live -> {<<k, <<Put([status |-> "Active", progress |-> 100])>>>>}
    [] s.op = "updateProgress" /\ live -> {<<k, <<Put([catalog[k] EXCEPT !.progress = s.progress])>>>>}
    [] s.op = "dropSmv" /\ live -> {<<k, <<Put([catalog[k] EXCEPT !.status = "Dropped"]), Delete>>>>}

\* Pre-aggregated views: create refuses a name in use, drop does not look.
PreaggSteps(s) ==
  LET k == <<"preagg_mv", s.name>> IN
  CASE s.op = "dropView" -> {<<k, <<Delete>>>>}
    [] k \in DOMAIN catalog -> {}
    [] OTHER -> {<<k, <<Put([source |-> s.source])>>>>}

\* External tables; both create and drop look first.
ExternalSteps(s) ==
  LET k == <<"external", s.name>> IN
  CASE s.op = "createExternal" /\ k \notin DOMAIN catalog -> {<<k, <<Put([refreshed |-> FALSE])>>>>}
    [] s.op = "dropExternal" /\ k \in DOMAIN catalog -> {<<k, <<Delete>>>>}
    [] OTHER -> {}

\* refresh_schema reads the table, stamps it and writes it back.
RefreshSchemaSteps(s) ==
  LET k == <<"external", s.name>> IN
  IF k \in DOMAIN catalog THEN {<<k, <<Put([refreshed |-> TRUE])>>>>} ELSE {}

\* TabletManager: allocate_for_cube places one tablet per bucket, round
\* robin; update_leader rewrites one.
TabletNodes(bucket) ==
  LET n == Len(SnNodes)
      rep == Min({Replication, n})
      start == (bucket * rep) % n IN
  [i \in 1 .. rep |-> SnNodes[((start + i - 1) % n) + 1]]
TabletKey(cube, bucket) == <<"tablet", cube, bucket>>
NewTablet(bucket) == [bucket |-> bucket, nodes |-> TabletNodes(bucket), leader |-> TabletNodes(bucket)[1]]
UpdateLeaderSteps(s) ==
  {<<k, <<Put([catalog[k] EXCEPT !.leader = n])>>>> :
     <<k, n>> \in {x \in (DOMAIN catalog) \X ToSet(SnNodes) : x[1][1] = "tablet" /\ x[2] \in ToSet(catalog[x[1]].nodes)}}

Steps(s) ==
  CASE s.op \in {"createCube", "webCreateCube"} /\ nextCube > MaxCubeIds -> {}
    [] s.op = "createCube" -> CreateCubeSteps(s)
    [] s.op = "webCreateCube" -> WebCreateCubeSteps(s)
    [] s.op = "dropCube" -> DropCubeSteps(s)
    [] s.op \in {"addColumn", "dropColumn", "modifyTtl", "addIndex"} -> AlterCubeSteps(s)
    [] s.op \in {"createDb", "dropDb"} -> DatabaseSteps(s)
    [] s.op \in {"createGroup", "dropGroup", "addMember", "removeMember"} -> ColocateSteps(s)
    [] s.op \in {"createSmv", "markMaterialized", "updateProgress", "dropSmv"} -> SmvSteps(s)
    [] s.op \in {"createView", "dropView"} -> PreaggSteps(s)
    [] s.op \in {"createExternal", "dropExternal"} -> ExternalSteps(s)
    [] s.op = "refreshSchema" -> RefreshSchemaSteps(s)
    [] s.op = "updateLeader" -> UpdateLeaderSteps(s)
    [] s.op = "allocate" -> {}

-------------------------------------------------------------------------------
(* The effect a statement promises, on what the earlier ones amount to.     *)

Abstract(k, v) ==
  CASE k[1] = "cube" -> [columns |-> ToSet(v.columns), ttl |-> v.ttl]
    [] k[1] = "group" -> [members |-> v.members]
    [] OTHER -> v

Promised(s, old, v) ==
  CASE s.op = "addColumn" -> [old EXCEPT !.columns = @ \union {s.column}]
    [] s.op = "dropColumn" -> [old EXCEPT !.columns = @ \ {s.column}]
    [] s.op = "modifyTtl" -> [old EXCEPT !.ttl = s.days]
    [] s.op = "addMember" -> [old EXCEPT !.members = @ \union {s.cube}]
    [] s.op = "removeMember" -> [old EXCEPT !.members = @ \ {s.cube}]
    [] s.op = "updateProgress" -> [old EXCEPT !.progress = s.progress]
    [] s.op \in {"createCube", "webCreateCube"} -> [columns |-> ToSet(s.columns), ttl |-> 0]
    [] OTHER -> v

-------------------------------------------------------------------------------
Overlaps(c, k) == \E d \in Sessions \ {c} : session[d].todo # <<>> /\ session[d].key = k

\* A session issues a statement and reads what it decides on.
IssueStatement(c, s) ==
  /\ session[c] = IdleSession /\ issuedCount < MaxStatements
  /\ issuedCount' = issuedCount + 1
  /\ IF Steps(s) = {} THEN UNCHANGED <<session, raced, nextCube>>
     ELSE \E step \in Steps(s) :
            /\ session' = [session EXCEPT ![c] = [stmt |-> s, key |-> step[1], todo |-> step[2]]]
            /\ raced' = IF Overlaps(c, step[1]) THEN raced \union {step[1]} ELSE raced
            /\ nextCube' = IF s.op \in {"createCube", "webCreateCube"} THEN nextCube + 1 ELSE nextCube
  /\ UNCHANGED <<catalog, wanted>>

\* allocate_for_cube: one write for each bucket, without a read.
IssueAllocate(c, k) ==
  /\ session[c] = IdleSession /\ issuedCount < MaxStatements
  /\ [op |-> "allocate"] \in Statements
  /\ k \in CubeKeys /\ TabletKey(k[2], 0) \notin DOMAIN catalog
  /\ \A d \in Sessions : session[d].stmt.op # "allocate"
  /\ issuedCount' = issuedCount + 1
  /\ session' = [session EXCEPT ![c] = [stmt |-> [op |-> "allocate"], key |-> k,
                   todo |-> [b \in 1 .. BucketCount |-> Put(NewTablet(b - 1))]]]
  /\ UNCHANGED <<catalog, nextCube, wanted, raced>>

TargetKey(c) ==
  IF session[c].stmt.op = "allocate" THEN TabletKey(session[c].key[2], Head(session[c].todo).value.bucket)
  ELSE session[c].key

\* The next step of a statement: a write that succeeds ...
StatementStep(c) ==
  /\ session[c].todo # <<>>
  /\ LET s == session[c].stmt
         k == TargetKey(c)
         step == Head(session[c].todo)
         rest == Tail(session[c].todo) IN
     IF step.do = "check" /\ k \notin DOMAIN catalog
     THEN session' = [session EXCEPT ![c] = IdleSession] /\ UNCHANGED <<catalog, wanted>>
     ELSE /\ catalog' = CASE step.do = "put" -> With(catalog, k, step.value)
                          [] step.do = "delete" -> Without(catalog, k)
                          [] step.do = "check" -> catalog
          /\ wanted' = CASE step.do = "put" ->
                              With(wanted, k, IF k \in DOMAIN wanted THEN Promised(s, wanted[k], Abstract(k, step.value))
                                              ELSE Abstract(k, step.value))
                         [] step.do = "delete" -> Without(wanted, k)
                         [] step.do = "check" -> wanted
          /\ session' = [session EXCEPT ![c] = IF rest = <<>> THEN IdleSession ELSE [@ EXCEPT !.todo = rest]]
  /\ UNCHANGED <<nextCube, raced, issuedCount>>

\* ... or fails, which ends the statement with an error.
StatementFails(c) ==
  /\ session[c].todo # <<>> /\ Head(session[c].todo).do # "check"
  /\ session' = [session EXCEPT ![c] = IdleSession]
  /\ UNCHANGED <<catalog, nextCube, wanted, raced, issuedCount>>

-------------------------------------------------------------------------------
(* schema_cmds.rs: each statement answers from one read of the store, so an *)
(* answer is a function of the state.                                       *)

ShowTables == {catalog[k].name : k \in CubeKeys}
ShowDatabases == {"default", "information_schema"} \union {k[2] : k \in {x \in DOMAIN catalog : x[1] = "db"}}
ShowCubes == {<<catalog[k].name, catalog[k].part, catalog[k].dist>> : k \in CubeKeys}
InformationTables == {<<catalog[k].name, "BASE TABLE">> : k \in CubeKeys}
InformationColumns == {<<catalog[k].name, i, catalog[k].columns[i]>> : <<k, i>> \in
                         {x \in CubeKeys \X (1 .. 4) : x[2] \in DOMAIN catalog[x[1]].columns}}

\* The statements about one cube: the rows for the cube get_by_name finds (any
\* of that name), and none, a note or an error if there is none.
OfCube(name, rows(_)) == {rows(catalog[k]) : k \in CubesNamed(name)}
DescribeTable(name) == OfCube(name, LAMBDA v : v.columns)
ShowCreateTable(name) == OfCube(name, LAMBDA v : [columns |-> v.columns, dist |-> v.dist])
\* The sort key as PRIMARY, numbered in order, then the distribution column;
\* no column of a stored cube has a skipping index.
ShowIndex(name) ==
  OfCube(name, LAMBDA v : [i \in DOMAIN v.sort |-> [key |-> "PRIMARY", seq |-> i, column |-> v.sort[i]]]
                            \o <<[key |-> "DISTRIBUTED", seq |-> 1, column |-> v.dist]>>)
\* GET /api/cubes/:name of the web interface
GetCube(name) == OfCube(name, LAMBDA v : [columns |-> v.columns, sort |-> v.sort, dist |-> v.dist])
AnalyzeTable(name) == CubesNamed(name) # {}

\* check_colocate: the stable groups both cubes are members of; the first of
\* the list is reported.
CheckColocate(a, b) ==
  {k[2] : k \in {x \in DOMAIN catalog : x[1] = "group" /\ catalog[x].stable /\ {a, b} \subseteq catalog[x].members}}

CatalogInit ==
  /\ catalog = << >> /\ nextCube = 1
  /\ session = [c \in Sessions |-> IdleSession]
  /\ wanted = << >> /\ raced = {} /\ issuedCount = 0

CatalogNext ==
  \/ \E c \in Sessions, s \in Statements : IssueStatement(c, s)
  \/ \E c \in Sessions, k \in CubeKeys : IssueAllocate(c, k)
  \/ \E c \in Sessions : StatementStep(c) \/ StatementFails(c)

-------------------------------------------------------------------------------
Tablets(cube) == {catalog[k] : k \in {x \in DOMAIN catalog : x[1] = "tablet" /\ x[2] = cube}}
Load(cube, n) == Cardinality({t \in Tablets(cube) : n \in ToSet(t.nodes)})

\* The parts of CatalogSound, below.
CatalogWellFormed ==
  /\ \A k \in CubeKeys : /\ ToSet(catalog[k].sort) \subseteq ToSet(catalog[k].columns)
                         /\ Cardinality(ToSet(catalog[k].columns)) = Len(catalog[k].columns)
  /\ \A k \in DOMAIN catalog : k[1] = "group" => catalog[k].stable = (Cardinality(catalog[k].members) >= 2)
  /\ \A cube \in {k[2] : k \in {x \in DOMAIN catalog : x[1] = "tablet"}} :
       /\ \A t \in Tablets(cube) : /\ Cardinality(ToSet(t.nodes)) = Len(t.nodes)
                                   /\ t.leader \in ToSet(t.nodes)
       /\ \A m, n \in ToSet(SnNodes) : Load(cube, m) - Load(cube, n) <= 1
SerialStatements ==
  \A k \in (DOMAIN catalog \union DOMAIN wanted) \ raced :
    /\ k \in DOMAIN catalog /\ k \in DOMAIN wanted
    /\ Abstract(k, catalog[k]) = wanted[k]
AnswersSound ==
  /\ raced = {} =>
       /\ {x[3] : x \in InformationColumns} = UNION {wanted[k].columns : k \in {x \in DOMAIN wanted : x[1] = "cube"}}
       /\ ShowDatabases \ {"default", "information_schema"} = {k[2] : k \in {x \in DOMAIN wanted : x[1] = "db"}}
       /\ CheckColocate("t", "u") = {k[2] : k \in {x \in DOMAIN wanted : x[1] = "group" /\ {"t", "u"} \subseteq wanted[x].members}}
  /\ \A name \in ShowTables :
       /\ AnalyzeTable(name) /\ <<name, "BASE TABLE">> \in InformationTables
       /\ DescribeTable(name) = {d.columns : d \in ShowCreateTable(name)}
       /\ \A v \in GetCube(name) : ToSet(v.sort) \subseteq ToSet(v.columns) /\ v.columns \in DescribeTable(name)
       /\ \A rows \in ShowIndex(name) :
            \E d \in ShowCreateTable(name), c \in ShowCubes :
              /\ {rows[i].column : i \in 1 .. Len(rows) - 1} \subseteq ToSet(d.columns)
              /\ c[1] = name /\ rows[Len(rows)].column = d.dist /\ c[3] = d.dist

\* In every interleaving of sessions, lost updates included, what the store
\* holds is well formed: a cube keeps its sort-key columns (DROP COLUMN
\* refuses them) and has no column twice, a colocate group is stable exactly
\* when it has two members, and the replicas of a tablet are on distinct
\* nodes, led by one of them, spread over the nodes so that no two differ by
\* more than one replica.  And statements that do not overlap on an object act
\* as if each were atomic: the object is what the acknowledged statements, one
\* after the other, make of it, and SHOW, information_schema and the test for
\* a colocate join say so.  For every table SHOW TABLES lists the statements
\* about it agree with one another: SHOW INDEX has the sort key among the
\* columns DESCRIBE shows and the distribution column of SHOW CREATE TABLE,
\* which DROP COLUMN, alone of the two, may have removed.
CatalogSound == CatalogWellFormed /\ SerialStatements /\ AnswersSound
==============================================================================
