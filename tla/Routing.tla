------------------------------- MODULE Routing -------------------------------
(***************************************************************************)
(* Behavioural routing on the query node: the registry of behavioural      *)
(* tables (meta/bt_registry.rs), the detection of behavioural queries      *)
(* (planner/behavioral_pattern.rs), their rewriting to an active           *)
(* behavioural table (behavioral_router.rs, behavioral_column_map.rs) or   *)
(* the guidance when there is none (behavioral_guidance.rs), what EXPLAIN  *)
(* says about it (explain.rs), and the handler's use of all this,          *)
(* CREATE SESSION MATERIALIZED VIEW and SHOW WARNINGS included             *)
(* (mysql_protocol/handler.rs).  A query is the sequence of its words.     *)
(***************************************************************************)
EXTENDS Integers, Sequences, FiniteSets, SequencesExt

CONSTANTS
  EventTables, BtNames, RoutedQueries,   \* queries: sequences of words
  DdlSessions,                           \* connections
  MaxRegistered, MaxWarnings             \* bounds: registry changes, pending warnings

VARIABLES
  registry,    \* pairs: event table -> sequence of [bt, state]
  creatingBt,  \* per connection: the CREATE SESSION MV between its two calls
  smvKeys,     \* the smv: keys in the Raft KV
  registered,  \* statements so far
  routing,     \* the last query, what ran, the table it was routed to, what EXPLAIN
               \* said, whether it was warned, the tables that name is active for
  warnings     \* pending_warnings of one connection, as a count

routingVars == <<registry, creatingBt, smvKeys, registered, routing, warnings>>

AnalyticsFunctions == {"FUNNEL_COUNT", "COHORT_ANALYSIS", "PATH_ANALYSIS"}
SessionColumns == {"session_id", "session_start", "session_end", "event_sequence",
                   "session_event_count", "session_timeout"}
EventColumns == {"event_name", "event_time", "event_type", "page_url", "referrer", "device_type", "browser", "country",
                 "ip_address", "revenue", "product_id"}

\* detect_pattern: an analytics function makes a query behavioural; session
\* columns alone do too, or make it hybrid next to columns of raw events.
DetectPattern(q) ==
  CASE ToSet(q) \intersect (AnalyticsFunctions \union SessionColumns) = {} -> "Event"
    [] ToSet(q) \intersect AnalyticsFunctions # {} -> "Behavioral"
    [] ToSet(q) \intersect EventColumns # {} -> "Hybrid"
    [] OTHER -> "Behavioral"

\* extract_scan_table: the word after the first FROM that opens no subquery.
FromAt(q) == {i \in 1 .. Len(q) - 1 : q[i] = "FROM" /\ q[i + 1] # "("}
FirstOf(S) == CHOOSE i \in S : \A j \in S : i <= j
ScanTable(q) == IF FromAt(q) = {} THEN "" ELSE q[FirstOf(FromAt(q)) + 1]

\* register replaces an entry of that name, get_active_bt takes the first.
EntryAt(table, bt) == {i \in DOMAIN registry[table] : registry[table][i].bt = bt}
ActiveAt(table) == IF table \in EventTables THEN {i \in DOMAIN registry[table] : registry[table][i].state = "Active"} ELSE {}
MutGetActiveBt(table) ==
  IF table \notin EventTables \/ registry[table] = <<>> THEN "" ELSE registry[table][1].bt
GetActiveBt(table) == IF ActiveAt(table) = {} THEN "" ELSE registry[table][FirstOf(ActiveAt(table))].bt

\* apply_column_mapping: the word event_time, wherever it stands.
ApplyColumnMapping(q) == [i \in DOMAIN q |-> IF q[i] = "event_time" THEN "session_start" ELSE q[i]]

\* rewrite_sql: replace_from_table changes the first FROM of that table and no
\* other, and the columns are mapped in the result.
RewriteSql(q, table, bt) ==
  LET at == {i \in FromAt(q) : q[i + 1] = table} IN
  ApplyColumnMapping([i \in DOMAIN q |-> IF i - 1 \in at /\ i - 1 = FirstOf(at) THEN bt ELSE q[i]])

-------------------------------------------------------------------------------
\* CREATE SESSION MATERIALIZED VIEW name ON table: the key, then register with
\* state Building, then, under a second lock, update_state to Active.
RegisterBt(c, bt, table) ==
  /\ creatingBt[c] = "" /\ registered < MaxRegistered /\ registered' = registered + 1
  /\ smvKeys' = smvKeys \union {bt}
  /\ registry' = [registry EXCEPT ![table] =
       IF EntryAt(table, bt) # {} THEN [@ EXCEPT ![FirstOf(EntryAt(table, bt))] = [bt |-> bt, state |-> "Building"]]
       ELSE Append(@, [bt |-> bt, state |-> "Building"])]
  /\ creatingBt' = [creatingBt EXCEPT ![c] = bt]
  /\ UNCHANGED <<routing, warnings>>
\* update_state changes the first entry of that name it meets in a hash map.
UpdateState(bt, state) ==
  \E table \in EventTables :
    /\ EntryAt(table, bt) # {}
    /\ registry' = [registry EXCEPT ![table][FirstOf(EntryAt(table, bt))].state = state]
MarkActive(c) ==
  /\ creatingBt[c] # "" /\ UpdateState(creatingBt[c], "Active")
  /\ creatingBt' = [creatingBt EXCEPT ![c] = ""]
  /\ UNCHANGED <<smvKeys, registered, routing, warnings>>
\* The handler takes any statement with these words for a CREATE: DROP SESSION
\* MATERIALIZED VIEW has no ON, so all it does is write the key.
DropSessionMv(bt) ==
  /\ registered < MaxRegistered /\ registered' = registered + 1
  /\ smvKeys' = smvKeys \union {bt}
  /\ UNCHANGED <<registry, creatingBt, routing, warnings>>
\* A refresh marks a table; nothing in the program calls it.
Refresh(bt, state) ==
  /\ registered < MaxRegistered /\ registered' = registered + 1
  /\ UpdateState(bt, state)
  /\ UNCHANGED <<creatingBt, smvKeys, routing, warnings>>

\* build_behavioral_routing_fragment: what EXPLAIN reports.
Explained(q) ==
  CASE DetectPattern(q) = "Event" -> "event"
    [] GetActiveBt(ScanTable(q)) # "" -> GetActiveBt(ScanTable(q))
    [] ScanTable(q) \in EventTables /\ registry[ScanTable(q)] # <<>> -> "fallback"
    [] OTHER -> "no table"
\* route: the behavioural table to use, or the guidance when a behavioural
\* query of some table has none.
Route(q) ==
  LET table == ScanTable(q)
      bt == IF DetectPattern(q) = "Event" \/ table = "" THEN "" ELSE GetActiveBt(table) IN
  [bt |-> bt, sql |-> IF bt = "" THEN q ELSE RewriteSql(q, table, bt),
   guidance |-> DetectPattern(q) # "Event" /\ table # "" /\ bt = ""]
\* The handler: the rewritten query runs, or the original one with the
\* guidance as a pending warning.
RouteQuery(q) ==
  LET bt == Route(q).bt
      warn == Route(q).guidance IN
  /\ routing' = [query |-> q, sql |-> Route(q).sql, bt |-> bt, explained |-> Explained(q), warned |-> warn,
                 owners |-> {t \in EventTables : \E i \in ActiveAt(t) : registry[t][i].bt = bt}]
  /\ warnings' = IF warn THEN warnings + 1 ELSE warnings
  /\ warnings' <= MaxWarnings
  /\ UNCHANGED <<registry, creatingBt, smvKeys, registered>>
ShowWarnings ==
  /\ warnings > 0 /\ warnings' = 0
  /\ UNCHANGED <<registry, creatingBt, smvKeys, registered, routing>>

RoutingInit ==
  /\ registry = [t \in EventTables |-> <<>>] /\ creatingBt = [c \in DdlSessions |-> ""] /\ smvKeys = {}
  /\ registered = 0 /\ warnings = 0
  /\ routing = [query |-> <<>>, sql |-> <<>>, bt |-> "", explained |-> "event", warned |-> FALSE, owners |-> {}]
RoutingNext ==
  \/ \E c \in DdlSessions : MarkActive(c) \/ \E bt \in BtNames, t \in EventTables : RegisterBt(c, bt, t)
  \/ \E bt \in BtNames : DropSessionMv(bt) \/ \E s \in {"Refreshing", "Stale"} : Refresh(bt, s)
  \/ \E q \in RoutedQueries : RouteQuery(q)
  \/ ShowWarnings

\* A routed query reads an active behavioural table of the table it named and
\* is otherwise the query that was sent: only that FROM and the event_time
\* columns changed, none of which is left when the query has one FROM.  A
\* query that is not behavioural, or whose table has none active, runs as sent,
\* in the second case with a warning; EXPLAIN announces just that.  And once
\* no CREATE is between its calls, only a refresh, or a name used for two
\* tables, leaves a behavioural table that is not active.
RoutedFaithfully ==
  LET r == routing IN
  /\ r.bt # "" =>
       /\ ScanTable(r.query) \in r.owners /\ DetectPattern(r.query) # "Event" /\ ~r.warned
       /\ Len(r.sql) = Len(r.query)
       /\ \A i \in DOMAIN r.sql : \/ r.sql[i] = r.query[i]
                                  \/ r.query[i] = "event_time" /\ r.sql[i] = "session_start"
                                  \/ r.query[i - 1] = "FROM" /\ r.query[i] = ScanTable(r.query) /\ r.sql[i] = r.bt
       /\ Cardinality(FromAt(r.query)) = 1 => ScanTable(r.sql) = r.bt
       /\ "event_time" \notin ToSet(r.sql)
  /\ r.bt = "" => r.sql = r.query /\ (r.warned <=> DetectPattern(r.query) # "Event" /\ ScanTable(r.query) # "")
  /\ r.bt # "" <=> r.explained \in BtNames
  /\ r.bt # "" => r.explained = r.bt
  /\ \A t \in EventTables : \A i \in DOMAIN registry[t] :
       \/ registry[t][i].state # "Building"
       \/ \E c \in DdlSessions : creatingBt[c] = registry[t][i].bt
       \/ \E u \in EventTables \ {t} : EntryAt(u, registry[t][i].bt) # {}
==============================================================================
