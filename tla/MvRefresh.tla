------------------------------ MODULE MvRefresh ------------------------------
(***************************************************************************)
(* The compute node's side of an ingested batch: rows become columns       *)
(* (RowToColumnar) and buckets (PartitionRouter) in                        *)
(* compute-node/src/ingestion.rs, and pre-aggregated views are kept up to  *)
(* date from them, incrementally or in full (compute-node/src/mv_refresh). *)
(* A JSON value is <<"num", n>>, <<"str", w>>, <<"bool", b>> or <<"null">>;*)
(* a row maps the columns it has to values.                                *)
(***************************************************************************)
EXTENDS Integers, Sequences, FiniteSets, FiniteSetsExt, SequencesExt

CONSTANTS
  LoadBatches,  \* the batches of rows that arrive
  MaxViewRows,  \* bound on the rows the views stand for
  ViewDefs,     \* the views there may be: name -> [group, column, func]
  LoadSchema,   \* sequence of [name, type, nullable]
  PartitionCol, LoadBuckets,
  ParseInt,     \* string -> <<n>> if it parses as an integer, else <<>>
  HashOf        \* value -> its hash

VARIABLES
  viewDef, \* the views of this behaviour
  views,   \* name -> group key -> aggregate state
  since,   \* ghost: the rows a view stands for
  loaded   \* the last batch converted: [rows, columns, buckets]

mvVars == <<viewDef, views, since, loaded>>

Cell(row, col) == IF col \in DOMAIN row THEN row[col] ELSE <<"null">>

-------------------------------------------------------------------------------
\* build_column for one cell: <<v>> pushes v, <<>> fails the whole batch.
OrNull(col) == IF col.nullable THEN <<<<"null">>>> ELSE <<>>
ColumnCell(col, v) ==
  CASE v[1] = "null" -> OrNull(col)
    [] col.type \in {"Int64", "Float64"} /\ v[1] = "num" -> <<v>>
    [] col.type = "Int64" /\ v[1] = "str" ->
         IF ParseInt[v[2]] # <<>> THEN <<<<"num", ParseInt[v[2]][1]>>>> ELSE OrNull(col)
    [] col.type = "Utf8" /\ v[1] = "bool" -> <<<<"str", IF v[2] THEN "true" ELSE "false">>>>
    [] col.type = "Utf8" /\ v[1] \in {"str", "num"} -> <<<<"str", v[2]>>>>
    [] col.type = "Boolean" /\ v[1] = "bool" -> <<v>>
    [] col.type = "Boolean" /\ v[1] = "num" -> <<<<"bool", v[2] # 0>>>>
    [] col.type = "Boolean" /\ v[1] = "str" -> OrNull(col)
    [] OTHER -> <<>>
BuildColumn(rows, col) == [i \in DOMAIN rows |-> ColumnCell(col, Cell(rows[i], col.name))]

\* convert: one array per column of the schema, or an error.
Convert(rows) ==
  LET columns == [j \in DOMAIN LoadSchema |-> BuildColumn(rows, LoadSchema[j])] IN
  IF rows = <<>> THEN <<<<>>>>
  ELSE IF \E j \in DOMAIN columns : <<>> \in ToSet(columns[j]) THEN <<>>
  ELSE <<[j \in DOMAIN columns |-> [i \in DOMAIN rows |-> columns[j][i][1]]]>>

\* route: the indices of each bucket's rows, in order.
ComputeBucket(row) == HashOf[Cell(row, PartitionCol)] % LoadBuckets
Route(rows) ==
  [b \in 0 .. LoadBuckets - 1 |->
     SelectSeq([i \in DOMAIN rows |-> i], LAMBDA i : ComputeBucket(rows[i]) = b)]

-------------------------------------------------------------------------------
\* AggState: initial, update and to_value.  A value that is not a number
\* counts as 0 in SUM, MIN, MAX and AVG, and COUNT counts every row.  <<>>
\* stands for f64::MAX and f64::MIN.
NumberIn(v) == IF v[1] = "num" THEN v[2] ELSE 0
Initial(func) ==
  CASE func \in {"Count", "Sum"} -> 0
    [] func \in {"Min", "Max"} -> <<>>
    [] func = "Avg" -> [sum |-> 0, count |-> 0]
    [] func = "CountDistinct" -> {}
Update(func, state, v) ==
  CASE func = "Count" -> state + 1
    [] func = "Sum" -> state + NumberIn(v)
    [] func = "Min" -> <<Min(ToSet(state) \union {NumberIn(v)})>>
    [] func = "Max" -> <<Max(ToSet(state) \union {NumberIn(v)})>>
    [] func = "Avg" -> [sum |-> state.sum + NumberIn(v), count |-> state.count + 1]
    [] func = "CountDistinct" -> state \union {v}

\* The rows are folded into the buckets one by one, by the JSON text of the
\* group column; a missing one has the key "NULL", not the text of a null.
ViewKey(row, col) == IF col \in DOMAIN row THEN row[col] ELSE <<"missing">>
AddRow(view, state, row) ==
  LET key == ViewKey(row, view.group)
      old == IF key \in DOMAIN state THEN state[key] ELSE Initial(view.func) IN
  [k \in DOMAIN state \union {key} |->
     IF k = key THEN Update(view.func, old, Cell(row, view.column)) ELSE state[k]]
AddRows(view, state, rows) == FoldLeft(LAMBDA acc, row : AddRow(view, acc, row), state, rows)

WithRow(f, k, v) == [x \in DOMAIN f \union {k} |-> IF x = k THEN v ELSE f[x]]
StateOf(name) == IF name \in DOMAIN views THEN views[name] ELSE << >>
RowsSince(name) == IF name \in DOMAIN since THEN since[name] ELSE <<>>

ApplyIncremental(name, rows) ==
  /\ views' = WithRow(views, name, AddRows(viewDef[name], StateOf(name), rows))
  /\ since' = WithRow(since, name, RowsSince(name) \o rows)
  /\ UNCHANGED <<viewDef, loaded>>
\* apply_full forgets the view's state first.
MutApplyFull(name, rows) ==
  /\ views' = WithRow(views, name, AddRows(viewDef[name], StateOf(name), rows))
  /\ since' = WithRow(since, name, rows)
  /\ UNCHANGED <<viewDef, loaded>>
ApplyFull(name, rows) ==
  /\ views' = WithRow(views, name, AddRows(viewDef[name], << >>, rows))
  /\ since' = WithRow(since, name, rows)
  /\ UNCHANGED <<viewDef, loaded>>
DropMv(name) ==
  /\ name \in DOMAIN views
  /\ views' = [v \in DOMAIN views \ {name} |-> views[v]]
  /\ since' = [v \in DOMAIN since \ {name} |-> since[v]]
  /\ UNCHANGED <<viewDef, loaded>>
LoadBatch(rows) ==
  /\ loaded' = [rows |-> rows, columns |-> Convert(rows), buckets |-> Route(rows)]
  /\ UNCHANGED <<viewDef, views, since>>

\* read_mv shows Min and Max of nothing as 0, and AVG as sum / count.
ToValue(func, state) ==
  CASE func \in {"Min", "Max"} -> IF state = <<>> THEN 0 ELSE state[1]
    [] func = "CountDistinct" -> Cardinality(state)
    [] OTHER -> state
ReadMv(name) ==
  {<<key, ToValue(viewDef[name].func, views[name][key])>> : key \in DOMAIN views[name]}

MvInit == viewDef \in ViewDefs /\ views = << >> /\ since = << >> /\ loaded = [rows |-> <<>>, columns |-> <<<<>>>>, buckets |-> Route(<<>>)]
MvNext ==
  \/ \E rows \in LoadBatches : LoadBatch(rows)
  \/ \E name \in DOMAIN viewDef : DropMv(name)
  \/ \E name \in DOMAIN viewDef, rows \in LoadBatches :
       /\ MapThenSumSet(LAMBDA v : Len(since[v]), DOMAIN since) + Len(rows) <= MaxViewRows
       /\ ApplyIncremental(name, rows) \/ ApplyFull(name, rows)

-------------------------------------------------------------------------------
\* What a query over the view's rows would answer, by group.
NumbersOf(rows, view, key) ==
  LET members == {i \in DOMAIN rows : ViewKey(rows[i], view.group) = key} IN
  [i \in members |-> Cell(rows[i], view.column)]
Aggregate(view, cells) ==
  CASE view.func = "Count" -> Cardinality(DOMAIN cells)
    [] view.func = "Sum" -> MapThenSumSet(LAMBDA i : NumberIn(cells[i]), DOMAIN cells)
    [] view.func = "Min" -> Min({NumberIn(cells[i]) : i \in DOMAIN cells})
    [] view.func = "Max" -> Max({NumberIn(cells[i]) : i \in DOMAIN cells})
    [] view.func = "Avg" -> [sum |-> MapThenSumSet(LAMBDA i : NumberIn(cells[i]), DOMAIN cells), count |-> Cardinality(DOMAIN cells)]
    [] view.func = "CountDistinct" -> Cardinality({cells[i] : i \in DOMAIN cells})

\* A view always reads as the aggregate of the rows it stands for, however they
\* were split into incremental and full refreshes; a batch that loads has every
\* row at its own index of every column and in exactly one bucket.
IngestedExact ==
  /\ \A name \in DOMAIN views :
       ReadMv(name) = {<<key, Aggregate(viewDef[name], NumbersOf(since[name], viewDef[name], key))>> :
                         key \in {ViewKey(since[name][i], viewDef[name].group) : i \in DOMAIN since[name]}}
  /\ loaded.rows # <<>> /\ loaded.columns # <<>> =>
       \A j \in DOMAIN LoadSchema :
         /\ Len(loaded.columns[1][j]) = Len(loaded.rows)
         /\ \A i \in DOMAIN loaded.rows :
              loaded.columns[1][j][i] = <<"null">> => LoadSchema[j].nullable
  /\ \A i \in DOMAIN loaded.rows :
       Cardinality({b \in DOMAIN loaded.buckets : i \in ToSet(loaded.buckets[b])}) = 1
==============================================================================
