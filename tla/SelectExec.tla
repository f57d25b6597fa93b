------------------------------ MODULE SelectExec -----------------------------
(***************************************************************************)
(* Evaluation of one SELECT on the rows of MEM_STORE                       *)
(* (execute_select_sync, query-node/src/executor/select_exec.rs): scan,    *)
(* predicate pushdown and column projection, explicit and comma joins,     *)
(* WHERE, GROUP BY or projection, HAVING, ORDER BY, LIMIT.                 *)
(*                                                                         *)
(* A JSON value is <<"null">>, <<"num", n>>, <<"str", s>> or <<"bool", b>>;*)
(* numbers are integers, so a quotient is exact only where it divides.  A  *)
(* column key is <<col>> or <<alias, col>>, a row a function from keys to  *)
(* values.  Names are compared as they stand: letter case and back-quotes  *)
(* are left out.                                                           *)
(***************************************************************************)
EXTENDS Integers, Sequences, FiniteSets, SequencesExt

CONSTANTS
  Words,       \* the strings in use, in the order of str::cmp
  NumericWord, \* the words parse::<f64> accepts, and their value
  LikePairs,   \* the pairs of a word and a pattern it matches
  Databases,   \* contents of MEM_STORE: functions from table names to sequences of rows
  Queries      \* parsed SELECT statements

VARIABLES
  memTables,   \* MEM_STORE
  query,       \* the statement
  answerRows   \* the rows of the SelectResult, or <<"pending">>

selectVars == <<memTables, query, answerRows>>

\* The elements of a finite set in a strict total order on it (SetToSortSeq
\* enumerates the sequences over the set).
InOrder(S, Less(_, _)) ==
  [i \in 1 .. Cardinality(S) |-> CHOOSE x \in S : Cardinality({y \in S : Less(y, x)}) = i - 1]

-------------------------------------------------------------------------------
(* Values: json_eq, cmp_json, json_to_sort_str, EvalResult.                 *)

Null == <<"null">>
Num(n) == <<"num", n>>
Str(s) == <<"str", s>>
Bool(b) == <<"bool", b>>
IsNullValue(v) == v = Null

AsBool(v) == CASE v[1] = "bool" -> v[2]
               [] v[1] = "null" -> FALSE
               [] OTHER -> TRUE

\* as_f64: numbers, and strings that parse as one.
AsF64(v) == CASE v[1] = "num" -> {v[2]}
              [] v[1] = "str" -> IF v[2] \in DOMAIN NumericWord THEN {NumericWord[v[2]]} ELSE {}
              [] OTHER -> {}

JsonEq(a, b) ==
  IF {a[1], b[1]} = {"num", "str"} THEN AsF64(a) = AsF64(b) ELSE a = b

\* str::cmp.
WordRank(s) == CHOOSE i \in 1 .. Len(Words) : Words[i] = s

\* Values of one type by value, NULL first, otherwise by their JSON text: a
\* string begins with a quote, a number with a digit, a boolean with a letter.
TypeRank == [null |-> 0, str |-> 1, num |-> 2, bool |-> 3]
JsonRank(v) == CASE v[1] = "null" -> 0
                 [] v[1] = "num" -> v[2]
                 [] v[1] = "str" -> WordRank(v[2])
                 [] v[1] = "bool" -> IF v[2] THEN 1 ELSE 0
CmpJson(a, b) == IF a[1] = b[1] THEN JsonRank(a) - JsonRank(b) ELSE TypeRank[a[1]] - TypeRank[b[1]]

\* json_to_sort_str: numeric strings become numbers, NULL the empty string.
SortKey(v) == CASE AsF64(v) # {} -> Num(CHOOSE n \in AsF64(v) : TRUE)
                [] v[1] = "bool" -> Str(IF v[2] THEN "true" ELSE "false")
                [] v[1] = "null" -> Str("")
                [] OTHER -> v

\* The order of those keys as strings: "" first, then digits, then letters.
SortKeyLess(a, b) ==
  LET rank(k) == IF k = Str("") THEN <<0, 0>> ELSE IF k[1] = "num" THEN <<1, k[2]>> ELSE <<2, WordRank(k[2])>> IN
  rank(a)[1] < rank(b)[1] \/ (rank(a)[1] = rank(b)[1] /\ rank(a)[2] < rank(b)[2])

\* json_to_str of a string or of NULL.
JsonText(v) == IF v[1] = "str" THEN v[2] ELSE ""

-------------------------------------------------------------------------------
(* Expressions: records with a field k for the kind.  A column has a        *)
(* qualifier q ("" for none) and a name c.                                  *)

Arith(op, x, y) ==
  CASE op = "+" -> x + y
    [] op = "-" -> x - y
    [] op = "*" -> x * y
    [] op = "/" -> IF y = 0 THEN 0 ELSE x \div y

\* numeric_op: NULL unless both are numbers.
NumericOp(op, a, b) ==
  IF AsF64(a) = {} \/ AsF64(b) = {} THEN Null
  ELSE Num(Arith(op, CHOOSE n \in AsF64(a) : TRUE, CHOOSE n \in AsF64(b) : TRUE))

Compare(op, a, b) ==
  CASE op = "="  -> JsonEq(a, b)
    [] op = "<>" -> ~JsonEq(a, b)
    [] op = "<"  -> CmpJson(a, b) < 0
    [] op = "<=" -> CmpJson(a, b) <= 0
    [] op = ">"  -> CmpJson(a, b) > 0
    [] op = ">=" -> CmpJson(a, b) >= 0

Lookup(row, key) == IF key \in DOMAIN row THEN row[key] ELSE Null

EvalColumn(e, row) ==
  IF e.q # "" /\ <<e.q, e.c>> \in DOMAIN row THEN row[<<e.q, e.c>>] ELSE Lookup(row, <<e.c>>)

\* The sub-expressions of an expression, in order.
Parts(e) ==
  CASE e.k \in {"not", "neg", "isnull"} -> <<e.e>>
    [] e.k \in {"cmp", "arith", "and", "or"} -> <<e.l, e.r>>
    [] e.k = "in" -> <<e.e>> \o e.list
    [] e.k = "like" -> <<e.e, e.pattern>>
    [] e.k = "between" -> <<e.e, e.lo, e.hi>>
    [] e.k \in {"fn", "agg"} -> e.args
    [] e.k = "case" -> e.operand \o e.conds \o e.results \o e.otherwise
    [] OTHER -> <<>>

Earliest(S) == CHOOSE i \in S : \A j \in S : i <= j

\* COALESCE and IF of the arguments' values; a function it does not know
\* gives NULL.
EvalFunction(name, v) ==
  LET given == {i \in DOMAIN v : ~IsNullValue(v[i])} IN
  CASE name = "COALESCE" /\ given # {} -> v[Earliest(given)]
    [] name = "IF" /\ Len(v) >= 3 -> IF AsBool(v[1]) THEN v[2] ELSE v[3]
    [] OTHER -> Null

\* CASE: the first branch whose condition holds, or equals the operand.
EvalCase(e, v) ==
  LET at == Len(e.operand)
      hits == {i \in DOMAIN e.conds : IF at = 0 THEN AsBool(v[i]) ELSE JsonEq(v[at + i], v[1])} IN
  CASE hits # {} -> v[at + Len(e.conds) + Earliest(hits)]
    [] hits = {} /\ e.otherwise # <<>> -> v[Len(v)]
    [] OTHER -> Null

RECURSIVE EvalExpr(_, _)

\* eval_expr; v holds the values of the sub-expressions.
EvalExpr(e, row) ==
  LET v == [i \in DOMAIN Parts(e) |-> EvalExpr(Parts(e)[i], row)] IN
  CASE e.k = "col"     -> EvalColumn(e, row)
    [] e.k = "val"     -> e.v
    [] e.k = "not"     -> Bool(~AsBool(v[1]))
    [] e.k = "neg"     -> NumericOp("-", Num(0), v[1])
    [] e.k = "cmp"     -> Bool(Compare(e.op, v[1], v[2]))
    [] e.k = "arith"   -> NumericOp(e.op, v[1], v[2])
    [] e.k = "and"     -> Bool(AsBool(v[1]) /\ AsBool(v[2]))
    [] e.k = "or"      -> Bool(AsBool(v[1]) \/ AsBool(v[2]))
    [] e.k = "isnull"  -> Bool(IsNullValue(v[1]) # e.negated)
    [] e.k = "in"      -> Bool((\E i \in 2 .. Len(v) : JsonEq(v[1], v[i])) # e.negated)
    [] e.k = "between" -> Bool((CmpJson(v[1], v[2]) >= 0 /\ CmpJson(v[1], v[3]) <= 0) # e.negated)
    [] e.k = "like"    -> Bool((<<JsonText(v[1]), JsonText(v[2])>> \in LikePairs) # e.negated)
    [] e.k = "fn"      -> EvalFunction(e.name, v)
    [] e.k = "case"    -> EvalCase(e, v)
    [] OTHER           -> Null

RECURSIVE ExprCols(_)

\* collect_expr_cols: IS [NOT] NULL is not walked into.
ExprCols(e) ==
  CASE e.k = "col" -> {e.c}
    [] e.k = "isnull" -> {}
    [] OTHER -> UNION {ExprCols(Parts(e)[i]) : i \in DOMAIN Parts(e)}

RECURSIVE Conjuncts(_)

\* split_and_conjuncts.
Conjuncts(e) == IF e.k = "and" THEN Conjuncts(e.l) \o Conjuncts(e.r) ELSE <<e>>

\* extract_eq_conditions: the col = col conjuncts, by unqualified name.
EqConditions(e) ==
  LET eqs == SelectSeq(Conjuncts(e), LAMBDA x : x.k = "cmp" /\ x.op = "=" /\ x.l.k = "col" /\ x.r.k = "col") IN
  [i \in DOMAIN eqs |-> <<eqs[i].l.c, eqs[i].r.c>>]

-------------------------------------------------------------------------------
(* Pushdown, projection and joins.  WHERE is a sequence of at most one      *)
(* expression.                                                              *)

KeyName(key) == key[Len(key)]
Columns(rows) == IF rows = <<>> THEN {} ELSE DOMAIN rows[1]
Passes(row, exprs) == \A e \in exprs : AsBool(EvalExpr(e, row))

MutApplyPartialWhere(rows, where) ==
  LET ready == {e \in ToSet(Conjuncts(where[1])) : \E c \in ExprCols(e) : \E k \in Columns(rows) : KeyName(k) = c} IN
  IF rows = <<>> \/ where = <<>> THEN rows ELSE SelectSeq(rows, LAMBDA r : Passes(r, ready))

\* apply_partial_where: the conjuncts all of whose columns the first row has.
ApplyPartialWhere(rows, where) ==
  LET ready == {e \in ToSet(Conjuncts(where[1])) :
                  ExprCols(e) # {} /\ \A c \in ExprCols(e) : \E k \in Columns(rows) : KeyName(k) = c} IN
  IF rows = <<>> \/ where = <<>> THEN rows ELSE SelectSeq(rows, LAMBDA r : Passes(r, ready))

\* collect_query_needed_cols, {} when there is a wildcard; the columns of ON
\* are not among them.
NeededCols(q) ==
  LET exprs == {q.items[i].e : i \in DOMAIN q.items} \cup ToSet(q.where) \cup ToSet(q.group)
               \cup {q.order[i].e : i \in DOMAIN q.order} \cup ToSet(q.having) IN
  IF q.items = <<>> THEN {} ELSE UNION {ExprCols(e) : e \in exprs}

\* project_to_needed_cols: the keys to keep are chosen from the first row.
ProjectToNeeded(rows, needed) ==
  LET keep == {k \in Columns(rows) : KeyName(k) \in needed} IN
  IF needed = {} \/ keep = {} THEN rows
  ELSE [i \in DOMAIN rows |-> [k \in DOMAIN rows[i] \cap keep |-> rows[i][k]]]

Prune(rows, q) == ProjectToNeeded(ApplyPartialWhere(rows, q.where), NeededCols(q))

\* A left value wins over a right one of the same name; with an alias the
\* right columns are also there under alias.col.
Merge(left, right, alias) ==
  LET aliased == IF alias = "" THEN {} ELSE {<<alias, KeyName(k)>> : k \in DOMAIN right} IN
  [k \in DOMAIN left \cup DOMAIN right \cup aliased |->
     IF k \in aliased THEN right[<<KeyName(k)>>] ELSE IF k \in DOMAIN left THEN left[k] ELSE right[k]]

Aliased(rows, alias) ==
  IF alias = "" THEN rows ELSE [i \in DOMAIN rows |-> Merge(rows[i], rows[i], alias)]

\* apply_joins for one join: a LEFT JOIN keeps unmatched left rows, every
\* other kind is an inner join, without ON a cross join.
ApplyJoin(rows, join) ==
  LET right == memTables[join.table]
      matches(l) == SelectSeq([i \in DOMAIN right |-> Merge(l, right[i], join.alias)],
                              LAMBDA m : Passes(m, ToSet(join.on)))
      outer(l) == IF join.kind = "left" /\ matches(l) = <<>> THEN <<l>> ELSE matches(l) IN
  FlattenSeq([i \in DOMAIN rows |-> outer(rows[i])])

ApplyJoins(rows, joins) == FoldLeft(ApplyJoin, rows, joins)

\* hash_join_tables: an index on the right column by sort string, probed with
\* the left; a right row without the column is not indexed, a left row
\* without it probes with "".
HashJoin(rows, right, lc, rc, alias) ==
  LET hits(l) == SelectSeq(right, LAMBDA r : <<rc>> \in DOMAIN r /\ SortKey(r[<<rc>>]) = SortKey(Lookup(l, <<lc>>))) IN
  FlattenSeq([i \in DOMAIN rows |-> [j \in DOMAIN hits(rows[i]) |-> Merge(rows[i], hits(rows[i])[j], alias)]])

CrossJoin(rows, right, alias) ==
  FlattenSeq([i \in DOMAIN rows |-> [j \in DOMAIN right |-> Merge(rows[i], right[j], alias)]])

\* The first col = col condition that links the rows so far and the new table.
CommaJoin(rows, from, q) ==
  LET right == memTables[from.table]
      eqs == IF q.where = <<>> THEN <<>> ELSE EqConditions(q.where[1])
      oriented == [i \in DOMAIN eqs |->
                     IF <<eqs[i][1]>> \in Columns(rows) /\ <<eqs[i][2]>> \in Columns(right) THEN eqs[i]
                     ELSE IF <<eqs[i][2]>> \in Columns(rows) /\ <<eqs[i][1]>> \in Columns(right)
                          THEN <<eqs[i][2], eqs[i][1]>> ELSE <<>>]
      keys == SelectSeq(oriented, LAMBDA k : k # <<>>) IN
  IF keys = <<>> THEN CrossJoin(rows, right, from.alias)
  ELSE HashJoin(rows, right, keys[1][1], keys[1][2], from.alias)

\* FROM: the first table with its joins, then the others one by one, pruned
\* after every step.
JoinedRows(q) ==
  LET first == q.from[1]
      base == Prune(Aliased(memTables[first.table], first.alias), q)
      withJoins(rows, from) == IF from.joins = <<>> THEN rows ELSE Prune(ApplyJoins(rows, from.joins), q)
      next(rows, from) == withJoins(Prune(CommaJoin(rows, from, q), q), from) IN
  FoldLeft(next, withJoins(base, first), Tail(q.from))

-------------------------------------------------------------------------------
(* Aggregation, projection, HAVING, ORDER BY, LIMIT.  An aggregate is       *)
(* [k |-> "agg", name, args, distinct], with no args for COUNT star.  An      *)
(* empty sequence of items stands for the wildcard.                         *)

Present(e, rows) == SelectSeq([i \in DOMAIN rows |-> EvalExpr(e, rows[i])], LAMBDA v : ~IsNullValue(v))
Numbers(e, rows) ==
  LET some == SelectSeq([i \in DOMAIN rows |-> AsF64(EvalExpr(e, rows[i]))], LAMBDA s : s # {}) IN
  [i \in DOMAIN some |-> CHOOSE n \in some[i] : TRUE]

\* eval_aggregate: COUNT skips NULL, the others anything that is no number;
\* over nothing they are NULL.  AVG is kept as sum and count.
EvalAggregate(e, rows) ==
  LET add(acc, n) == CASE acc = Null -> IF e.name = "AVG" THEN <<"avg", n, 1>> ELSE Num(n)
                       [] acc # Null /\ e.name = "SUM" -> Num(acc[2] + n)
                       [] acc # Null /\ e.name = "AVG" -> <<"avg", acc[2] + n, acc[3] + 1>>
                       [] acc # Null /\ e.name = "MIN" -> IF n < acc[2] THEN Num(n) ELSE acc
                       [] acc # Null /\ e.name = "MAX" -> IF n > acc[2] THEN Num(n) ELSE acc IN
  CASE e.name = "COUNT" /\ e.args = <<>> -> Num(Len(rows))
    [] e.name = "COUNT" /\ e.args # <<>> /\ e.distinct ->
         Num(Cardinality({SortKey(v) : v \in ToSet(Present(e.args[1], rows))}))
    [] e.name = "COUNT" /\ e.args # <<>> /\ ~e.distinct -> Num(Len(Present(e.args[1], rows)))
    [] OTHER -> FoldLeft(add, Null, Numbers(e.args[1], rows))

RECURSIVE ContainsAggregate(_)
ContainsAggregate(e) ==
  \/ e.k = "agg"
  \/ e.k = "arith" /\ (ContainsAggregate(e.l) \/ ContainsAggregate(e.r))
  \/ e.k \in {"not", "neg"} /\ ContainsAggregate(e.e)

RECURSIVE EvalAggregateExpr(_, _)

\* Arithmetic over aggregates; anything else is taken from the first row.
EvalAggregateExpr(e, rows) ==
  CASE e.k = "agg" -> EvalAggregate(e, rows)
    [] e.k = "arith" -> NumericOp(e.op, EvalAggregateExpr(e.l, rows), EvalAggregateExpr(e.r, rows))
    [] e.k = "val" -> e.v
    [] OTHER -> IF rows = <<>> THEN Null ELSE EvalExpr(e, rows[1])

\* Sort keys of a row under GROUP BY, in the order of the BTreeMap.
GroupKey(row, group) == [i \in DOMAIN group |-> SortKey(Lookup(row, <<group[i].c>>))]
GroupKeyLess(a, b) ==
  \E i \in DOMAIN a : SortKeyLess(a[i], b[i]) /\ \A j \in 1 .. i - 1 : a[j] = b[j]

\* execute_group_by: a column that is no aggregate comes from the first row
\* of the group.
ExecuteGroupBy(rows, q) ==
  LET keys == InOrder({GroupKey(rows[i], q.group) : i \in DOMAIN rows}, GroupKeyLess)
      members(key) == SelectSeq(rows, LAMBDA r : GroupKey(r, q.group) = key)
      cell(e, part) == CASE e.k = "agg" -> EvalAggregate(e, part)
                         [] e.k = "col" /\ <<e.c>> \notin DOMAIN part[1] /\ (\E i \in DOMAIN q.group : q.group[i].c = e.c) -> Str("")
                         [] OTHER -> Lookup(part[1], <<e.c>>) IN
  [i \in DOMAIN keys |-> [j \in DOMAIN q.items |-> cell(q.items[j].e, members(keys[i]))]]

\* The keys of a row in the order of str::cmp.
SortedKeys(row) ==
  LET less(a, b) == \/ WordRank(a[1]) < WordRank(b[1])
                    \/ a[1] = b[1] /\ WordRank(KeyName(a)) < WordRank(KeyName(b)) IN
  InOrder(DOMAIN row, less)

\* project_rows: one row when an item contains an aggregate; DISTINCT keeps
\* the first of equal rows.
ProjectRows(rows, q) ==
  LET cells(r) == IF q.items = <<>> THEN [i \in DOMAIN SortedKeys(r) |-> r[SortedKeys(r)[i]]]
                  ELSE [j \in DOMAIN q.items |-> EvalExpr(q.items[j].e, r)]
      all == [i \in DOMAIN rows |-> cells(rows[i])]
      first == {i \in DOMAIN all : \A j \in 1 .. i - 1 : all[j] # all[i]} IN
  CASE \E i \in DOMAIN q.items : ContainsAggregate(q.items[i].e) ->
         <<[j \in DOMAIN q.items |-> EvalAggregateExpr(q.items[j].e, rows)]>>
    [] q.distinct /\ ~\E i \in DOMAIN q.items : ContainsAggregate(q.items[i].e) ->
         LET at == InOrder(first, LAMBDA a, b : a < b) IN [i \in DOMAIN at |-> all[at[i]]]
    [] OTHER -> all

\* HAVING sees the result row under its column headers.
Header(q, j) == IF q.items[j].alias # "" THEN q.items[j].alias
                ELSE IF q.items[j].e.k = "col" THEN q.items[j].e.c ELSE q.items[j].e.name
HavingRow(row, q) ==
  [k \in {<<Header(q, j)>> : j \in DOMAIN q.items} |->
     row[CHOOSE j \in DOMAIN q.items : Header(q, j) = k[1] /\ \A i \in DOMAIN q.items : Header(q, i) = k[1] => i <= j]]

\* apply_order_by: stable sorts from the last key to the first, on a column
\* of the result, by position or by name; an unknown one is ignored.
StableSort(rows, j, asc) ==
  LET before(a, b) == LET c == CmpJson(rows[a][j], rows[b][j]) IN
                      IF c # 0 THEN (IF asc THEN c < 0 ELSE c > 0) ELSE a < b
      order == InOrder(DOMAIN rows, before) IN
  [i \in DOMAIN rows |-> rows[order[i]]]

ApplyOrderBy(rows, q) ==
  LET at(o) == {j \in DOMAIN q.items : Header(q, j) = o.e.c}
      sort(rs, o) == IF at(o) = {} THEN rs ELSE StableSort(rs, CHOOSE j \in at(o) : \A i \in at(o) : j <= i, o.asc) IN
  FoldLeft(sort, rows, Reverse(q.order))

\* The steps after FROM, on the joined rows, in their order.
FinalStep(rows, step, q) ==
  CASE step = "where" -> SelectSeq(rows, LAMBDA r : Passes(r, ToSet(q.where)))
    [] step = "project" -> IF q.group = <<>> THEN ProjectRows(rows, q) ELSE ExecuteGroupBy(rows, q)
    [] step = "having" -> SelectSeq(rows, LAMBDA r : Passes(HavingRow(r, q), ToSet(q.having)))
    [] step = "order" -> ApplyOrderBy(rows, q)
    [] step = "limit" -> IF q.limit = <<>> \/ q.limit[1] >= Len(rows) THEN rows ELSE SubSeq(rows, 1, q.limit[1])
Finalise(joined, q) ==
  FoldLeft(LAMBDA rows, step : FinalStep(rows, step, q), joined, <<"where", "project", "having", "order", "limit">>)

ExecuteSelectSync ==
  /\ answerRows = <<"pending">>
  /\ answerRows' = <<"rows", Finalise(JoinedRows(query), query)>>
  /\ UNCHANGED <<memTables, query>>

SelectInit ==
  /\ memTables \in Databases
  /\ query \in Queries
  /\ answerRows = <<"pending">>

SelectNext == ExecuteSelectSync

-------------------------------------------------------------------------------
(* Reference: every combination of rows of the tables in FROM, joined by    *)
(* their conditions, with nothing pruned.                                   *)

PlainRows(q) ==
  LET next(rows, from) == ApplyJoins(CrossJoin(rows, memTables[from.table], from.alias), from.joins)
      first == q.from[1] IN
  FoldLeft(next, ApplyJoins(Aliased(memTables[first.table], first.alias), first.joins), Tail(q.from))

\* Pushing conjuncts below the joins, dropping columns that are not needed
\* and joining by hash do not change the answer of a query: it is that of
\* the plain evaluation, row for row and in the same order.
PruningKeepsAnswer ==
  answerRows[1] = "rows" => answerRows[2] = Finalise(PlainRows(query), query)
==============================================================================
