------------------------------- MODULE CubeDdl -------------------------------
(***************************************************************************)
(* The parser of CREATE, ALTER and DROP CUBE (sql_parser/cube_ddl.rs).  It *)
(* searches the text for keywords wherever they stand, so a statement is a *)
(* sequence of pieces of text: keywords, parts of names, punctuation and   *)
(* " ".  Pieces with no " " between them are glued: a name that contains   *)
(* a keyword is <<"AUTO", "_id">>.  Upper and lower case, quotes and ";"   *)
(* are left out.  Texts written by `StatementText' from a statement record are     *)
(* parsed back.                                                            *)
(***************************************************************************)
EXTENDS Naturals, Sequences, FiniteSets

CONSTANTS
  CubeStatements,   \* statement records, see StatementText
  NumberOf          \* pieces that are numbers |-> their values

VARIABLES written, parsed

cubeDdlVars == <<written, parsed>>

NoText == <<>>
LeastOf(S) == CHOOSE i \in S : \A j \in S : i <= j

-------------------------------------------------------------------------------
(* Text utilities.                                                          *)

\* str::find: where k begins in s, 0 if it does not occur.
Find(s, k) ==
  LET at == {i \in 1 .. Len(s) - Len(k) + 1 : \A j \in 1 .. Len(k) : s[i + j - 1] = k[j]}
  IN IF at = {} THEN 0 ELSE LeastOf(at)
Has(s, k) == Find(s, k) > 0
TextFrom(s, i) == SubSeq(s, i, Len(s))
Trim(s) ==
  LET solid == {i \in DOMAIN s : s[i] # " "}
      hi == CHOOSE i \in solid : \A j \in solid : i >= j
  IN IF solid = {} THEN NoText ELSE SubSeq(s, LeastOf(solid), hi)
SplitAt(s, cuts) ==
  LET bounds == cuts \union {0, Len(s) + 1}
      Bound(k) == CHOOSE b \in bounds : Cardinality({d \in bounds : d < b}) = k
  IN [k \in 1 .. Cardinality(cuts) + 1 |-> SubSeq(s, Bound(k - 1) + 1, Bound(k) - 1)]
NonEmpty(texts) == SelectSeq(texts, LAMBDA t : t # NoText)
Trimmed(texts) == NonEmpty([i \in DOMAIN texts |-> Trim(texts[i])])
SplitWhitespace(s) == NonEmpty(SplitAt(s, {i \in DOMAIN s : s[i] = " "}))
SplitCommas(s) == Trimmed(SplitAt(s, {i \in DOMAIN s : s[i] = ","}))
Depth(s, i) == Cardinality({j \in 1 .. i : s[j] = "("}) - Cardinality({j \in 1 .. i : s[j] = ")"})

ExtractTokenAfter(s, keyword) ==
  LET words == SplitWhitespace(TextFrom(s, Find(s, keyword) + Len(keyword)))
  IN IF ~Has(s, keyword) \/ words = <<>> THEN NoText ELSE words[1]
ExtractAfterPattern(s, pattern) == TextFrom(s, Find(s, pattern) + Len(pattern))
\* Where the first top-level parenthesis closes, 0 if there is none.
SkipPastFirstTopLevelParen(s) ==
  LET closes == {i \in DOMAIN s : s[i] = ")" /\ Depth(s, i) = 0}
  IN IF closes = {} THEN 0 ELSE LeastOf(closes)
ExtractFirstParenBlock(s) ==
  SubSeq(s, Find(s, <<"(">>) + 1, SkipPastFirstTopLevelParen(s) - 1)
ExtractBetween(s, open, close) ==
  LET rest == TextFrom(s, Find(s, open) + Len(open))
  IN IF ~Has(s, open) \/ ~Has(rest, close) THEN NoText ELSE SubSeq(rest, 1, Find(rest, close) - 1)
SplitTopLevelCommas(s) == Trimmed(SplitAt(s, {i \in DOMAIN s : s[i] = "," /\ Depth(s, i) = 0}))
ParseNumber(t, default) == IF Len(t) = 1 /\ t[1] \in DOMAIN NumberOf THEN NumberOf[t[1]] ELSE default

-------------------------------------------------------------------------------
(* The sort key.                                                            *)

\* The length of VARCHAR(n) or CHAR(n), 0 if the type has none.
ExtractVarcharLen(type) ==
  IF Len(type) = 4 /\ type[1] \in {"VARCHAR", "CHAR"} /\ type[2] = "(" /\ type[4] = ")"
  THEN ParseNumber(<<type[3]>>, 0) ELSE 0
MutSortKeySerializedSize(type) ==
  CASE type[1] \in {"DATETIME", "TIMESTAMP"} -> 8
    [] type[1] = "DATE" -> 4
    [] type \in {<<"BIGINT">>, <<"DOUBLE">>} -> 8
    [] type \in {<<"INT">>, <<"FLOAT">>} -> 4
    [] type = <<"SMALLINT">> -> 2
    [] type \in {<<"TINYINT">>, <<"BOOLEAN">>} -> 1
    [] OTHER -> 8
SortKeySerializedSize(type) ==
  CASE type[1] \in {"DATETIME", "TIMESTAMP"} -> 8
    [] type[1] = "DATE" -> 4
    [] type \in {<<"BIGINT">>, <<"DOUBLE">>} -> 8
    [] type \in {<<"INT">>, <<"FLOAT">>} -> 4
    [] type = <<"SMALLINT">> -> 2
    [] type \in {<<"TINYINT">>, <<"BOOLEAN">>} -> 1
    [] ExtractVarcharLen(type) > 0 -> 1 + (IF ExtractVarcharLen(type) < 64 THEN ExtractVarcharLen(type) ELSE 64)
    [] type[1] \in {"VARCHAR", "STRING", "TEXT"} /\ ExtractVarcharLen(type) = 0 -> 65
    [] OTHER -> 8

\* The type a column was last declared with; a name that is not declared
\* passes as an unknown type.
TypeOf(name, columns) ==
  LET at == {i \in DOMAIN columns : columns[i].name = name}
  IN IF at = {} THEN <<"UNKNOWN">> ELSE columns[CHOOSE i \in at : \A j \in at : j <= i].type
ValidateSortKey(orderBy, columns) ==
  LET Total[i \in 0 .. Len(orderBy)] ==
        IF i = 0 THEN 0 ELSE Total[i - 1] + SortKeySerializedSize(TypeOf(orderBy[i], columns))
  IN /\ Len(orderBy) <= 4
     /\ \A i \in DOMAIN orderBy : TypeOf(orderBy[i], columns)[1] # "JSON"
     /\ Total[Len(orderBy)] <= 128

-------------------------------------------------------------------------------
(* The clauses of CREATE CUBE.                                              *)

IsColumnDef(s) == Len(SplitWhitespace(s)) >= 2
ParseSingleColumnDef(s) ==
  LET parts == SplitWhitespace(s)
  IN [name |-> parts[1], type |-> parts[2],
      nullable |-> ~Has(s, <<"NOT", " ", "NULL">>),
      encoding |-> ExtractBetween(s, <<"ENCODING", "(">>, <<")">>)]
ParseColumnDefs(s) ==
  LET items == SelectSeq(SplitTopLevelCommas(ExtractFirstParenBlock(s)), IsColumnDef)
  IN [i \in DOMAIN items |-> ParseSingleColumnDef(items[i])]
\* <<>> is None, here and below.
ParsePartitionBy(s) ==
  IF ~Has(s, <<"PARTITION", " ", "BY">>) THEN <<>>
  ELSE <<[column |-> Trim(ExtractBetween(s, <<"RANGE", "(">>, <<")">>)),
          granularity |-> CASE Has(s, <<"INTERVAL", " ", "DAY">>) -> "DAY"
                            [] Has(s, <<"INTERVAL", " ", "YEAR">>) -> "YEAR"
                            [] OTHER -> "MONTH",
          auto |-> Has(s, <<"AUTO">>)]>>
\* Without parentheses the list ends at the first of these keywords that
\* occurs at all.
OrderByEnd(rest) ==
  LET Ends == <<"DISTRIBUTED", "COLOCATE", "STORAGE", "TTL", "PROPERTIES">>
      found == {i \in DOMAIN Ends : Has(rest, <<Ends[i]>>)}
  IN IF found = {} THEN Len(rest) ELSE Find(rest, <<Ends[LeastOf(found)]>>) - 1
ParseOrderBy(s) ==
  LET rest == Trim(ExtractAfterPattern(s, <<"ORDER", " ", "BY">>))
  IN CASE ~Has(s, <<"ORDER", " ", "BY">>) -> <<>>
       [] rest # NoText /\ rest[1] = "(" -> SplitCommas(ExtractFirstParenBlock(rest))
       [] OTHER -> SplitCommas(SubSeq(rest, 1, OrderByEnd(rest)))
ParseDistribution(s) ==
  IF ~Has(s, <<"DISTRIBUTED", " ", "BY", " ", "HASH">>) \/ ~Has(s, <<"HASH", "(">>) THEN <<>>
  ELSE <<[columns |-> SplitCommas(ExtractBetween(s, <<"HASH", "(">>, <<")">>)),
          buckets |-> ParseNumber(ExtractTokenAfter(s, <<"BUCKETS">>), 64)]>>
ParseProperties(s) ==
  LET after == TextFrom(s, SkipPastFirstTopLevelParen(s) + 1)
      items == SelectSeq(SplitCommas(ExtractFirstParenBlock(TextFrom(after, Find(after, <<"PROPERTIES">>)))),
                         LAMBDA t : Find(t, <<"=">>) > 1)
  IN IF ~Has(after, <<"PROPERTIES">>) THEN <<>>
     ELSE [i \in DOMAIN items |-> LET eq == Find(items[i], <<"=">>) IN
             <<Trim(SubSeq(items[i], 1, eq - 1)), Trim(TextFrom(items[i], eq + 1))>>]

ParseCreateCubeFull(s) ==
  LET ifNotExists == Has(s, <<"IF", " ", "NOT", " ", "EXISTS">>)
      name == ExtractTokenAfter(s, <<IF ifNotExists THEN "EXISTS" ELSE "CUBE">>)
      columns == ParseColumnDefs(s)
      orderBy == ParseOrderBy(s)
  IN IF name = NoText \/ ~ValidateSortKey(orderBy, columns) THEN [ok |-> FALSE]
     ELSE [ok |-> TRUE, name |-> name, ifNotExists |-> ifNotExists, columns |-> columns,
           partitionBy |-> ParsePartitionBy(s), orderBy |-> orderBy,
           distribution |-> ParseDistribution(s), properties |-> ParseProperties(s)]

-------------------------------------------------------------------------------
(* ALTER CUBE and DROP CUBE.                                                *)

ParseAddIndex(rest) ==
  [do |-> "addIndex", name |-> SplitWhitespace(rest)[1],
   columns |-> SplitCommas(ExtractBetween(rest, <<"(">>, <<")">>)),
   type |-> CASE Has(rest, <<"USING", " ", "BITMAP">>) -> "BITMAP"
              [] Has(rest, <<"USING", " ", "BLOOM">>) -> "BLOOM"
              [] OTHER -> "MINMAX"]
ParseModifyTtl(s) ==
  LET words == SplitWhitespace(ExtractAfterPattern(s, <<"TTL">>))
  IN [do |-> "modifyTtl", days |-> IF words = <<>> THEN 0 ELSE ParseNumber(words[1], 0)]
AlterAction(s) ==
  CASE Has(s, <<"ADD", " ", "COLUMN">>) ->
         [do |-> "addColumn", column |-> ParseSingleColumnDef(ExtractAfterPattern(s, <<"ADD", " ", "COLUMN">>))]
    [] Has(s, <<"DROP", " ", "COLUMN">>) -> [do |-> "dropColumn", name |-> ExtractTokenAfter(s, <<"COLUMN">>)]
    [] Has(s, <<"ADD", " ", "INDEX">>) -> ParseAddIndex(ExtractAfterPattern(s, <<"ADD", " ", "INDEX">>))
    [] Has(s, <<"DROP", " ", "INDEX">>) -> [do |-> "dropIndex", name |-> ExtractTokenAfter(s, <<"INDEX">>)]
    [] Has(s, <<"MODIFY", " ", "TTL">>) -> ParseModifyTtl(s)
    [] OTHER -> [do |-> "unknown"]
ParseAlterCube(s) ==
  [ok |-> AlterAction(s).do # "unknown", name |-> ExtractTokenAfter(s, <<"CUBE">>), action |-> AlterAction(s)]
ParseDropCube(s) ==
  LET ifExists == Has(s, <<"IF", " ", "EXISTS">>)
  IN [ok |-> TRUE, ifExists |-> ifExists,
      name |-> ExtractTokenAfter(s, <<IF ifExists THEN "EXISTS" ELSE "CUBE">>)]

-------------------------------------------------------------------------------
(* Statements as they are written.  A statement is one of                   *)
(*   [kind |-> "create", name, ifNotExists, columns, clauses]               *)
(*   [kind |-> "alter", name, action]                                       *)
(*   [kind |-> "drop", name, ifExists]                                      *)

Join(texts, by) ==
  LET Joined[i \in 0 .. Len(texts)] ==
        IF i = 0 THEN NoText ELSE IF i = 1 THEN texts[1] ELSE Joined[i - 1] \o by \o texts[i]
  IN Joined[Len(texts)]
Sentence(texts) == Join(NonEmpty(texts), <<" ">>)
List(texts) == Join(texts, <<",", " ">>)
InParens(t) == <<"(">> \o t \o <<")">>
ColumnText(c) ==
  Sentence(<<c.name, c.type, IF c.nullable THEN NoText ELSE <<"NOT", " ", "NULL">>,
             IF c.encoding = NoText THEN NoText ELSE <<"ENCODING">> \o InParens(c.encoding)>>)
ClauseText(c) ==
  CASE c.on = "partition" ->
         Sentence(<<<<"PARTITION", " ", "BY", " ", "RANGE">> \o InParens(c.column),
                    IF c.granularity = "" THEN NoText ELSE <<"INTERVAL", " ", c.granularity>>,
                    IF c.auto THEN <<"AUTO">> ELSE NoText>>)
    [] c.on = "order" ->
         <<"ORDER", " ", "BY", " ">> \o (IF c.parens THEN InParens(List(c.columns)) ELSE List(c.columns))
    [] c.on = "distribution" ->
         Sentence(<<<<"DISTRIBUTED", " ", "BY", " ", "HASH">> \o InParens(List(c.columns)),
                    IF c.buckets = "" THEN NoText ELSE <<"BUCKETS", " ", c.buckets>>>>)
    [] c.on = "properties" ->
         <<"PROPERTIES", " ">> \o InParens(List([i \in DOMAIN c.pairs |-> Sentence(<<c.pairs[i][1], <<"=">>, c.pairs[i][2]>>)]))
ActionText(a) ==
  CASE a.do = "addColumn" -> <<"ADD", " ", "COLUMN", " ">> \o ColumnText(a.column)
    [] a.do = "dropColumn" -> <<"DROP", " ", "COLUMN", " ">> \o a.name
    [] a.do = "addIndex" -> Sentence(<<<<"ADD", " ", "INDEX">>, a.name, InParens(List(a.columns)), <<"USING", " ", a.type>>>>)
    [] a.do = "dropIndex" -> <<"DROP", " ", "INDEX", " ">> \o a.name
    [] a.do = "modifyTtl" -> <<"MODIFY", " ", "TTL", " ", a.days, " ", "DAY">>
StatementText(w) ==
  CASE w.kind = "create" ->
         Sentence(<<<<"CREATE", " ", "CUBE">>, IF w.ifNotExists THEN <<"IF", " ", "NOT", " ", "EXISTS">> ELSE NoText, w.name,
                    InParens(List([i \in DOMAIN w.columns |-> ColumnText(w.columns[i])]))>>
                  \o [i \in DOMAIN w.clauses |-> ClauseText(w.clauses[i])])
    [] w.kind = "alter" -> Sentence(<<<<"ALTER", " ", "CUBE">>, w.name, ActionText(w.action)>>)
    [] w.kind = "drop" -> Sentence(<<<<"DROP", " ", "CUBE">>, IF w.ifExists THEN <<"IF", " ", "EXISTS">> ELSE NoText, w.name>>)

-------------------------------------------------------------------------------
NotParsed == [ok |-> FALSE, pending |-> TRUE]
CubeDdlInit == written \in CubeStatements /\ parsed = NotParsed
ParseStatement ==
  /\ parsed = NotParsed
  /\ parsed' = CASE written.kind = "create" -> ParseCreateCubeFull(StatementText(written))
                 [] written.kind = "alter" -> ParseAlterCube(StatementText(written))
                 [] written.kind = "drop" -> ParseDropCube(StatementText(written))
  /\ UNCHANGED written
CubeDdlNext == ParseStatement

-------------------------------------------------------------------------------
ClausesOn(on) == SelectSeq(written.clauses, LAMBDA c : c.on = on)
NamesHave(piece) == \E i \in DOMAIN written.columns : Has(written.columns[i].name, <<piece>>)
SortKeyBytes(orderBy, columns) ==
  LET Bytes(t) == CASE t[1] \in {"DATETIME", "BIGINT"} -> 8
                    [] t = <<"INT">> -> 4
                    [] t[1] = "VARCHAR" /\ Len(t) = 4 -> 1 + (IF NumberOf[t[3]] < 64 THEN NumberOf[t[3]] ELSE 64)
                    [] OTHER -> 65
      Sum[i \in 0 .. Len(orderBy)] ==
        IF i = 0 THEN 0
        ELSE Sum[i - 1] + Bytes((CHOOSE c \in {columns[j] : j \in DOMAIN columns} : c.name = orderBy[i]).type)
  IN Sum[Len(orderBy)]
\* A list of sort columns without parentheses is cut where it should be.
BareListEnds ==
  \A i \in DOMAIN written.clauses : written.clauses[i].on = "order" /\ ~written.clauses[i].parens =>
    LET later == {written.clauses[j].on : j \in i + 1 .. Len(written.clauses)} IN
    later = {} \/ written.clauses[i + 1].on = "distribution" \/ later = {"properties"}
CreateParsed ==
  LET part == ClausesOn("partition")
      order == ClausesOn("order")
      dist == ClausesOn("distribution")
      props == ClausesOn("properties")
  IN /\ parsed.name = written.name /\ parsed.ifNotExists = written.ifNotExists
     /\ parsed.columns = written.columns
     /\ parsed.partitionBy =
          [i \in DOMAIN part |->
             [column |-> part[i].column, granularity |-> IF part[i].granularity = "" THEN "MONTH" ELSE part[i].granularity,
              auto |-> part[i].auto \/ NamesHave("AUTO")]]
     /\ BareListEnds => parsed.orderBy = (IF order = <<>> THEN <<>> ELSE order[1].columns)
     /\ parsed.distribution =
          [i \in DOMAIN dist |->
             [columns |-> dist[i].columns,
              buckets |-> IF dist[i].buckets = "" \/ NamesHave("BUCKETS") THEN 64 ELSE NumberOf[dist[i].buckets]]]
     /\ parsed.properties = (IF props = <<>> THEN <<>> ELSE props[1].pairs)

\* A CUBE statement is parsed into what was written, whatever the order of its
\* clauses and though the parser looks for each keyword in the whole text:
\* with two exceptions, a column name containing AUTO turns automatic
\* partitions on, and one containing BUCKETS makes the bucket count 64.  A
\* CREATE CUBE is refused exactly when its sort key has more than 4 columns,
\* a JSON column or more than 128 bytes.
CubeDdlExact ==
  parsed # NotParsed =>
    CASE written.kind = "create" ->
           LET order == ClausesOn("order")
               key == IF order = <<>> THEN <<>> ELSE order[1].columns
           IN /\ BareListEnds =>
                   (parsed.ok <=> /\ Len(key) <= 4
                                  /\ \A c \in {written.columns[j] : j \in DOMAIN written.columns} :
                                       c.type = <<"JSON">> => \A i \in DOMAIN key : key[i] # c.name
                                  /\ SortKeyBytes(key, written.columns) <= 128)
              /\ parsed.ok => CreateParsed
      [] written.kind = "alter" ->
           /\ parsed.ok /\ parsed.name = written.name
           /\ parsed.action = (IF written.action.do = "modifyTtl"
                                THEN [written.action EXCEPT !.days = NumberOf[@]] ELSE written.action)
      [] written.kind = "drop" -> parsed.name = written.name /\ parsed.ifExists = written.ifExists
==============================================================================
