------------------------------- MODULE Exchange ------------------------------
(***************************************************************************)
(* Distributed operators of the compute nodes: two producers filter their  *)
(* batch, partition it by key (compute-node/src/shuffle.rs) and send the   *)
(* parts; every consumer works on the parts it receives, in the order of   *)
(* arrival, and the partial results are merged in any order.  The work is  *)
(* VectorizedGroupByAgg (executor/vectorized_agg.rs), the hash join        *)
(* (executor/simd/hash_join.rs) or sort and top_k (executor/sort.rs).      *)
(* No caller of these operators exists yet; the exchange is how their      *)
(* documentation composes them.                                            *)
(*                                                                         *)
(* A row is [id, key, val]; a nullable i64 is <<>> or <<v>>.               *)
(***************************************************************************)
EXTENDS Integers, Sequences, FiniteSets, FiniteSetsExt, SequencesExt

CONSTANTS
  IntMin,       \* i64::MIN
  RowKeys,      \* nullable keys of the rows
  RowCounts,    \* rows of the two producers, a set of pairs
  FilterRanges, \* range conditions on the rows' ids: pairs <<lo, hi>>
  PartitionCounts,
  TopK

VARIABLES
  xPlan,     \* [work, n, range]: "group", "partial", "join" or "sort", n_partitions, the filter
  xInput,    \* producer -> its batch
  xSent,     \* producers that have sent theirs
  xWire,     \* [from, to, batch] in flight
  xInbox,    \* consumer -> batches received, in order
  xPartial,  \* consumer -> <<>> or <<its result>>
  xResult    \* [merged, value, done]: consumers merged so far and the result

exchangeVars == <<xPlan, xInput, xSent, xWire, xInbox, xPartial, xResult>>

Producers == {1, 2}
Consumers == IF xPlan.work = "partial" THEN Producers ELSE 1 .. Max({xPlan.n, 1})

-------------------------------------------------------------------------------
(* simd/scan.rs, simd/filter.rs: a range condition gives the positions of   *)
(* the rows, or a bit for each; apply_selection takes them.                 *)

Selected(batch, lo, hi) == {i \in DOMAIN batch : batch[i].id >= lo /\ batch[i].id <= hi}
ApplySelection(batch, positions) ==
  [i \in 1 .. Cardinality(positions) |->
     batch[CHOOSE p \in positions : Cardinality({q \in positions : q < p}) = i - 1]]

\* shuffle.rs: partition_batch.
UnsignedAbs(k) == IF k < 0 THEN -k ELSE k
MutPartitionOf(row, n) == IF n = 0 THEN 1 ELSE IF row.key = <<>> THEN 1 ELSE (row.id % n) + 1
PartitionOf(row, n) ==
  IF n = 0 THEN 1 ELSE IF row.key = <<>> THEN 1 ELSE (UnsignedAbs(row.key[1]) % n) + 1
PartitionBatch(batch, n, part) ==
  ApplySelection(batch, {i \in DOMAIN batch : PartitionOf(batch[i], n) = part})

-------------------------------------------------------------------------------
(* vectorized_agg.rs.                                                       *)

EmptyGroup == [sum |-> 0, count |-> 0, min |-> <<>>, max |-> <<>>]
Least(a, b) == IF a = <<>> THEN b ELSE IF b = <<>> THEN a ELSE <<Min({a[1], b[1]})>>
Greatest(a, b) == IF a = <<>> THEN b ELSE IF b = <<>> THEN a ELSE <<Max({a[1], b[1]})>>

UpdateGroup(g, val) ==
  IF val = <<>> THEN g
  ELSE [sum |-> g.sum + val[1], count |-> g.count + 1, min |-> Least(g.min, val), max |-> Greatest(g.max, val)]

MergeGroups(g, h) ==
  [sum |-> g.sum + h.sum, count |-> g.count + h.count, min |-> Least(g.min, h.min), max |-> Greatest(g.max, h.max)]

GroupOf(state, key) == IF key \in DOMAIN state THEN state[key] ELSE EmptyGroup
AggKey(row) == IF row.key = <<>> THEN IntMin ELSE row.key[1]

AccumulateRow(state, row) ==
  [k \in DOMAIN state \union {AggKey(row)} |->
     IF k = AggKey(row) THEN UpdateGroup(GroupOf(state, k), row.val) ELSE state[k]]
Accumulate(state, batch) == FoldLeft(AccumulateRow, state, batch)

MergeStates(s, t) ==
  [k \in DOMAIN s \union DOMAIN t |-> IF k \in DOMAIN t THEN MergeGroups(GroupOf(s, k), t[k]) ELSE s[k]]

OrZero(v) == IF v = <<>> THEN 0 ELSE v[1]
FinishAgg(state) ==
  {<<k, state[k].sum, state[k].count, OrZero(state[k].min), OrZero(state[k].max)>> : k \in DOMAIN state}

-------------------------------------------------------------------------------
(* simd/hash_join.rs: the build side's table maps a key to its rows.        *)

HashBuild(batch) ==
  [k \in {batch[i].key[1] : i \in {j \in DOMAIN batch : batch[j].key # <<>>}} |->
     {i \in DOMAIN batch : batch[i].key = <<k>>}]
HashProbe(build, probe) ==
  LET table == HashBuild(build) IN
  {<<build[b].id, probe[p].id>> : <<b, p>> \in
     {<<b, p>> \in (DOMAIN build) \X (DOMAIN probe) :
        probe[p].key # <<>> /\ probe[p].key[1] \in DOMAIN table /\ b \in table[probe[p].key[1]]}}

-------------------------------------------------------------------------------
(* sort.rs: nulls first, ascending; the sort is unstable, so rows of equal  *)
(* keys come in any order.                                                  *)

NotAfter(a, b) == a.key = <<>> \/ (b.key # <<>> /\ a.key[1] <= b.key[1])
SortBatch(batch) ==
  {s \in SetToSeqs(ToSet(batch)) : \A i \in 1 .. Len(s) - 1 : NotAfter(s[i], s[i + 1])}

MergeSortedBatches(batches) ==
  IF batches = <<>> THEN {<<>>}
  ELSE IF Len(batches) = 1 THEN {batches[1]}
  ELSE SortBatch(FlattenSeq(batches))

\* top_k: any k rows that none of the others precedes, sorted.
TopKRows(batch, k) ==
  IF k >= Len(batch) THEN SortBatch(batch)
  ELSE UNION {SortBatch(SetToSeq(chosen)) : chosen \in
         {c \in kSubset(k, ToSet(batch)) : \A r \in c, s \in ToSet(batch) \ c : NotAfter(r, s)}}

-------------------------------------------------------------------------------
\* A producer filters its batch and sends every consumer its part.
Shuffle(p) ==
  /\ p \notin xSent
  /\ LET batch == ApplySelection(xInput[p], Selected(xInput[p], xPlan.range[1], xPlan.range[2]))
         part(c) == IF xPlan.work = "partial" THEN (IF c = p THEN batch ELSE <<>>)
                    ELSE PartitionBatch(batch, xPlan.n, c) IN
     xWire' = xWire \union {[from |-> p, to |-> c, batch |-> part(c)] : c \in Consumers}
  /\ xSent' = xSent \union {p}
  /\ UNCHANGED <<xPlan, xInput, xInbox, xPartial, xResult>>

Receive(m) ==
  /\ m \in xWire
  /\ xWire' = xWire \ {m}
  /\ xInbox' = [xInbox EXCEPT ![m.to] = Append(@, m)]
  /\ UNCHANGED <<xPlan, xInput, xSent, xPartial, xResult>>

From(c, p) == (CHOOSE i \in DOMAIN xInbox[c] : xInbox[c][i].from = p)
Work(c) ==
  /\ xPartial[c] = <<>> /\ Len(xInbox[c]) = Cardinality(Producers)
  /\ LET batches == [i \in DOMAIN xInbox[c] |-> xInbox[c][i].batch] IN
     \E r \in CASE xPlan.work \in {"group", "partial"} -> {FoldLeft(Accumulate, << >>, batches)}
                [] xPlan.work = "join" -> {HashProbe(batches[From(c, 1)], batches[From(c, 2)])}
                [] xPlan.work = "sort" -> UNION {TopKRows(s, TopK) : s \in SortBatch(FlattenSeq(batches))} :
       xPartial' = [xPartial EXCEPT ![c] = <<r>>]
  /\ UNCHANGED <<xPlan, xInput, xSent, xWire, xInbox, xResult>>

MergePartial(c) ==
  /\ xPartial[c] # <<>> /\ c \notin xResult.merged
  /\ LET v == xPartial[c][1] IN
     xResult' = [xResult EXCEPT !.merged = @ \union {c},
                   !.value = CASE xPlan.work \in {"group", "partial"} -> MergeStates(@, v)
                               [] xPlan.work = "join" -> @ \union v
                               [] xPlan.work = "sort" -> Append(@, v)]
  /\ UNCHANGED <<xPlan, xInput, xSent, xWire, xInbox, xPartial>>

FinishExchange ==
  /\ ~xResult.done /\ xResult.merged = Consumers
  /\ \E r \in CASE xPlan.work \in {"group", "partial"} -> {FinishAgg(xResult.value)}
                [] xPlan.work = "join" -> {xResult.value}
                [] xPlan.work = "sort" -> UNION {TopKRows(s, TopK) : s \in MergeSortedBatches(xResult.value)} :
       xResult' = [xResult EXCEPT !.value = r, !.done = TRUE]
  /\ UNCHANGED <<xPlan, xInput, xSent, xWire, xInbox, xPartial>>

\* Rows are numbered through; a value is the row's number or NULL.
Inputs ==
  LET row(f, i) == [id |-> i, key |-> f[i][1], val |-> IF f[i][2] THEN <<i>> ELSE <<>>] IN
  UNION {{[p \in Producers |-> IF p = 1 THEN [i \in 1 .. counts[1] |-> row(f, i)]
                               ELSE [i \in 1 .. counts[2] |-> row(f, counts[1] + i)]] :
            f \in [1 .. counts[1] + counts[2] -> RowKeys \X BOOLEAN]} : counts \in RowCounts}
ExchangeInit ==
  /\ xPlan \in [work : {"group", "partial", "join", "sort"}, n : PartitionCounts, range : FilterRanges]
  /\ xInput \in Inputs
  /\ xSent = {}
  /\ xWire = {}
  /\ xInbox = [c \in Consumers |-> <<>>]
  /\ xPartial = [c \in Consumers |-> <<>>]
  /\ xResult = [merged |-> {}, done |-> FALSE,
                value |-> IF xPlan.work = "join" THEN {} ELSE <<>>]

ExchangeNext ==
  \/ \E p \in Producers : Shuffle(p)
  \/ \E m \in xWire : Receive(m)
  \/ \E c \in Consumers : Work(c) \/ MergePartial(c)
  \/ FinishExchange

-------------------------------------------------------------------------------
(* The answer computed directly over all rows.                              *)

RowsFrom(p) == {r \in ToSet(xInput[p]) : r.id \in xPlan.range[1] .. xPlan.range[2]}
AllRows == RowsFrom(1) \union RowsFrom(2)

DirectGroups ==
  {LET vals == {r.val[1] : r \in {s \in AllRows : AggKey(s) = k /\ s.val # <<>>}} IN
   <<k, SumSet(vals), Cardinality(vals),
     IF vals = {} THEN 0 ELSE Min(vals), IF vals = {} THEN 0 ELSE Max(vals)>> :
   k \in {AggKey(r) : r \in AllRows}}
DirectJoin ==
  {<<r.id, s.id>> : <<r, s>> \in {x \in RowsFrom(1) \X RowsFrom(2) : x[1].key = x[2].key /\ x[1].key # <<>>}}
IsTopK(s) ==
  /\ Len(s) = Min({TopK, Cardinality(AllRows)}) /\ ToSet(s) \subseteq AllRows
  /\ Cardinality(ToSet(s)) = Len(s)
  /\ \A i \in 1 .. Len(s) - 1 : NotAfter(s[i], s[i + 1])
  /\ \A r \in ToSet(s), t \in AllRows \ ToSet(s) : NotAfter(r, t)

\* Whatever the number of partitions, the order in which parts arrive and
\* the order in which partial results are merged, the distributed answer is
\* the answer over all rows at once: the same groups with the same
\* aggregates (a NULL key counts as i64::MIN), the same joined pairs, and k
\* rows that no other row precedes.
ExchangeExact ==
  xResult.done =>
    CASE xPlan.work \in {"group", "partial"} -> xResult.value = DirectGroups
      [] xPlan.work = "join" -> xResult.value = DirectJoin
      [] xPlan.work = "sort" -> IsTopK(xResult.value)
==============================================================================
