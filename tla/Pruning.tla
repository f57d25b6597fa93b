------------------------------- MODULE Pruning -------------------------------
(***************************************************************************)
(* Data skipping: the per-granule indexes of a storage node (MINMAX,       *)
(* BLOOM_FILTER, SET and NGRAMBF; storage-node/src/index and               *)
(* lsm/bloom.rs), partition pruning in the query node                      *)
(* (planner/cbo/partition_prune.rs) and runtime join filters in the        *)
(* compute node (runtime_filter.rs).  Each of them builds a summary of a   *)
(* column and later decides from the summary alone what need not be read.  *)
(*                                                                         *)
(* A column is a sequence of values, 0 for NULL; a value stands for its    *)
(* bytes, ordered as they are.  Text gives the bytes of a value to the     *)
(* n-gram index.                                                           *)
(***************************************************************************)
EXTENDS Integers, Sequences, FiniteSets, SequencesExt, FiniteSetsExt

CONSTANTS
  ColumnValues,  \* the values, positive naturals
  ColumnRows,    \* bound on the length of a column
  GranuleSize,   \* rows of a granule (8192)
  SetLimit,      \* max_values of a SET index
  InListLimit,   \* max_inlist of a runtime filter
  BitsPerKey, Hash1, Hash2, \* a Bloom filter's size and its two 64-bit hashes of a value
  Text, Needles, GramLength \* the strings, the patterns and N of the n-gram index

ASSUME PruningAssumption ==
  /\ ColumnValues \subseteq Nat \ {0} /\ ColumnRows \in Nat
  /\ GranuleSize \in Nat \ {0} /\ GramLength \in Nat \ {0}
  /\ {SetLimit, InListLimit, BitsPerKey} \subseteq Nat
  /\ {Hash1, Hash2} \subseteq [ColumnValues -> Nat] /\ DOMAIN Text = ColumnValues

VARIABLES
  column,   \* the rows of a column
  summary,  \* what the index kept of them: [kind, units], a unit for each granule
  skipped   \* the probe and the granules it rules out: [probe, units], or NotProbed

pruningVars == <<column, summary, skipped>>

NoIndex == [kind |-> "none", units |-> <<>>]
NotProbed == [probe |-> <<"none">>, units |-> {}]
NonNull(rows) == ToSet(rows) \ {0}

\* values.chunks(size)
Chunks(rows, size) ==
  [g \in 1 .. (Len(rows) + size - 1) \div size |->
     SubSeq(rows, (g - 1) * size + 1, IF g * size < Len(rows) THEN g * size ELSE Len(rows))]

Granules == Chunks(column, GranuleSize)

-------------------------------------------------------------------------------
(* MINMAX: smallest and largest value that is not NULL, or none.            *)

MinMaxOf(rows) == IF NonNull(rows) = {} THEN <<>> ELSE <<Min(NonNull(rows)), Max(NonNull(rows))>>

MutCandidateRange(units, lo, hi) ==
  {g \in DOMAIN units : units[g] = <<>> \/ (units[g][2] > lo /\ units[g][1] <= hi)}

\* candidate_granules_range; candidate_granules_eq is lo = hi.
CandidateRange(units, lo, hi) ==
  {g \in DOMAIN units : units[g] = <<>> \/ (units[g][2] >= lo /\ units[g][1] <= hi)}

\* global_min_max: granules that hold only NULL do not count.
GlobalMinMax(units) ==
  LET some == {g \in DOMAIN units : units[g] # <<>>} IN
  IF some = {} THEN <<>> ELSE <<Min({units[g][1] : g \in some}), Max({units[g][2] : g \in some})>>

\* can_skip_by_minmax, can_skip_by_sort_range and granule_can_skip: strict and
\* weak comparison are told apart only by what the scan does afterwards.
RangeCanSkip(range, op, v) ==
  /\ range # <<>>
  /\ CASE op = "eq" -> range[1] > v \/ range[2] < v
       [] op \in {"gt", "ge"} -> range[2] < v
       [] op \in {"lt", "le"} -> range[1] > v
       [] OTHER -> FALSE

-------------------------------------------------------------------------------
(* Bloom filters: k indexes by double hashing into a bitmap sized for the   *)
(* number of keys.                                                          *)

\* SsTableBloom::new: at least 64 bits, rounded up to whole bytes.
NumBits(n) == (((IF n * BitsPerKey < 64 THEN 64 ELSE n * BitsPerKey) + 7) \div 8) * 8
\* optimal_k: bits_per_key * ln 2, rounded, at least 1.
OptimalK == LET k == (BitsPerKey * 693 + 500) \div 1000 IN IF k < 1 THEN 1 ELSE k
HashIndices(v, bits) == {(Hash1[v] + Hash2[v] * (i + 1)) % bits : i \in 0 .. OptimalK - 1}

BloomOf(rows) ==
  LET keys == SelectSeq(rows, LAMBDA v : v # 0)
      bits == NumBits(IF keys = <<>> THEN 1 ELSE Len(keys)) IN
  [bits |-> bits, set |-> UNION {HashIndices(v, bits) : v \in ToSet(keys)}]
MayContain(bloom, v) == HashIndices(v, bloom.bits) \subseteq bloom.set

\* can_skip_by_bloom: a missing or unreadable filter rules nothing out.
BloomCanSkip(bloom, readable, keys) == readable /\ \A v \in keys : ~MayContain(bloom, v)

-------------------------------------------------------------------------------
(* SET: the distinct values, given up when there are more than the limit.   *)

SetOf(rows) == IF Cardinality(NonNull(rows)) > SetLimit THEN <<"overflow">> ELSE <<"set", NonNull(rows)>>
SetCanSkip(unit, op, vs) ==
  /\ unit[1] = "set"
  /\ CASE op = "in" -> unit[2] \cap vs = {}
       [] op = "not_in" -> unit[2] # {} /\ unit[2] \subseteq vs

-------------------------------------------------------------------------------
(* NGRAMBF: all n-grams of the strings of a granule, in a Bloom filter of   *)
(* the bloomfilter crate that may also report n-grams it was never given.   *)

Ngrams(s) == {SubSeq(s, i, i + GramLength - 1) : i \in 1 .. Len(s) - GramLength + 1}
NgramsOf(rows) == UNION {Ngrams(Text[v]) : v \in NonNull(rows)}
NgramCanSkip(grams, needle) == Len(needle) >= GramLength /\ ~(Ngrams(needle) \subseteq grams)
ContainsText(s, needle) == \E i \in 0 .. Len(s) - Len(needle) : SubSeq(s, i + 1, i + Len(needle)) = needle

-------------------------------------------------------------------------------
(* Runtime filter: the build side's values as a list, or only their range.  *)

RuntimeFilterOf(rows) ==
  LET vs == NonNull(rows) IN
  CASE vs = {} -> <<"pass">>
    [] vs # {} /\ Cardinality(vs) <= InListLimit -> <<"in", vs>>
    [] OTHER -> <<"minmax", Min(vs), Max(vs)>>
TestFilter(filter, v) ==
  CASE filter[1] = "pass" -> TRUE
    [] filter[1] = "in" -> v \in filter[2]
    [] filter[1] = "minmax" -> v >= filter[2] /\ v <= filter[3]

-------------------------------------------------------------------------------
(* Partition pruning: PartitionPruner::can_skip on the key range in the     *)
(* statistics of a partition; Between is half open.                         *)

PartitionCanSkip(range, p) ==
  /\ range # <<>>
  /\ CASE p.op \in {"ge", "gt"} -> range[2] < p.v
       [] p.op = "le" -> range[1] > p.v
       [] p.op = "lt" -> range[1] >= p.v
       [] p.op = "eq" -> range[1] > p.v \/ range[2] < p.v
       [] p.op = "between" -> range[2] < p.v \/ range[1] >= p.hi

-------------------------------------------------------------------------------
Build(kind, UnitOf(_), rows) ==
  /\ summary = NoIndex
  /\ summary' = [kind |-> kind, units |-> [g \in DOMAIN rows |-> UnitOf(rows[g])]]
  /\ UNCHANGED <<column, skipped>>

BuildMinMax == Build("minmax", MinMaxOf, Granules)
BuildBloom == Build("bloom", BloomOf, Granules)
BuildSet == Build("set", SetOf, Granules)
BuildRuntimeFilter == Build("filter", RuntimeFilterOf, <<column>>)

BuildNgram ==
  \E falsePositives \in SUBSET UNION {Ngrams(s) : s \in Needles} :
    Build("ngram", LAMBDA rows : NgramsOf(rows) \cup falsePositives, Granules)

\* The statistics of a partition may be missing.
CollectPartitionStats ==
  \/ Build("partition", MinMaxOf, <<column>>)
  \/ Build("partition", LAMBDA rows : <<>>, <<column>>)

Probe(kind, probe, units) ==
  /\ summary.kind = kind
  /\ skipped = NotProbed
  /\ skipped' = [probe |-> probe, units |-> units]
  /\ UNCHANGED <<column, summary>>

Comparisons == {"eq", "gt", "ge", "lt", "le"}

ProbeRange ==
  \E lo, hi \in ColumnValues :
    Probe("minmax", <<"range", lo, hi>>, DOMAIN summary.units \ CandidateRange(summary.units, lo, hi))

\* A whole segment is skipped, or each granule on its own.
ProbeSegment ==
  \E op \in Comparisons, v \in ColumnValues :
    Probe("minmax", <<op, v>>,
          IF RangeCanSkip(GlobalMinMax(summary.units), op, v) THEN DOMAIN summary.units ELSE {})

ProbeGranules ==
  \E op \in Comparisons, v \in ColumnValues :
    Probe("minmax", <<op, v>>, {g \in DOMAIN summary.units : RangeCanSkip(summary.units[g], op, v)})

ProbeBloom ==
  \E keys \in (SUBSET ColumnValues) \ {{}}, readable \in BOOLEAN :
    Probe("bloom", <<"in", keys>>, {g \in DOMAIN summary.units : BloomCanSkip(summary.units[g], readable, keys)})

ProbeSet ==
  \E op \in {"in", "not_in"}, vs \in SUBSET ColumnValues :
    Probe("set", <<op, vs>>, {g \in DOMAIN summary.units : SetCanSkip(summary.units[g], op, vs)})

ProbeNgram ==
  \E needle \in Needles :
    Probe("ngram", <<"like", needle>>, {g \in DOMAIN summary.units : NgramCanSkip(summary.units[g], needle)})

\* apply_runtime_filter_i64 on one probe row: what is skipped is the row.
ApplyRuntimeFilter ==
  \E v \in ColumnValues :
    Probe("filter", <<"eq", v>>, IF TestFilter(summary.units[1], v) THEN {} ELSE {1})

\* PartitionPruner::prune with two predicates, the second possibly the first.
PrunePartition ==
  \E op1, op2 \in Comparisons \cup {"between"}, v, w \in ColumnValues :
    LET p == [op |-> op1, v |-> v, hi |-> w]
        q == [op |-> op2, v |-> w, hi |-> v + 1] IN
    Probe("partition", <<"and", p, q>>,
          IF \E r \in {p, q} : PartitionCanSkip(summary.units[1], r) THEN {1} ELSE {})

PruningInit ==
  /\ column \in BoundedSeq(ColumnValues \cup {0}, ColumnRows)
  /\ summary = NoIndex
  /\ skipped = NotProbed

PruningNext ==
  \/ BuildMinMax \/ BuildBloom \/ BuildSet \/ BuildNgram \/ BuildRuntimeFilter \/ CollectPartitionStats
  \/ ProbeRange \/ ProbeSegment \/ ProbeGranules \/ ProbeBloom \/ ProbeSet \/ ProbeNgram
  \/ ApplyRuntimeFilter \/ PrunePartition

-------------------------------------------------------------------------------
Compares(x, op, v) ==
  CASE op = "eq" -> x = v [] op = "gt" -> x > v [] op = "ge" -> x >= v [] op = "lt" -> x < v [] op = "le" -> x <= v

PartitionMatches(x, p) == IF p.op = "between" THEN p.v <= x /\ x < p.hi ELSE Compares(x, p.op, p.v)

\* Whether a row satisfies the condition the probe was made for; NULL
\* satisfies none of them.
Matches(x, probe) ==
  CASE x = 0 -> FALSE
    [] x # 0 /\ probe[1] = "range" -> probe[2] <= x /\ x <= probe[3]
    [] x # 0 /\ probe[1] = "in" -> x \in probe[2]
    [] x # 0 /\ probe[1] = "not_in" -> x \notin probe[2]
    [] x # 0 /\ probe[1] = "like" -> ContainsText(Text[x], probe[2])
    [] x # 0 /\ probe[1] = "and" -> PartitionMatches(x, probe[2]) /\ PartitionMatches(x, probe[3])
    [] OTHER -> Compares(x, probe[1], probe[2])

\* What an index, a partition's statistics or a runtime filter rules out
\* holds no row that satisfies the condition: skipping loses no row.
SkipLosesNoRow ==
  \A g \in skipped.units :
    LET rows == IF summary.kind \in {"filter", "partition"} THEN column ELSE Granules[g] IN
    \A i \in DOMAIN rows : ~Matches(rows[i], skipped.probe)
==============================================================================
