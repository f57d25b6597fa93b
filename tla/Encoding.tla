------------------------------- MODULE Encoding ------------------------------
(***************************************************************************)
(* How a storage node lays rows out in bytes: the column encodings         *)
(* (columnar/encoding.rs), the write batch that goes into the log          *)
(* (serialize_write_batch, grpc/write.rs) and the columns extracted from   *)
(* JSON after a compaction (columnar/flat_json.rs).  Numbers keep a width: *)
(* a byte has ByteBits bits, a u32 CountBytes bytes, and the i64 of the    *)
(* delta encoding wraps at Word values.                                    *)
(***************************************************************************)
EXTENDS Integers, Sequences, FiniteSets, SequencesExt

CONSTANTS
  ByteBits, CountBytes, Word,
  Texts, Integers32, Integers64, MaxValues,   \* the values of a column, and how many
  WriteRows, MaxBatchRows,                    \* rows [tx, key, cols] of a batch
  JsonRows, JsonKeys, MaxJsonRows, MaxSegments, ThresholdNum, ThresholdDen

VARIABLES
  layout,       \* which of the formats this behaviour writes
  written,      \* the values, or rows, that were encoded
  coded,        \* their bytes
  readBack,     \* what decoding gave
  flatCols,     \* (key, segment) -> the column file
  flatMeta,     \* _flat_meta.json: [keys, seg, total]
  extracting,   \* the extraction under way
  segRows       \* segment -> its JSON rows

codeVars == <<layout, written, coded, readBack>>
flatVars == <<flatCols, flatMeta, extracting, segRows>>
encodingVars == <<codeVars, flatVars>>

Base == 2 ^ ByteBits
\* to_le_bytes and from_le_bytes of a number of w bytes.
LE(n, w) == [i \in 1 .. w |-> (n \div (Base ^ (i - 1))) % Base]
RECURSIVE FromLE(_)
FromLE(bytes) == IF bytes = <<>> THEN 0 ELSE bytes[1] + Base * FromLE(Tail(bytes))
Framed(text) == LE(Len(text), CountBytes) \o text

-------------------------------------------------------------------------------
\* A cursor over bytes: the position, and the values read; "err" once a read
\* runs past the end.
ReadBytes(cur, bytes, w) ==
  IF cur.err \/ cur.pos + w > Len(bytes) THEN [cur EXCEPT !.err = TRUE]
  ELSE [cur EXCEPT !.pos = @ + w, !.got = SubSeq(bytes, cur.pos + 1, cur.pos + w)]
ReadNumber(cur, bytes, w) ==
  LET r == ReadBytes(cur, bytes, w) IN IF r.err THEN r ELSE [r EXCEPT !.got = <<FromLE(@)>>]
ReadFramed(cur, bytes) ==
  LET n == ReadNumber(cur, bytes, CountBytes) IN IF n.err THEN n ELSE ReadBytes(n, bytes, n.got[1])
AtStart == [pos |-> 0, err |-> FALSE, got |-> <<>>]

\* plain_encode and plain_decode, which keeps what it read before the end.
PlainEncode(vals) == LE(Len(vals), CountBytes) \o FlattenSeq([i \in DOMAIN vals |-> Framed(vals[i])])
RECURSIVE PlainFrom(_, _, _)
PlainFrom(bytes, cur, n) ==
  LET r == ReadFramed(cur, bytes) IN
  IF n = 0 \/ r.err THEN <<>> ELSE <<r.got>> \o PlainFrom(bytes, r, n - 1)
PlainDecode(bytes) ==
  LET n == ReadNumber(AtStart, bytes, CountBytes) IN IF n.err THEN <<>> ELSE PlainFrom(bytes, n, n.got[1])

\* DictEncoder::push and finish; the decoder looks the codes up.
RECURSIVE DictOf(_)
DictOf(vals) ==
  IF vals = <<>> THEN <<>>
  ELSE LET d == DictOf(Front(vals)) IN IF Last(vals) \in ToSet(d) THEN d ELSE Append(d, Last(vals))
CodeIn(d, v) == CHOOSE i \in DOMAIN d : d[i] = v
DictEncode(vals) ==
  LET d == DictOf(vals) IN
  <<PlainEncode(d), LE(Len(vals), CountBytes) \o FlattenSeq([i \in DOMAIN vals |-> LE(CodeIn(d, vals[i]) - 1, CountBytes)])>>
DictDecode(parts) ==
  LET d == PlainDecode(parts[1])
      n == FromLE(SubSeq(parts[2], 1, CountBytes)) IN
  [i \in 1 .. n |-> d[FromLE(SubSeq(parts[2], i * CountBytes + 1, (i + 1) * CountBytes)) + 1]]

\* delta_encode and delta_decode; a difference wraps like the sum that undoes it.
Wrap(n) == ((n + Word \div 2) % Word) - Word \div 2
DeltaEncode(vals) == [i \in DOMAIN vals |-> IF i = 1 THEN vals[1] ELSE Wrap(vals[i] - vals[i - 1])]
RECURSIVE DeltaDecode(_)
DeltaDecode(ds) ==
  IF Len(ds) <= 1 THEN ds
  ELSE LET before == DeltaDecode(Front(ds)) IN Append(before, Wrap(Last(before) + Last(ds)))

\* bitpack_encode: the width is that of the largest value; bits collect in an
\* accumulator that gives off full bytes.
MutBitWidth(vals) ==
  LET top == CHOOSE v \in ToSet(vals) : \A u \in ToSet(vals) : u <= v IN
  IF top = 0 THEN 1 ELSE CHOOSE w \in 0 .. top : 2 ^ w >= top /\ (w = 0 \/ 2 ^ (w - 1) < top)
BitWidth(vals) ==
  LET top == CHOOSE v \in ToSet(vals) : \A u \in ToSet(vals) : u <= v IN
  IF top = 0 THEN 1 ELSE CHOOSE w \in 1 .. top : 2 ^ w > top /\ 2 ^ (w - 1) <= top
RECURSIVE GiveOff(_)
GiveOff(acc) ==
  IF acc.used < ByteBits THEN acc
  ELSE GiveOff([bits |-> acc.bits \div Base, used |-> acc.used - ByteBits, out |-> Append(acc.out, acc.bits % Base)])
RECURSIVE Packed(_, _, _)
Packed(vals, w, acc) ==
  IF vals = <<>> THEN IF acc.used > 0 THEN Append(acc.out, acc.bits % Base) ELSE acc.out
  ELSE Packed(Tail(vals), w, GiveOff([acc EXCEPT !.bits = @ + Head(vals) * 2 ^ acc.used, !.used = @ + w]))
BitpackEncode(vals) ==
  IF vals = <<>> THEN <<>>
  ELSE <<BitWidth(vals)>> \o LE(Len(vals), CountBytes) \o Packed(vals, BitWidth(vals), [bits |-> 0, used |-> 0, out |-> <<>>])
RECURSIVE TakeIn(_, _, _)
TakeIn(acc, w, bytes) ==
  IF acc.avail >= w \/ acc.pos >= Len(bytes) THEN acc
  ELSE TakeIn([bits |-> acc.bits + bytes[acc.pos + 1] * 2 ^ acc.avail, avail |-> acc.avail + ByteBits, pos |-> acc.pos + 1], w, bytes)
RECURSIVE Unpacked(_, _, _, _)
Unpacked(n, w, acc, bytes) ==
  IF n = 0 THEN <<>>
  ELSE LET a == TakeIn(acc, w, bytes) IN
       <<a.bits % 2 ^ w>> \o Unpacked(n - 1, w, [a EXCEPT !.bits = @ \div 2 ^ w, !.avail = IF @ < w THEN 0 ELSE @ - w], bytes)
BitpackDecode(bytes) ==
  IF Len(bytes) < 1 + CountBytes THEN <<>>
  ELSE Unpacked(FromLE(SubSeq(bytes, 2, 1 + CountBytes)), bytes[1], [bits |-> 0, avail |-> 0, pos |-> 0],
                SubSeq(bytes, 2 + CountBytes, Len(bytes)))

\* serialize_write_batch; deserialize_write_batch fails at the first short read.
SerializeRow(r) ==
  LE(r.tx, 2 * CountBytes) \o Framed(r.key) \o LE(Len(r.cols), CountBytes)
    \o FlattenSeq([i \in DOMAIN r.cols |-> Framed(r.cols[i][1]) \o Framed(r.cols[i][2])])
SerializeBatch(rows) == LE(Len(rows), CountBytes) \o FlattenSeq([i \in DOMAIN rows |-> SerializeRow(rows[i])])
RECURSIVE ReadCols(_, _, _, _)
ReadCols(cur, bytes, n, cols) ==
  LET name == ReadFramed(cur, bytes)
      val == ReadFramed(name, bytes) IN
  IF n = 0 THEN [cur EXCEPT !.got = cols]
  ELSE IF val.err THEN val ELSE ReadCols(val, bytes, n - 1, Append(cols, <<name.got, val.got>>))
RECURSIVE ReadRows(_, _, _, _)
ReadRows(cur, bytes, n, rows) ==
  LET tx == ReadNumber(cur, bytes, 2 * CountBytes)
      key == ReadFramed(tx, bytes)
      count == ReadNumber(key, bytes, CountBytes)
      cols == IF count.err THEN count ELSE ReadCols(count, bytes, count.got[1], <<>>) IN
  IF n = 0 THEN [cur EXCEPT !.got = rows]
  ELSE IF cols.err THEN cols
  ELSE ReadRows(cols, bytes, n - 1, Append(rows, [tx |-> tx.got[1], key |-> key.got, cols |-> cols.got]))
DeserializeBatch(bytes) ==
  LET n == ReadNumber(AtStart, bytes, CountBytes) IN IF n.err THEN n ELSE ReadRows(n, bytes, n.got[1], <<>>)

-------------------------------------------------------------------------------
SeqsUpTo(S, n) == UNION {[1 .. k -> S] : k \in 0 .. n}
NotRead == [done |-> FALSE, err |-> FALSE, cut |-> 0, vals |-> <<>>]
ToWrite ==
  CASE layout \in {"plain", "dict"} -> SeqsUpTo(Texts, MaxValues)
    [] layout = "delta" -> SeqsUpTo(Integers64, MaxValues)
    [] layout = "bitpack" -> SeqsUpTo(Integers32, MaxValues)
    [] layout = "batch" -> SeqsUpTo(WriteRows, MaxBatchRows)
EncodeValues ==
  /\ layout # "flat" /\ coded = <<"nothing">>
  /\ \E vals \in ToWrite :
       /\ written' = vals
       /\ coded' = <<layout, CASE layout = "plain" -> PlainEncode(vals)
                               [] layout = "dict" -> DictEncode(vals)
                               [] layout = "delta" -> DeltaEncode(vals)
                               [] layout = "bitpack" -> BitpackEncode(vals)
                               [] layout = "batch" -> SerializeBatch(vals)>>
  /\ UNCHANGED <<layout, readBack, flatVars>>
\* A reader may find a plain column or a batch cut short.
DecodeValues ==
  /\ Len(coded) = 2
  /\ \E cut \in IF layout \in {"plain", "batch"} THEN 0 .. Len(coded[2]) ELSE {Len(coded[2])} :
       LET bytes == SubSeq(coded[2], 1, cut)
           batch == DeserializeBatch(bytes) IN
       readBack' = [done |-> TRUE, cut |-> Len(coded[2]) - cut, err |-> layout = "batch" /\ batch.err,
                    vals |-> CASE layout = "plain" -> PlainDecode(bytes)
                               [] layout = "dict" -> DictDecode(bytes)
                               [] layout = "delta" -> DeltaDecode(bytes)
                               [] layout = "bitpack" -> BitpackDecode(bytes)
                               [] layout = "batch" -> IF batch.err THEN <<>> ELSE batch.got]
  /\ UNCHANGED <<layout, written, coded, flatVars>>

-------------------------------------------------------------------------------
\* InferredType::coerce: the narrowest type that holds both.
Coerce(a, b) ==
  CASE a = "Null" -> b
    [] b = "Null" \/ a = b -> a
    [] {a, b} = {"Int64", "Float64"} -> "Float64"
    [] OTHER -> "String"
\* FlatJsonAnalyzer: a row is the types of its keys; a row that is not an
\* object counts, with no keys.
RECURSIVE KeyType(_, _)
KeyType(rows, k) ==
  IF rows = <<>> THEN "Null"
  ELSE LET before == KeyType(Front(rows), k) IN IF k \in DOMAIN Last(rows) THEN Coerce(before, Last(rows)[k]) ELSE before
KeyCount(rows, k) == Cardinality({i \in DOMAIN rows : k \in DOMAIN rows[i]})
Extractable(rows) ==
  {k \in JsonKeys : KeyCount(rows, k) > 0 /\ KeyCount(rows, k) * ThresholdDen >= Len(rows) * ThresholdNum}
\* serialize_key_column writes one value per row, null where the key is missing.
KeyColumn(rows, k) == [i \in DOMAIN rows |-> IF k \in DOMAIN rows[i] THEN rows[i][k] ELSE "Null"]
BuildMeta(rows, seg) ==
  [keys |-> [k \in Extractable(rows) |-> [count |-> KeyCount(rows, k), type |-> KeyType(rows, k)]],
   seg |-> seg, total |-> Len(rows)]

\* extract_and_write: nothing at all when no key is frequent enough, else the
\* column files one after the other in hash-map order, then the meta file.
StartExtract ==
  /\ layout = "flat" /\ extracting = <<>> /\ Len(segRows) < MaxSegments
  /\ \E rows \in SeqsUpTo(JsonRows, MaxJsonRows) :
       /\ segRows' = Append(segRows, rows)
       /\ extracting' = IF rows = <<>> \/ Extractable(rows) = {} THEN <<>> ELSE <<Extractable(rows)>>
  /\ UNCHANGED <<codeVars, flatCols, flatMeta>>
WriteKeyColumn ==
  /\ extracting # <<>>
  /\ \E k \in extracting[1] :
       /\ flatCols' = [x \in (DOMAIN flatCols) \union {<<k, Len(segRows)>>} |->
                         IF x = <<k, Len(segRows)>> THEN KeyColumn(Last(segRows), k) ELSE flatCols[x]]
       /\ extracting' = <<extracting[1] \ {k}>>
  /\ UNCHANGED <<codeVars, flatMeta, segRows>>
WriteFlatMeta ==
  /\ extracting = <<{}>>
  /\ flatMeta' = BuildMeta(Last(segRows), Len(segRows)) /\ extracting' = <<>>
  /\ UNCHANGED <<codeVars, flatCols, segRows>>
ExtractionFails ==
  /\ extracting # <<>> /\ extracting' = <<>>
  /\ UNCHANGED <<codeVars, flatCols, flatMeta, segRows>>

EncodingInit ==
  /\ layout \in {"plain", "dict", "delta", "bitpack", "batch", "flat"}
  /\ written = <<>> /\ coded = <<"nothing">> /\ readBack = NotRead
  /\ flatCols = <<>> /\ flatMeta = [keys |-> <<>>, seg |-> 0, total |-> 0] /\ extracting = <<>> /\ segRows = <<>>
EncodingNext == EncodeValues \/ DecodeValues \/ StartExtract \/ WriteKeyColumn \/ WriteFlatMeta \/ ExtractionFails

\* What was encoded is what decoding gives: in full from all the bytes; from a
\* plain column cut short, its first values; from a write batch cut short, an
\* error, at every length.  And whatever extraction fails where, a key the meta
\* file lists has the column file of the segment it was taken from, with one
\* value per row, the count of the rows that have it, and a type that holds
\* every value, whichever row came first.
EncodingsFaithful ==
  /\ readBack.done =>
       CASE readBack.cut = 0 -> readBack.vals = written /\ ~readBack.err
         [] layout = "plain" -> readBack.vals = SubSeq(written, 1, Len(readBack.vals))
                                /\ Len(readBack.vals) < Len(written) + (IF written = <<>> THEN 1 ELSE 0)
         [] layout = "batch" -> readBack.err
  /\ \A k \in DOMAIN flatMeta.keys :
       LET m == flatMeta.keys[k] IN
       /\ <<k, flatMeta.seg>> \in DOMAIN flatCols
       /\ LET col == flatCols[<<k, flatMeta.seg>>]
              rows == segRows[flatMeta.seg] IN
          /\ Len(col) = flatMeta.total /\ flatMeta.total = Len(rows)
          /\ \A i \in DOMAIN col : /\ Coerce(col[i], m.type) = m.type
                                   /\ k \in DOMAIN rows[i] => rows[i][k] = col[i]
          /\ m.count = KeyCount(rows, k)
          /\ m.type \in {"Int64", "Bool"} => ToSet(col) \subseteq {m.type, "Null"}
==============================================================================
