------------------------------ MODULE ShardScan ------------------------------
(***************************************************************************)
(* ShardScanner of a storage node (storage-node/src/grpc/scan.rs) behind   *)
(* the ScanShard call (grpc/server.rs): the parts of a shard directory are *)
(* listed, ruled out by Bloom filter or key range or read one by one, and  *)
(* a stream of one part list, the batches and the statistics is sent.      *)
(*                                                                         *)
(* Keys are naturals, 0 the empty byte string.  What the files of a part   *)
(* hold is a set of keys.                                                  *)
(***************************************************************************)
EXTENDS Integers, Sequences, FiniteSets, SequencesExt

CONSTANTS
  PartKeys,     \* keys that occur in parts, naturals above 0
  MaxParts,     \* bound on the parts of the directory
  ScanRequests  \* requests: [preds, probe, minLevel, maxLevel]

VARIABLES
  shardFiles,   \* the parts on disk: sequence of [keys, bloom, ok], by sequence number
  scanReq,      \* the request
  scanQueue,    \* parts still to visit, in scan order
  heldBatch,    \* last_ipc: the batch kept back until it is known to be the last, or <<>>
  scanStream,   \* items sent
  scanStats     \* [scanned, skipped, rows]

shardScanVars == <<shardFiles, scanReq, scanQueue, heldBatch, scanStream, scanStats>>

\* A part: a filter that holds at least its keys, is missing or cannot be
\* parsed; and whether reading its column files succeeds.
PartFiles ==
  {[keys |-> k, bloom |-> b, ok |-> o] :
     k \in (SUBSET PartKeys) \ {{}}, b \in {<<"absent">>, <<"corrupt">>} \cup {<<"bits", s>> : s \in SUBSET PartKeys},
     o \in BOOLEAN}
WellFormed(p) == p.bloom[1] = "bits" => p.keys \subseteq p.bloom[2]

\* load_active_parts: from the file names alone, so level 0 and empty keys.
ActiveParts ==
  [s \in DOMAIN shardFiles |-> [seq |-> s, level |-> 0, minKey |-> 0, maxKey |-> 0]]

\* Newest first in level 0, by level and smallest key elsewhere.
ScanBefore(a, b) ==
  IF a.level = 0 /\ b.level = 0 THEN a.seq > b.seq
  ELSE a.level < b.level \/ (a.level = b.level /\ a.minKey < b.minKey)

\* can_skip_by_bloom: only if the filter excludes every probed key.
CanSkipByBloom(p, probe) ==
  LET bloom == shardFiles[p.seq].bloom IN
  probe # {} /\ bloom[1] = "bits" /\ probe \cap bloom[2] = {}

\* can_skip_by_sort_range: any predicate with a Bytes value, whatever its
\* column; other values rule nothing out.
CanSkipBySortRange(p, preds) ==
  \E q \in preds :
    /\ q.bytes
    /\ CASE q.op \in {"ge", "gt"} -> p.maxKey < q.v
         [] q.op \in {"le", "lt"} -> p.minKey > q.v
         [] q.op = "eq" -> p.minKey > q.v \/ p.maxKey < q.v
         [] OTHER -> FALSE

BatchItem(part, last) == [item |-> "batch", seq |-> part.seq, keys |-> shardFiles[part.seq].keys, last |-> last]

\* Part list, order and level filter.
StartScan ==
  /\ scanStream = <<>>
  /\ scanStream' = <<[item |-> "parts", seqs |-> DOMAIN shardFiles]>>
  /\ scanQueue' = SelectSeq(SetToSortSeq(ToSet(ActiveParts), ScanBefore),
                            LAMBDA p : p.level >= scanReq.minLevel /\ p.level <= scanReq.maxLevel)
  /\ UNCHANGED <<shardFiles, scanReq, heldBatch, scanStats>>

Visit == scanQueue # <<>> /\ scanQueue' = Tail(scanQueue) /\ UNCHANGED <<shardFiles, scanReq>>

SkipPart ==
  /\ Visit
  /\ CanSkipByBloom(Head(scanQueue), scanReq.probe) \/ CanSkipBySortRange(Head(scanQueue), scanReq.preds)
  /\ scanStats' = [scanStats EXCEPT !.skipped = @ + 1]
  /\ UNCHANGED <<heldBatch, scanStream>>

MutReadPart ==
  /\ Visit
  /\ ~CanSkipByBloom(Head(scanQueue), scanReq.probe)
  /\ ~CanSkipBySortRange(Head(scanQueue), scanReq.preds)
  /\ scanStats' = [scanStats EXCEPT !.scanned = @ + 1]
  /\ IF shardFiles[Head(scanQueue).seq].ok
     THEN heldBatch' = <<Head(scanQueue)>> /\ UNCHANGED scanStream
     ELSE UNCHANGED <<heldBatch, scanStream>>

\* The batch of a part that was read goes out when the next one is there; a
\* read error is logged and the part left out.
ReadPart ==
  /\ Visit
  /\ ~CanSkipByBloom(Head(scanQueue), scanReq.probe)
  /\ ~CanSkipBySortRange(Head(scanQueue), scanReq.preds)
  /\ scanStats' = [scanStats EXCEPT !.scanned = @ + 1]
  /\ IF shardFiles[Head(scanQueue).seq].ok
     THEN /\ scanStream' = IF heldBatch = <<>> THEN scanStream ELSE Append(scanStream, BatchItem(heldBatch[1], FALSE))
          /\ heldBatch' = <<Head(scanQueue)>>
     ELSE UNCHANGED <<heldBatch, scanStream>>

\* The held batch as the last one, then the statistics; rows_returned counts
\* the last batch only.
FinishScan ==
  /\ scanStream # <<>> /\ Last(scanStream).item # "stats" /\ scanQueue = <<>>
  /\ LET rows == IF heldBatch = <<>> THEN 0 ELSE Cardinality(shardFiles[heldBatch[1].seq].keys)
         last == IF heldBatch = <<>> THEN <<>> ELSE <<BatchItem(heldBatch[1], TRUE)>> IN
     /\ scanStats' = [scanStats EXCEPT !.rows = rows]
     /\ scanStream' = scanStream \o last \o <<[item |-> "stats"]>>
  /\ heldBatch' = <<>>
  /\ UNCHANGED <<shardFiles, scanReq, scanQueue>>

ShardScanInit ==
  /\ shardFiles \in {s \in BoundedSeq(PartFiles, MaxParts) : \A i \in DOMAIN s : WellFormed(s[i])}
  /\ scanReq \in ScanRequests
  /\ scanQueue = <<>> /\ heldBatch = <<>> /\ scanStream = <<>>
  /\ scanStats = [scanned |-> 0, skipped |-> 0, rows |-> 0]

ShardScanNext == StartScan \/ SkipPart \/ ReadPart \/ FinishScan

-------------------------------------------------------------------------------
SentBatches == SelectSeq(scanStream, LAMBDA i : i.item = "batch")

\* The part can be read and may hold a row the request asks for.
Wanted(s) ==
  /\ shardFiles[s].ok
  /\ scanReq.probe = {} \/ scanReq.probe \cap shardFiles[s].keys # {}
  /\ scanReq.minLevel = 0

\* A stream that has ended holds every readable part with a probed key
\* exactly once, newest first, and marks its last batch and no other as
\* last.  Requests with a Bytes predicate are left out: the parts come from
\* file names with empty key ranges, and such a predicate rules all of them
\* out.
ScanStreamComplete ==
  (scanStream # <<>> /\ Last(scanStream).item = "stats" /\ \A q \in scanReq.preds : ~q.bytes) =>
    /\ \A s \in DOMAIN shardFiles :
         Wanted(s) => Cardinality({i \in DOMAIN SentBatches : SentBatches[i].seq = s}) = 1
    /\ \A i, j \in DOMAIN SentBatches : i < j => SentBatches[i].seq > SentBatches[j].seq
    /\ \A i \in DOMAIN SentBatches : SentBatches[i].last <=> i = Len(SentBatches)
==============================================================================
