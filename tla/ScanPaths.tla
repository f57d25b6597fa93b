------------------------------ MODULE ScanPaths ------------------------------
(***************************************************************************)
(* Three ways rows are streamed out of a storage node:                     *)
(*   "fragment" a SELECT through a compute node: execute_select of the     *)
(*              query node (cn_client.rs), execute_fragment and scan_sn of *)
(*              the compute node (grpc/server.rs), scan_tablet of the      *)
(*              storage node (grpc/server.rs)                              *)
(*   "shard"    scan_shard of the storage node (grpc/server.rs): the items *)
(*              of a ShardScanner (ShardScan) relayed between two channels *)
(*   "tablet"   TabletScanner (storage-node/src/grpc/scan.rs), which reads *)
(*              the column files of a tablet partition by partition        *)
(* A behaviour is about one of them, `path'.                               *)
(***************************************************************************)
EXTENDS Integers, Sequences, FiniteSets, FiniteSetsExt, SequencesExt

CONSTANTS
  RowShapes,    \* rows of the tablet: functions column -> value
  MaxTabletRows,
  StreamCap,    \* capacity of the channels (32 and 16 in the code)
  MaxItems,     \* bound on the items of a shard scan
  TabletDirs,   \* tablet directories: <<>> or <<partitions>>, each a function column -> segments
  MaxNewSegments

VARIABLES
  path,
  tabletRows, fragment, selected, cnClient,   \* "fragment"
  items, scannerAt, itemChan, respChan, got, clientOpen, relayOpen,  \* "shard"
  tabletDir, tabletScan, batchesSent, listed, newSegments  \* "tablet"

fragmentVars == <<tabletRows, fragment, selected, cnClient>>
relayVars == <<items, scannerAt, itemChan, respChan, got, clientOpen, relayOpen>>
tabletScanVars == <<tabletDir, tabletScan, batchesSent, listed, newSegments>>
pathVars == <<path, fragmentVars, relayVars, tabletScanVars>>

-------------------------------------------------------------------------------
(* SELECT through a compute node.  selected is the last answer: <<>> while  *)
(* there is none, else [rows, columns, none, cut].                          *)

NoFragment == [at |-> "idle", before |-> 0, rows |-> <<>>, cut |-> FALSE]
AnswerNone == [none |-> TRUE, rows |-> <<>>, columns |-> {}, cut |-> FALSE, before |-> 0]
FragmentAt(s) == fragment.at = s
Proceed(s) == fragment' = [fragment EXCEPT !.at = s]
SelectFails == selected' = <<AnswerNone>> /\ fragment' = NoFragment

WriteTabletRow(r) ==
  /\ Len(tabletRows) < MaxTabletRows /\ tabletRows' = Append(tabletRows, r)
  /\ UNCHANGED <<fragment, selected, cnClient>>

\* get_client: the first endpoint only, once; execute_fragment follows.
ExecuteSelect(connects) ==
  /\ FragmentAt("idle")
  /\ IF cnClient \/ connects
     THEN /\ cnClient' = TRUE /\ selected' = <<>>
          /\ fragment' = [NoFragment EXCEPT !.at = "compute", !.before = Len(tabletRows)]
     ELSE SelectFails /\ UNCHANGED cnClient
  /\ UNCHANGED tabletRows
\* The call of the compute node, or its stream, fails.
ExecuteFragmentFails ==
  /\ fragment.at \in {"compute", "reply"} /\ SelectFails /\ UNCHANGED <<tabletRows, cnClient>>

\* scan_sn connects to the storage node and calls scan_tablet; a failure is
\* sent to the query node as an error, which makes the answer None.
ScanSn ==
  /\ FragmentAt("compute") /\ Proceed("storage") /\ UNCHANGED <<tabletRows, selected, cnClient>>
ScanSnFails ==
  /\ FragmentAt("compute") /\ SelectFails /\ UNCHANGED <<tabletRows, cnClient>>
\* scan_tablet sends the rows as one batch, the last ...
MutScanTablet ==
  /\ FragmentAt("storage")
  /\ fragment' = [fragment EXCEPT !.at = "reply", !.rows = SubSeq(tabletRows, 1, Len(tabletRows) - 1)]
  /\ UNCHANGED <<tabletRows, selected, cnClient>>
ScanTablet ==
  /\ FragmentAt("storage")
  /\ fragment' = [fragment EXCEPT !.at = "reply", !.rows = tabletRows]
  /\ UNCHANGED <<tabletRows, selected, cnClient>>
\* ... or an error, or the stream breaks: scan_sn stops reading and returns
\* the rows it has, none, as if that were all.
ScanStreamBreaks ==
  /\ FragmentAt("storage")
  /\ fragment' = [fragment EXCEPT !.at = "reply", !.cut = TRUE]
  /\ UNCHANGED <<tabletRows, selected, cnClient>>

\* execute_fragment sends the rows as one result; execute_select takes the
\* columns from the first row.
FragmentResult ==
  /\ FragmentAt("reply")
  /\ LET rows == fragment.rows
         columns == IF rows = <<>> THEN {} ELSE DOMAIN rows[1] IN
     selected' = <<[none |-> FALSE, columns |-> columns, cut |-> fragment.cut, before |-> fragment.before,
                    rows |-> [i \in DOMAIN rows |-> [c \in columns |-> IF c \in DOMAIN rows[i] THEN rows[i][c] ELSE "NULL"]]]>>
  /\ fragment' = NoFragment /\ UNCHANGED <<tabletRows, cnClient>>

FragmentNext ==
  \/ \E r \in RowShapes : WriteTabletRow(r)
  \/ \E connects \in BOOLEAN : ExecuteSelect(connects)
  \/ ExecuteFragmentFails \/ ScanSn \/ ScanSnFails \/ ScanTablet \/ ScanStreamBreaks \/ FragmentResult

-------------------------------------------------------------------------------
(* scan_shard.  The scanner sends its items into one channel, and a relay   *)
(* converts them into another until the caller is gone.  The scanner does   *)
(* not look whether a send succeeded.                                       *)

ScannerSend ==
  /\ scannerAt < Len(items) /\ (relayOpen => Len(itemChan) < StreamCap)
  /\ scannerAt' = scannerAt + 1
  /\ itemChan' = IF relayOpen THEN Append(itemChan, items[scannerAt + 1]) ELSE itemChan
  /\ UNCHANGED <<items, respChan, got, clientOpen, relayOpen>>
Relay ==
  /\ relayOpen /\ itemChan # <<>> /\ (clientOpen => Len(respChan) < StreamCap)
  /\ itemChan' = IF clientOpen THEN Tail(itemChan) ELSE <<>>
  /\ respChan' = IF clientOpen THEN Append(respChan, Head(itemChan)) ELSE respChan
  /\ relayOpen' = clientOpen
  /\ UNCHANGED <<items, scannerAt, got, clientOpen>>
\* The item channel is closed and empty.
RelayEnds ==
  /\ relayOpen /\ scannerAt = Len(items) /\ itemChan = <<>> /\ relayOpen' = FALSE
  /\ UNCHANGED <<items, scannerAt, itemChan, respChan, got, clientOpen>>
ClientReceives ==
  /\ clientOpen /\ respChan # <<>>
  /\ got' = Append(got, Head(respChan)) /\ respChan' = Tail(respChan)
  /\ UNCHANGED <<items, scannerAt, itemChan, clientOpen, relayOpen>>
ClientLeaves ==
  /\ clientOpen /\ clientOpen' = FALSE /\ respChan' = <<>>
  /\ UNCHANGED <<items, scannerAt, itemChan, got, relayOpen>>

RelayNext == ScannerSend \/ Relay \/ RelayEnds \/ ClientReceives \/ ClientLeaves

-------------------------------------------------------------------------------
(* TabletScanner.  tabletScan is [at, todo, cols, segs]: the partitions     *)
(* still to visit and the segments still to read of the one being read.     *)
(* Meanwhile a flush may add a segment, one column file after the other;    *)
(* listed keeps the segments that were complete when the scan began.        *)

\* list_columns: the column directories of a partition, sorted.
ListColumns(p) == SetToSortSeq(DOMAIN tabletDir[1][p], LAMBDA a, b : a < b)
\* list_segments: those of the first column.
ListSegments(p, cols) ==
  IF cols = <<>> \/ cols[1] \notin DOMAIN tabletDir[1][p] THEN <<>>
  ELSE SetToSortSeq(tabletDir[1][p][cols[1]], LAMBDA a, b : a < b)
\* read_segment_arrow: the columns that have the segment; the others are left out.
ReadSegmentArrow(p, seg, cols) ==
  SelectSeq(cols, LAMBDA c : c \in DOMAIN tabletDir[1][p] /\ seg \in tabletDir[1][p][c])

CompleteSegments ==
  UNION {{p} \X {s \in UNION Range(tabletDir[1][p]) : \A c \in DOMAIN tabletDir[1][p] : s \in tabletDir[1][p][c]} :
           p \in DOMAIN tabletDir[1]}
NoScan == [at |-> "idle", todo |-> <<>>, part |-> 0, cols |-> <<>>, segs |-> <<>>]
DoScanStart(asked) ==
  /\ tabletScan = NoScan /\ batchesSent = <<>>
  /\ IF tabletDir = <<>>
     THEN /\ batchesSent' = <<[part |-> 0, seg |-> 0, cols |-> <<>>, last |-> TRUE]>>
          /\ tabletScan' = [NoScan EXCEPT !.at = "done"] /\ listed' = {}
     ELSE /\ tabletScan' = [NoScan EXCEPT !.at = "partition", !.todo = [i \in DOMAIN tabletDir[1] |-> i], !.cols = asked]
          /\ listed' = CompleteSegments
          /\ UNCHANGED batchesSent
  /\ UNCHANGED <<tabletDir, newSegments>>
DoScanPartition ==
  /\ tabletScan.at = "partition"
  /\ IF tabletScan.todo = <<>> THEN tabletScan' = [tabletScan EXCEPT !.at = "done"]
     ELSE LET p == Head(tabletScan.todo)
              cols == IF tabletScan.cols = <<>> THEN ListColumns(p) ELSE tabletScan.cols IN
          tabletScan' = [tabletScan EXCEPT !.at = "segments", !.todo = Tail(@), !.part = p, !.segs = ListSegments(p, cols)]
  /\ UNCHANGED <<tabletDir, batchesSent, listed, newSegments>>
\* is_last is the last segment of the last partition.
DoScanSegment ==
  /\ tabletScan.at = "segments"
  /\ IF tabletScan.segs = <<>> THEN tabletScan' = [tabletScan EXCEPT !.at = "partition"] /\ UNCHANGED batchesSent
     ELSE LET p == tabletScan.part
              cols == IF tabletScan.cols = <<>> THEN ListColumns(p) ELSE tabletScan.cols IN
          /\ batchesSent' = Append(batchesSent,
                              [part |-> p, seg |-> Head(tabletScan.segs), cols |-> ReadSegmentArrow(p, Head(tabletScan.segs), cols),
                               last |-> tabletScan.todo = <<>> /\ Len(tabletScan.segs) = 1])
          /\ tabletScan' = [tabletScan EXCEPT !.segs = Tail(@)]
  /\ UNCHANGED <<tabletDir, listed, newSegments>>
\* A directory or file cannot be read, and an error ends the stream; or the
\* receiver is gone, and the scan stops.
DoScanStops ==
  /\ tabletScan.at \in {"partition", "segments"}
  /\ tabletScan' = [tabletScan EXCEPT !.at = "stopped"]
  /\ UNCHANGED <<tabletDir, batchesSent, listed, newSegments>>
AddSegment(p, c) ==
  /\ tabletDir # <<>> /\ newSegments < MaxNewSegments /\ p \in DOMAIN tabletDir[1] /\ c \in DOMAIN tabletDir[1][p]
  /\ LET Count(x) == Cardinality(tabletDir[1][p][x]) IN
     /\ \A x \in DOMAIN tabletDir[1][p] : Count(c) <= Count(x)
     /\ tabletDir' = [tabletDir EXCEPT ![1][p][c] = @ \union {Count(c) + 1}]
  /\ newSegments' = newSegments + 1
  /\ UNCHANGED <<tabletScan, batchesSent, listed>>

TabletScanNext ==
  \/ \E asked \in {<<>>, <<2>>} : DoScanStart(asked)
  \/ DoScanPartition \/ DoScanSegment \/ DoScanStops
  \/ \E p \in 1 .. 2, c \in 1 .. 2 : AddSegment(p, c)

-------------------------------------------------------------------------------
PathsInit ==
  /\ path \in {"fragment", "shard", "tablet"}
  /\ path # "shard" => items = <<>>
  /\ path # "tablet" => tabletDir = <<>>
  /\ tabletRows = <<>> /\ fragment = NoFragment /\ selected = <<>> /\ cnClient = FALSE
  /\ items \in {[i \in 1 .. n |-> i] : n \in 0 .. MaxItems}
  /\ scannerAt = 0 /\ itemChan = <<>> /\ respChan = <<>> /\ got = <<>> /\ clientOpen = TRUE /\ relayOpen = TRUE
  /\ tabletDir \in TabletDirs
  /\ tabletScan = NoScan /\ batchesSent = <<>> /\ listed = {} /\ newSegments = 0

PathsNext ==
  /\ UNCHANGED path
  /\ \/ path = "fragment" /\ FragmentNext /\ UNCHANGED <<relayVars, tabletScanVars>>
     \/ path = "shard" /\ RelayNext /\ UNCHANGED <<fragmentVars, tabletScanVars>>
     \/ path = "tablet" /\ TabletScanNext /\ UNCHANGED <<fragmentVars, relayVars>>

-------------------------------------------------------------------------------
\* The rows written before the SELECT, with the columns of the first row.
FragmentRows ==
  (selected # <<>> /\ ~selected[1].none) =>
    LET a == selected[1] IN
    IF a.cut THEN a.rows = <<>>
    ELSE /\ Len(a.rows) >= a.before /\ Len(a.rows) <= Len(tabletRows)
         /\ \A i \in DOMAIN a.rows : /\ a.columns = DOMAIN tabletRows[1]
                                     /\ \A c \in a.columns \cap DOMAIN tabletRows[i] : a.rows[i][c] = tabletRows[i][c]
RelayPrefix ==
  /\ IsPrefix(got, items)
  /\ (clientOpen /\ ~relayOpen) => got \o respChan = items
TabletScanned ==
  /\ \A i, j \in DOMAIN batchesSent : i < j =>
       \/ batchesSent[i].part < batchesSent[j].part
       \/ batchesSent[i].part = batchesSent[j].part /\ batchesSent[i].seg < batchesSent[j].seg
  /\ \A i \in DOMAIN batchesSent : batchesSent[i].last => tabletScan.todo = <<>> /\ i = Len(batchesSent)
  /\ (tabletScan.at = "done" /\ tabletDir # <<>>) =>
       \A x \in listed : \E i \in DOMAIN batchesSent :
         /\ <<batchesSent[i].part, batchesSent[i].seg>> = x
         /\ tabletScan.cols = <<>> => ToSet(batchesSent[i].cols) = DOMAIN tabletDir[1][x[1]]

\* What is streamed out of a storage node is what was there.  A SELECT through
\* a compute node answers with every row written before it, each once, in the
\* columns of the first row, or with nothing and a fallback; only a stream that
\* breaks between the storage and the compute node yields an empty answer in
\* place of an error.  The caller of a shard scan receives the scanner's items
\* in order, all of them if it stays.  A tablet scan sends each segment that
\* was complete when it began once, in order, with all its columns, and marks
\* no batch but the final one as last.
StreamsFaithful == FragmentRows /\ RelayPrefix /\ TabletScanned
==============================================================================
