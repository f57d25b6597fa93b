------------------------------ MODULE QueryPath ------------------------------
(***************************************************************************)
(* INSERT, SELECT and TRUNCATE of one table as the query node runs them    *)
(* (executor/insert_exec.rs, executor/select_exec.rs, executor/mem_store.rs*)
(* storage_client.rs, mysql_protocol/handler.rs).                          *)
(*                                                                         *)
(* MEM_STORE is shared by all connections and is both the fallback copy of *)
(* what was inserted and the work area of SELECT: a SELECT copies the rows *)
(* of all storage nodes into it, replacing what is there, and evaluates    *)
(* the query on it.  Only the calls to the storage nodes are under the     *)
(* STORAGE mutex; each operation on MEM_STORE is atomic by itself.         *)
(*                                                                         *)
(* A row is a number, unique to the INSERT that brought it.  A connection  *)
(* of the pool is reopened on demand, so all that matters of it is that a  *)
(* call may fail.                                                          *)
(***************************************************************************)
EXTENDS Naturals, Sequences, FiniteSets, SequencesExt

CONSTANTS
  StorageNodes,     \* 1 .. N: the storage nodes of STORAGE_NODES, in order
  Connections,      \* MySQL connections
  Batches,          \* sequences of rows, each the VALUES of one INSERT
  MaxSelects,       \* bound on SELECTs
  MaxTruncates,     \* bound on TRUNCATEs
  MaxSnFaults       \* bound on failed calls and on MemTable flushes

VARIABLES
  conf,        \* [sn, cn]: configured storage nodes, and, when there are none,
               \* whether compute nodes are (they are not used otherwise)
  memStore,    \* MEM_STORE: the rows of the table, in order
  snRows,      \* what ScanTablet of each storage node returns
  poolLock,    \* holder of the STORAGE mutex, or "free"
  stmt,        \* the statement each connection is executing
  issued,      \* counts of statements and faults
  \* History, for the properties only:
  unsure,      \* rows whose storage-node write failed, or that were flushed or truncated
  stored,      \* rows of acknowledged INSERTs
  answer       \* the answer of the SELECT just finished: [rows, alone, healthy, sure]

queryVars == <<conf, memStore, snRows, poolLock, stmt, issued, unsure, stored, answer>>

Idle == [op |-> "idle", rows |-> <<>>, nodes |-> <<>>, alone |-> FALSE, healthy |-> TRUE, had |-> {}]
NoAnswer == [rows |-> <<>>, alone |-> FALSE, healthy |-> FALSE, sure |-> {}]
NodeSeq == SetToSortSeq(conf.sn, LAMBDA a, b : a < b)
QBounds == [select |-> MaxSelects, truncate |-> MaxTruncates, fault |-> MaxSnFaults]
Issue(what) == /\ issued[what] < QBounds[what]
               /\ issued' = [issued EXCEPT ![what] = @ + 1]

QueryInit ==
  /\ conf \in [sn : {{}}, cn : BOOLEAN] \cup [sn : {StorageNodes}, cn : {FALSE}]
  /\ memStore = <<>>
  /\ snRows = [n \in StorageNodes |-> <<>>]
  /\ poolLock = "free"
  /\ stmt = [c \in Connections |-> Idle]
  /\ issued = [what \in DOMAIN QBounds |-> 0]
  /\ unsure = {} /\ stored = {} /\ answer = NoAnswer

\* Every statement under way stops being alone when another one starts.
Begin(c, s) ==
  LET busy == {d \in Connections \ {c} : stmt[d].op # "idle"} IN
  /\ stmt[c].op = "idle"
  /\ stmt' = [d \in Connections |->
                IF d = c THEN [s EXCEPT !.alone = busy = {}] ELSE [stmt[d] EXCEPT !.alone = FALSE]]
  /\ answer' = NoAnswer

Step(c, s) == stmt' = [stmt EXCEPT ![c] = s]
Finish(c) == Step(c, Idle)

\* shard_index: the node a row's distribution key hashes to.
ShardIndex(r) == NodeSeq[1 + (r % Len(NodeSeq))]

\* A batch is in use once it is acknowledged, stored or being inserted.
Fresh(b) == \A r \in ToSet(b) :
              /\ r \notin stored \cup unsure
              /\ \A n \in StorageNodes : r \notin ToSet(snRows[n])
              /\ \A c \in Connections : r \notin stmt[c].had

\* INSERT: columns matched and rows parsed.  A column count that does not
\* match returns an error here and changes nothing.
ExecuteInsert(c, b) ==
  /\ Fresh(b)
  /\ Begin(c, [Idle EXCEPT !.op = IF conf.sn = {} THEN "insert_mem" ELSE "insert_sn",
                           !.rows = b, !.nodes = NodeSeq, !.had = ToSet(b)])
  /\ UNCHANGED <<conf, memStore, snRows, poolLock, issued, unsure, stored>>

\* The STORAGE mutex is taken before the first call, ...
Locked(c) == poolLock \in {"free", c}

\* ... and released after the last.
NodeDone(c, s, next) ==
  LET left == Tail(s.nodes) IN
  IF left = <<>>
  THEN Step(c, [s EXCEPT !.op = next, !.nodes = <<>>]) /\ poolLock' = "free"
  ELSE Step(c, [s EXCEPT !.nodes = left]) /\ poolLock' = c

\* write_rows_sharded: the node's bucket is written.  A failed write drops
\* the client and is ignored; the node may have stored the rows all the same.
WriteRowsSharded(c) ==
  LET s == stmt[c]
      n == Head(s.nodes)
      bucket == SelectSeq(s.rows, LAMBDA r : ShardIndex(r) = n) IN
  /\ s.op = "insert_sn" /\ Locked(c)
  /\ NodeDone(c, s, "insert_mem")
  /\ \/ /\ snRows' = [snRows EXCEPT ![n] = @ \o bucket]
        /\ UNCHANGED <<issued, unsure>>
     \/ /\ bucket # <<>>
        /\ Issue("fault")
        /\ \/ UNCHANGED snRows
           \/ snRows' = [snRows EXCEPT ![n] = @ \o bucket]
        /\ unsure' = unsure \cup ToSet(bucket)
  /\ UNCHANGED <<conf, memStore, stored, answer>>

\* The last row of the statement is left out.
MutInsertMem(c) ==
  LET s == stmt[c] IN
  /\ s.op = "insert_mem"
  /\ IF Len(s.rows) <= 1
     THEN /\ stored' = stored \cup s.had
          /\ Finish(c)
          /\ UNCHANGED memStore
     ELSE /\ memStore' = Append(memStore, Head(s.rows))
          /\ Step(c, [s EXCEPT !.rows = Tail(@)])
          /\ UNCHANGED stored
  /\ UNCHANGED <<conf, snRows, poolLock, issued, unsure, answer>>

\* MEM_STORE.insert for each row, whatever became of the storage-node write;
\* after the last one the client is told so.
InsertMem(c) ==
  LET s == stmt[c] IN
  /\ s.op = "insert_mem"
  /\ IF s.rows = <<>>
     THEN /\ stored' = stored \cup s.had
          /\ Finish(c)
          /\ UNCHANGED memStore
     ELSE /\ memStore' = Append(memStore, Head(s.rows))
          /\ Step(c, [s EXCEPT !.rows = Tail(@)])
          /\ UNCHANGED stored
  /\ UNCHANGED <<conf, snRows, poolLock, issued, unsure, answer>>

\* SELECT.  sn_count() decides between the storage nodes, a compute node and
\* MEM_STORE alone.  `had` keeps what was acknowledged when it began.
ExecuteSelect(c) ==
  /\ Issue("select")
  /\ Begin(c, [Idle EXCEPT !.op = IF conf.sn # {} THEN "select_sn"
                                   ELSE IF conf.cn THEN "select_cn" ELSE "select_read",
                           !.nodes = NodeSeq, !.had = stored])
  /\ UNCHANGED <<conf, memStore, snRows, poolLock, unsure, stored>>

\* scan_all_rows: the rows of the next node are appended; a node that cannot
\* be reached, or whose scan fails, is skipped.  An empty merge leaves
\* MEM_STORE as it is.
ScanAllRows(c) ==
  LET s == stmt[c]
      n == Head(s.nodes)
      full == [s EXCEPT !.rows = @ \o snRows[n]] IN
  /\ s.op = "select_sn" /\ Locked(c)
  /\ \/ /\ NodeDone(c, full, IF full.rows = <<>> THEN "select_read" ELSE "select_drop")
        /\ UNCHANGED issued
     \/ /\ Issue("fault")
        /\ NodeDone(c, [s EXCEPT !.healthy = FALSE], IF s.rows = <<>> THEN "select_read" ELSE "select_drop")
  /\ UNCHANGED <<conf, memStore, snRows, unsure, stored, answer>>

\* MEM_STORE.drop_table ...
SelectDrop(c) ==
  /\ stmt[c].op = "select_drop"
  /\ memStore' = <<>>
  /\ Step(c, [stmt[c] EXCEPT !.op = "select_fill"])
  /\ UNCHANGED <<conf, snRows, poolLock, issued, unsure, stored, answer>>

\* ... and MEM_STORE.insert, row by row.
SelectFill(c) ==
  LET s == stmt[c] IN
  /\ s.op = "select_fill"
  /\ memStore' = Append(memStore, Head(s.rows))
  /\ Step(c, [s EXCEPT !.rows = Tail(@), !.op = IF Len(s.rows) = 1 THEN "select_read" ELSE "select_fill"])
  /\ UNCHANGED <<conf, snRows, poolLock, issued, unsure, stored, answer>>

\* Without storage nodes the compute node is sent an empty endpoint: it
\* cannot scan, answers with an error, and MEM_STORE is read as it is.
CnExecuteSelect(c) ==
  /\ stmt[c].op = "select_cn"
  /\ Step(c, [stmt[c] EXCEPT !.op = "select_read"])
  /\ UNCHANGED <<conf, memStore, snRows, poolLock, issued, unsure, stored, answer>>

\* execute_select_sync evaluates the query on a copy of MEM_STORE.
SelectRead(c) ==
  LET s == stmt[c] IN
  /\ s.op = "select_read"
  /\ answer' = [rows |-> memStore, alone |-> s.alone, healthy |-> s.healthy, sure |-> s.had \ unsure]
  /\ Finish(c)
  /\ UNCHANGED <<conf, memStore, snRows, poolLock, issued, unsure, stored>>

\* DELETE FROM / TRUNCATE: MEM_STORE first, then the first storage node over
\* HTTP.  A failed request is ignored.
Truncate(c) ==
  /\ Issue("truncate")
  /\ Begin(c, [Idle EXCEPT !.op = "truncate_sn"])
  /\ memStore' = <<>>
  /\ unsure' = unsure \cup stored \cup UNION {stmt[d].had : d \in Connections}
  /\ UNCHANGED <<conf, snRows, poolLock, stored>>

TruncateSn(c) ==
  /\ stmt[c].op = "truncate_sn"
  /\ Finish(c)
  /\ \/ /\ snRows' = IF conf.sn = {} THEN snRows ELSE [snRows EXCEPT ![NodeSeq[1]] = <<>>]
        /\ UNCHANGED issued
     \/ /\ Issue("fault")
        /\ UNCHANGED snRows
  /\ unsure' = unsure \cup UNION {ToSet(snRows[n]) : n \in StorageNodes}
  /\ UNCHANGED <<conf, memStore, poolLock, stored, answer>>

\* A full MemTable is flushed on the storage node: ScanTablet reads the
\* MemTable only (see Tablet), so the rows are no longer scanned.
SnFlush(n) ==
  /\ snRows[n] # <<>>
  /\ Issue("fault")
  /\ snRows' = [snRows EXCEPT ![n] = <<>>]
  /\ unsure' = unsure \cup ToSet(snRows[n])
  /\ UNCHANGED <<conf, memStore, poolLock, stmt, stored, answer>>

QueryNext ==
  \/ \E c \in Connections :
       \/ \E b \in Batches : ExecuteInsert(c, b)
       \/ WriteRowsSharded(c) \/ InsertMem(c)
       \/ ExecuteSelect(c) \/ ScanAllRows(c)
       \/ SelectDrop(c) \/ SelectFill(c) \/ CnExecuteSelect(c) \/ SelectRead(c)
       \/ Truncate(c) \/ TruncateSn(c)
  \/ \E n \in StorageNodes : SnFlush(n)

-------------------------------------------------------------------------------
Occurs(r, s) == Cardinality({i \in DOMAIN s : s[i] = r})

\* A SELECT that no other statement overlaps, and whose storage nodes all
\* answer, returns every row that was acknowledged before it began exactly
\* once -- whatever earlier SELECTs and INSERTs, interleaved on MEM_STORE,
\* left there -- unless the row's own storage-node write failed, or it was
\* flushed from the scanned MemTable or truncated.
QuietSelectExact ==
  answer.alone /\ answer.healthy => \A r \in answer.sure : Occurs(r, answer.rows) = 1
==============================================================================
