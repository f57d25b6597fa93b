-------------------------------- MODULE Tablet -------------------------------
(***************************************************************************)
(* One tablet of a storage node: the write path WAL -> MemTable -> SSTable *)
(* -> L0 (storage-node/src/grpc/write.rs, lsm/sstable.rs), the registry    *)
(* that creates and drops its TabletWriter, and the gRPC handlers on top   *)
(* (grpc/server.rs).                                                       *)
(*                                                                         *)
(* The registry holds at most one writer, but a dropped writer lives on in *)
(* the calls and flush tasks that still refer to it.  Its log file may be  *)
(* an unlinked one: `epoch` counts the deletions of the tablet's           *)
(* directory, and a writer's log is in the directory iff it was opened in  *)
(* the present epoch.  SSTable files are written by path, so they always   *)
(* land in the present directory.                                          *)
(*                                                                         *)
(* The log is the set of rows whose batch record is on disk: Wal shows     *)
(* when an append that has returned is there.  PREPARE, COMMIT and         *)
(* ROLLBACK records are skipped by replay and left out.                    *)
(***************************************************************************)
EXTENDS Naturals, Sequences, FiniteSets

CONSTANTS
  Rows,          \* batches of rows, each written by one WriteRows call
  Threshold,     \* entries that fill the MemTable
  MaxCrashes, MaxDrops, MaxFailures, MaxRollbacks  \* bounds

ASSUME ThresholdAssumption ==
  /\ Threshold \in Nat \ {0}
  /\ {MaxCrashes, MaxDrops, MaxFailures, MaxRollbacks} \subseteq Nat

VARIABLES
  reg,           \* TabletWriterRegistry.writers: number of the writer, 0 for none
  writers,       \* TabletWriters made since the process started, by number
  calls,         \* WriteRows calls: [pc, writer]
  tasks,         \* spawned flushes: [writer, rows, seq, pc]
  dropping,      \* drop_tablet is between its two halves
  epoch,         \* directory deletions so far
  wal, cols, meta,  \* the directory: logged rows; column files and _meta by seq
  bound,         \* how often the bounded actions have happened
  \* History, for the properties only:
  purged,        \* rows acknowledged before the last drop_tablet began
  failed,        \* rows whose flush failed in this process
  raced          \* a drop_tablet overlapped another operation or did not finish

vars == <<reg, writers, calls, tasks, dropping, epoch, wal, cols, meta, bound, purged, failed, raced>>
disk == <<epoch, wal, cols, meta>>
history == <<purged, failed, raced>>

NoFiles == [s \in {} |-> {}]
Bounds == [crash |-> MaxCrashes, drop |-> MaxDrops, failure |-> MaxFailures, rollback |-> MaxRollbacks]
Count(what) == /\ bound[what] < Bounds[what]
               /\ bound' = [bound EXCEPT ![what] = @ + 1]

Init ==
  /\ reg = 0 /\ writers = <<>>
  /\ calls = [r \in Rows |-> [pc |-> "new", writer |-> 0]]
  /\ tasks = {}
  /\ dropping = FALSE
  /\ epoch = 0 /\ wal = {} /\ cols = NoFiles /\ meta = NoFiles
  /\ bound = [what \in DOMAIN Bounds |-> 0]
  /\ purged = {} /\ failed = {} /\ raced = FALSE

InState(pcs) == {r \in Rows : calls[r].pc \in pcs}
Acked == InState({"acked"})
Put(f, s, v) == [x \in DOMAIN f \cup {s} |-> IF x = s THEN v ELSE f[x]]
Size(w) == Cardinality(w.mem) + w.tombs
Replace(i, w) == writers' = [writers EXCEPT ![i] = w]

\* TabletWriter::new: empty levels, a counter from 0, and the MemTable
\* rebuilt from every row in the log.
NewWriter == [mem |-> wal, tombs |-> 0, levels |-> {}, next |-> 0, epoch |-> epoch]

\* get_or_create, under the registry lock.  It is the first thing WriteRows
\* and ScanTablet do.
GetOrCreate(i) ==
  \/ /\ reg # 0 /\ i = reg
     /\ UNCHANGED <<reg, writers, raced>>
  \/ /\ reg = 0 /\ i = Len(writers) + 1
     /\ reg' = i
     /\ writers' = Append(writers, NewWriter)
     /\ raced' = (raced \/ dropping)

WriteRows(r, i) ==
  /\ calls[r].pc = "new"
  /\ GetOrCreate(i)
  /\ calls' = [calls EXCEPT ![r] = [pc |-> "writer", writer |-> i]]
  /\ UNCHANGED <<tasks, dropping, disk, bound, purged, failed>>

\* ScanTablet: only get_or_create changes anything.
ScanTablet(i) ==
  /\ reg = 0
  /\ GetOrCreate(i)
  /\ UNCHANGED <<calls, tasks, dropping, disk, bound, purged, failed>>

MutLogRow(r) ==
  /\ calls[r].pc = "writer"
  /\ calls' = [calls EXCEPT ![r].pc = "logged"]
  /\ UNCHANGED <<reg, writers, tasks, dropping, disk, bound, history>>

\* wal.append has put the batch on disk.
LogRow(r) ==
  /\ calls[r].pc = "writer"
  /\ calls' = [calls EXCEPT ![r].pc = "logged"]
  /\ wal' = IF writers[calls[r].writer].epoch = epoch THEN wal \cup {r} ELSE wal
  /\ UNCHANGED <<reg, writers, tasks, dropping, epoch, cols, meta, bound, history>>

\* The MemTable is not reset after the snapshot.
MutInsertRow(r) ==
  LET i == calls[r].writer
      w == [writers[i] EXCEPT !.mem = @ \cup {r}] IN
  /\ calls[r].pc = "logged"
  /\ calls' = [calls EXCEPT ![r].pc = "acked"]
  /\ tasks' = IF Size(w) < Threshold THEN tasks
              ELSE tasks \cup {[writer |-> i, rows |-> w.mem, seq |-> 0, pc |-> "spawned"]}
  /\ Replace(i, w)
  /\ UNCHANGED <<reg, dropping, disk, bound, history>>

\* Under the MemTable lock: insert and, when full, snapshot, reset and spawn
\* the flush.  The call returns Ok.
InsertRow(r) ==
  LET i == calls[r].writer
      w == [writers[i] EXCEPT !.mem = @ \cup {r}] IN
  /\ calls[r].pc = "logged"
  /\ calls' = [calls EXCEPT ![r].pc = "acked"]
  /\ \/ /\ Size(w) >= Threshold
        /\ tasks' = tasks \cup {[writer |-> i, rows |-> w.mem, seq |-> 0, pc |-> "spawned"]}
        /\ Replace(i, [w EXCEPT !.mem = {}, !.tombs = 0])
     \/ /\ Size(w) < Threshold
        /\ Replace(i, w)
        /\ UNCHANGED tasks
  /\ UNCHANGED <<reg, dropping, disk, bound, history>>

Advance(t, u) == tasks' = (tasks \ {t}) \cup {u}

\* The flush task: seq_counter.next(), ...
FlushStart(t) ==
  LET w == writers[t.writer] IN
  /\ t.pc = "spawned"
  /\ Advance(t, [t EXCEPT !.seq = w.next, !.pc = "cols"])
  /\ Replace(t.writer, [w EXCEPT !.next = @ + 1])
  /\ UNCHANGED <<reg, calls, dropping, disk, bound, history>>

\* ... flush_column for every column, ...
FlushCols(t) ==
  /\ t.pc = "cols"
  /\ cols' = Put(cols, t.seq, t.rows)
  /\ Advance(t, [t EXCEPT !.pc = "meta"])
  /\ UNCHANGED <<reg, writers, calls, dropping, epoch, wal, meta, bound, history>>

\* ... and last the _meta file, then levels.add.
FlushMeta(t) ==
  /\ t.pc = "meta"
  /\ meta' = Put(meta, t.seq, t.rows)
  /\ Replace(t.writer, [writers[t.writer] EXCEPT !.levels = @ \cup {[seq |-> t.seq, rows |-> t.rows]}])
  /\ tasks' = tasks \ {t}
  /\ UNCHANGED <<reg, calls, dropping, epoch, wal, cols, bound, history>>

\* An I/O error: logged, and the snapshot is gone.
FlushFails(t) ==
  /\ t.pc # "spawned"
  /\ Count("failure")
  /\ tasks' = tasks \ {t}
  /\ failed' = failed \cup t.rows
  /\ UNCHANGED <<reg, writers, calls, dropping, disk, purged, raced>>

\* rollback(tx_id): a tombstone under the key tx_id; no row has that key.
Rollback ==
  /\ reg # 0
  /\ Count("rollback")
  /\ Replace(reg, [writers[reg] EXCEPT !.tombs = @ + 1])
  /\ UNCHANGED <<reg, calls, tasks, dropping, disk, history>>

\* drop_tablet, first half: out of the registry.  Operations already under
\* way on the writer are not waited for.
Unregister ==
  /\ ~dropping
  /\ Count("drop")
  /\ dropping' = TRUE
  /\ reg' = 0
  /\ purged' = Acked
  /\ raced' = (raced \/ tasks # {} \/ InState({"writer", "logged"}) # {})
  /\ UNCHANGED <<writers, calls, tasks, disk, failed>>

\* Only the SSTables are deleted.
MutPurge ==
  /\ dropping
  /\ dropping' = FALSE
  /\ epoch' = epoch + 1
  /\ cols' = NoFiles /\ meta' = NoFiles
  /\ UNCHANGED <<reg, writers, calls, tasks, wal, bound, history>>

\* Second half, outside the lock: remove_dir_all, whose failure is ignored.
Purge ==
  /\ dropping
  /\ dropping' = FALSE
  /\ \/ /\ epoch' = epoch + 1
        /\ wal' = {} /\ cols' = NoFiles /\ meta' = NoFiles
        /\ UNCHANGED <<bound, raced>>
     \/ /\ Count("failure")
        /\ raced' = TRUE
        /\ UNCHANGED disk
  /\ UNCHANGED <<reg, writers, calls, tasks, purged, failed>>

\* The process dies and starts again.
Crash ==
  /\ Count("crash")
  /\ reg' = 0 /\ writers' = <<>> /\ tasks' = {}
  /\ calls' = [r \in Rows |-> IF calls[r].pc \in {"writer", "logged"}
                              THEN [pc |-> "lost", writer |-> 0] ELSE [calls[r] EXCEPT !.writer = 0]]
  /\ dropping' = FALSE
  /\ raced' = (raced \/ dropping)
  /\ failed' = {}
  /\ UNCHANGED <<disk, purged>>

Next ==
  \/ \E r \in Rows, i \in 1 .. Len(writers) + 1 : WriteRows(r, i)
  \/ \E i \in 1 .. Len(writers) + 1 : ScanTablet(i)
  \/ \E r \in Rows : LogRow(r) \/ InsertRow(r)
  \/ \E t \in tasks : FlushStart(t) \/ FlushCols(t) \/ FlushMeta(t) \/ FlushFails(t)
  \/ Rollback \/ Unregister \/ Purge \/ Crash

Spec == Init /\ [][Next]_vars

-------------------------------------------------------------------------------
TypeOK ==
  /\ reg \in 0 .. Len(writers)
  /\ \A i \in 1 .. Len(writers) :
       LET w == writers[i] IN
       /\ w.mem \subseteq Rows /\ w.tombs \in 0 .. MaxRollbacks /\ w.epoch \in 0 .. epoch
       /\ \A s \in w.levels : s.seq < w.next /\ s.rows \subseteq Rows
  /\ calls \in [Rows -> [pc : {"new", "writer", "logged", "acked", "lost"}, writer : 0 .. Len(writers)]]
  /\ \A t \in tasks : t.writer \in 1 .. Len(writers) /\ t.pc \in {"spawned", "cols", "meta"}
  /\ wal \subseteq Rows
  /\ DOMAIN meta \subseteq Nat /\ DOMAIN cols \subseteq Nat

\* Write-ahead: an acknowledged row is in the log of the present directory, so
\* the next TabletWriter::new brings it back, whatever happens to the
\* MemTable, to the snapshot being flushed and to the SSTables -- unless
\* drop_tablet purged it, or overlapped another operation.
WriteAhead == ~raced => Acked \ purged \subseteq wal

\* Where the registered writer has a row: the MemTable, a snapshot being
\* flushed, an L0 SSTable, or the snapshots lost to an I/O error.
PlacesOf(r) ==
  {<<"snapshot", t>> : t \in {u \in tasks : r \in u.rows}}
  \cup {<<"sstable", s>> : s \in {u \in writers[reg].levels : r \in u.rows}}
  \cup (IF r \in writers[reg].mem THEN {<<"memtable", r>>} ELSE {})
  \cup (IF r \in failed THEN {<<"failed", r>>} ELSE {})

\* An acknowledged row is in exactly one of these places.  No interleaving of
\* inserts, flush tasks and restarts duplicates it or drops it.
OnePlace ==
  ~raced /\ reg # 0 =>
    \A r \in Acked \ purged : \E p \in PlacesOf(r) : PlacesOf(r) = {p}

\* The SSTables a writer lists in L0 are on disk as it lists them, data and
\* metadata, though their flush tasks run concurrently and a task of an
\* earlier process may have left other files under the same number.
LevelsOnDisk ==
  ~raced /\ reg # 0 =>
    \A s \in writers[reg].levels :
      /\ s.seq \in DOMAIN meta /\ s.seq \in DOMAIN cols
      /\ meta[s.seq] = s.rows /\ cols[s.seq] = s.rows

\* A row is neither lost nor doubled inside a tablet: one place for it, and
\* what is listed is what is on disk.
RowsInPlace == TypeOK /\ OnePlace /\ LevelsOnDisk

\* TRUNCATE empties the tablet: once drop_tablet has returned, no row
\* acknowledged before it is in the log, in a file or in the MemTable.
TruncatedGone ==
  ~raced /\ ~dropping =>
    purged \cap (wal \cup (IF reg = 0 THEN {} ELSE writers[reg].mem)
                 \cup (UNION {cols[s] : s \in DOMAIN cols})
                 \cup (UNION {meta[s] : s \in DOMAIN meta})) = {}

\* What sstable.rs:129 says of PartitionSeqCounter, "one monotonically
\* increasing SST sequence counter per partition": no two SSTables of a
\* tablet are ever written under the same number.
SeqNeverReused ==
  [][\A s \in DOMAIN meta \cap DOMAIN meta' : meta'[s] = meta[s]]_vars
==============================================================================
