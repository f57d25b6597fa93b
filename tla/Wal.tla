--------------------------------- MODULE Wal ---------------------------------
(***************************************************************************)
(* The group-commit write-ahead log of a tablet                            *)
(* (storage-node/src/lsm/wal.rs).                                          *)
(*                                                                         *)
(* Callers of append() leave an entry in group_buf and wait.  Two parties  *)
(* empty group_buf: the background flusher (every 4 ms, or earlier when    *)
(* the batch is large) and a caller of sync().  Each writes its batch      *)
(* through the BufWriter of the current segment under the segment lock,    *)
(* rotating to a new segment file when the record would not fit, flushes,  *)
(* and notifies the waiters.  replay() reads every segment up to the first *)
(* record that is torn.                                                    *)
(*                                                                         *)
(* A record is an entry, or Torn for bytes that are not a whole record;    *)
(* segment sizes count records.  The process may crash at any point, and   *)
(* comes back by open(); file contents survive, the BufWriter does not.    *)
(***************************************************************************)
EXTENDS Naturals, Sequences, Functions

CONSTANTS
  Entries,      \* what callers append, each in one call
  Torn,         \* a record that is not whole
  MaxSegment,   \* max_segment_bytes, in records
  MaxFaults     \* bound: crashes, failed writes, flushes and opens

ASSUME BoundsAssumption ==
  /\ Torn \notin Entries
  /\ MaxSegment \in Nat \ {0}
  /\ MaxFaults \in Nat

VARIABLES
  status,       \* of each entry's append call
  group_buf,    \* GroupCommitBuffer.pending
  fpc,          \* control state of each flusher
  batch,        \* the part of a flusher's batch not yet written
  wake,         \* the entries of its batch, to be notified
  files,        \* segment files by sequence number
  cur, size,    \* Segment.seq and Segment.size
  buf,          \* contents of Segment.writer
  faults,       \* crashes and I/O errors so far
  \* History, for the properties only:
  before,       \* entries acknowledged before an entry's append was called
  errored,      \* entries of batches whose flush_batch returned an error
  truncated     \* entries in segments that truncate_before deleted

vars == <<status, group_buf, fpc, batch, wake, files, cur, size, buf, faults, before, errored, truncated>>

Flushers == {"background", "sync"}
Record == Entries \cup {Torn}

Init ==
  /\ status = [e \in Entries |-> "new"]
  /\ group_buf = <<>>
  /\ fpc = [f \in Flushers |-> "idle"]
  /\ batch = [f \in Flushers |-> <<>>]
  /\ wake = [f \in Flushers |-> {}]
  /\ files = [s \in {0} |-> <<>>]
  /\ cur = 0 /\ size = 0
  /\ buf = <<>>
  /\ faults = 0
  /\ before = [e \in Entries |-> {}]
  /\ errored = {} /\ truncated = {}

InState(st) == {e \in Entries : status[e] = st}
Goto(f, label) == fpc' = [fpc EXCEPT ![f] = label]
SegmentFree == \A f \in Flushers : fpc[f] # "write"

\* append: the entry and its Notify go to group_buf; the caller then waits.
AppendEntry(e) ==
  /\ status[e] = "new"
  /\ status' = [status EXCEPT ![e] = "waiting"]
  /\ group_buf' = Append(group_buf, e)
  /\ before' = [before EXCEPT ![e] = InState("acked")]
  /\ UNCHANGED <<fpc, batch, wake, files, cur, size, buf, faults, errored, truncated>>

\* take_all.  The background flusher goes back to its timer when there is
\* nothing; sync() goes on to flush the segment.
Take(f) ==
  /\ fpc[f] = "idle"
  /\ \/ /\ group_buf # <<>>
        /\ batch' = [batch EXCEPT ![f] = group_buf]
        /\ wake' = [wake EXCEPT ![f] = Range(group_buf)]
        /\ group_buf' = <<>>
        /\ Goto(f, "lock")
     \/ /\ group_buf = <<>> /\ f = "sync"
        /\ Goto(f, "final")
        /\ UNCHANGED <<group_buf, batch, wake>>
  /\ UNCHANGED <<status, files, cur, size, buf, faults, before, errored, truncated>>

\* flush_batch: segment.lock().
Lock(f) ==
  /\ fpc[f] = "lock"
  /\ SegmentFree
  /\ Goto(f, "write")
  /\ UNCHANGED <<status, group_buf, batch, wake, files, cur, size, buf, faults,
                 before, errored, truncated>>

\* flush_batch's loop: if the next record does not fit, the segment is flushed
\* and the next one opened ...
Rotate(f) ==
  /\ fpc[f] = "write"
  /\ batch[f] # <<>> /\ size + 1 > MaxSegment
  /\ files' = [s \in DOMAIN files \cup {cur + 1} |->
                 IF s = cur + 1 THEN <<>> ELSE IF s = cur THEN files[s] \o buf ELSE files[s]]
  /\ cur' = cur + 1
  /\ size' = 0
  /\ buf' = <<>>
  /\ UNCHANGED <<status, group_buf, fpc, batch, wake, faults, before, errored, truncated>>

\* ... and the record goes to the BufWriter.
WriteRecord(f) ==
  /\ fpc[f] = "write"
  /\ batch[f] # <<>> /\ size + 1 <= MaxSegment
  /\ batch' = [batch EXCEPT ![f] = Tail(@)]
  /\ size' = size + 1
  /\ buf' = Append(buf, Head(batch[f]))
  /\ UNCHANGED <<status, group_buf, fpc, wake, files, cur, faults, before, errored, truncated>>

\* No flush: the batch stays in the BufWriter.
MutFlushNone(f) ==
  /\ fpc[f] = "write" /\ batch[f] = <<>>
  /\ Goto(f, "notify")
  /\ UNCHANGED <<status, group_buf, batch, wake, files, cur, size, buf, faults, before,
                 errored, truncated>>

\* The single flush at the end of flush_batch, and the lock is released.
Flush(f) ==
  /\ fpc[f] = "write"
  /\ batch[f] = <<>>
  /\ files' = [files EXCEPT ![cur] = @ \o buf]
  /\ buf' = <<>>
  /\ Goto(f, "notify")
  /\ UNCHANGED <<status, group_buf, batch, wake, cur, size, faults, before, errored,
                 truncated>>

\* flush_batch returns an error: from a write, which may leave part of a record
\* in the BufWriter; or from a flush that wrote the first k buffered records
\* (all of them, when it is the next segment that cannot be opened).  The
\* background flusher notifies all the same; sync() returns the error and
\* drops the batch with its waiters.
FlushFails(f) ==
  /\ fpc[f] = "write"
  /\ faults < MaxFaults
  /\ faults' = faults + 1
  /\ LET rotating == batch[f] # <<>> /\ size + 1 > MaxSegment IN
     \/ /\ batch[f] # <<>> /\ ~rotating
        /\ buf' \in {buf, Append(buf, Torn)}
        /\ UNCHANGED files
     \/ /\ batch[f] = <<>> \/ rotating
        /\ \E k \in 0 .. Len(buf) :
             /\ k = Len(buf) => rotating
             /\ files' = [files EXCEPT ![cur] = @ \o SubSeq(buf, 1, k)]
             /\ buf' = SubSeq(buf, k + 1, Len(buf))
  /\ batch' = [batch EXCEPT ![f] = <<>>]
  /\ errored' = errored \cup wake[f]
  /\ \/ /\ f = "background"
        /\ Goto(f, "notify")
        /\ UNCHANGED wake
     \/ /\ f = "sync"
        /\ Goto(f, "idle")
        /\ wake' = [wake EXCEPT ![f] = {}]
  /\ UNCHANGED <<status, group_buf, cur, size, before, truncated>>

\* One notification for a batch.
MutNotifyOne(f) ==
  /\ fpc[f] = "notify"
  /\ status' = [e \in Entries |->
                  IF e = CHOOSE x \in wake[f] : TRUE THEN "acked" ELSE status[e]]
  /\ wake' = [wake EXCEPT ![f] = {}]
  /\ Goto(f, IF f = "sync" THEN "final" ELSE "idle")
  /\ UNCHANGED <<group_buf, batch, files, cur, size, buf, faults, before, errored,
                 truncated>>

\* notify_one for every entry of the batch: their append calls return Ok.
NotifyAll(f) ==
  /\ fpc[f] = "notify"
  /\ status' = [e \in Entries |-> IF e \in wake[f] THEN "acked" ELSE status[e]]
  /\ wake' = [wake EXCEPT ![f] = {}]
  /\ Goto(f, IF f = "sync" THEN "final" ELSE "idle")
  /\ UNCHANGED <<group_buf, batch, files, cur, size, buf, faults, before, errored,
                 truncated>>

\* sync: flush the segment once more; an error is returned to its caller.
SyncSegment ==
  /\ fpc["sync"] = "final"
  /\ SegmentFree
  /\ \/ /\ files' = [files EXCEPT ![cur] = @ \o buf]
        /\ buf' = <<>>
        /\ UNCHANGED faults
     \/ /\ faults < MaxFaults
        /\ faults' = faults + 1
        /\ \E k \in 0 .. Len(buf) - 1 :
             /\ files' = [files EXCEPT ![cur] = @ \o SubSeq(buf, 1, k)]
             /\ buf' = SubSeq(buf, k + 1, Len(buf))
  /\ Goto("sync", "idle")
  /\ UNCHANGED <<status, group_buf, batch, wake, cur, size, before, errored, truncated>>

\* truncate_before(up_to): delete older segments.  The current one is read
\* under the segment lock; a file that cannot be removed stays.
Truncate(up_to, kept) ==
  /\ SegmentFree
  /\ LET gone == {s \in DOMAIN files : s < up_to /\ s < cur} \ kept IN
     /\ gone # {}
     /\ files' = Restrict(files, DOMAIN files \ gone)
     /\ truncated' = truncated \cup (UNION {Range(files[s]) : s \in gone})
  /\ UNCHANGED <<status, group_buf, fpc, batch, wake, cur, size, buf, faults, before,
                 errored>>

\* open() truncates the latest segment.
MutCrashTruncate(k, torn) ==
  /\ faults < MaxFaults
  /\ faults' = faults + 1
  /\ files' = [files EXCEPT ![cur] = <<>>]
  /\ size' = 0
  /\ buf' = <<>> /\ group_buf' = <<>>
  /\ fpc' = [f \in Flushers |-> "idle"]
  /\ batch' = [f \in Flushers |-> <<>>]
  /\ wake' = [f \in Flushers |-> {}]
  /\ status' = [e \in Entries |-> IF status[e] = "waiting" THEN "crashed" ELSE status[e]]
  /\ UNCHANGED <<cur, before, errored, truncated>>

\* The process dies and open() runs: the first k buffered records had reached
\* the file, perhaps with part of the next.  The latest segment is continued
\* in append mode at its present length.
Crash(k, torn) ==
  /\ faults < MaxFaults
  /\ faults' = faults + 1
  /\ torn => k < Len(buf)
  /\ files' = [files EXCEPT ![cur] = @ \o (SubSeq(buf, 1, k) \o (IF torn THEN <<Torn>> ELSE <<>>))]
  /\ cur' \in DOMAIN files /\ \A s \in DOMAIN files : s <= cur'
  /\ size' = Len(files'[cur'])
  /\ buf' = <<>>
  /\ group_buf' = <<>>
  /\ fpc' = [f \in Flushers |-> "idle"]
  /\ batch' = [f \in Flushers |-> <<>>]
  /\ wake' = [f \in Flushers |-> {}]
  /\ status' = [e \in Entries |-> IF status[e] = "waiting" THEN "crashed" ELSE status[e]]
  /\ UNCHANGED <<before, errored, truncated>>

FlusherStep(f) ==
  \/ Take(f) \/ Lock(f) \/ Rotate(f) \/ WriteRecord(f) \/ Flush(f) \/ FlushFails(f)
  \/ NotifyAll(f)

Next ==
  \/ \E e \in Entries : AppendEntry(e)
  \/ \E f \in Flushers : FlusherStep(f)
  \/ SyncSegment
  \/ \E up_to \in 0 .. cur, kept \in SUBSET DOMAIN files : Truncate(up_to, kept)
  \/ \E k \in 0 .. Len(buf), torn \in BOOLEAN : Crash(k, torn)

\* tokio runs every task that can run and its Mutex is fair.  Nobody need
\* call append, sync or truncate_before.
Fairness ==
  /\ WF_vars(Take("background"))
  /\ \A f \in Flushers : /\ SF_vars(Lock(f))
                         /\ WF_vars(Rotate(f) \/ WriteRecord(f) \/ Flush(f))
                         /\ WF_vars(NotifyAll(f))
  /\ SF_vars(SyncSegment)

Spec == Init /\ [][Next]_vars /\ Fairness
-----------------------------------------------------------------------------
\* replay_segment: the records up to the first that is not whole.
ReplaySegment(records) ==
  LET last == CHOOSE k \in 0 .. Len(records) :
                /\ \A i \in 1 .. k : records[i] # Torn
                /\ k < Len(records) => records[k + 1] = Torn
  IN  SubSeq(records, 1, last)

\* The entries that a replay returns, whatever their order.
Replayed == UNION {Range(ReplaySegment(files[s])) : s \in DOMAIN files}

Acked == InState("acked")

\* Entries in the log but behind a record that is not whole.
Hidden == UNION {Range(files[s]) \ Range(ReplaySegment(files[s])) : s \in DOMAIN files}

TypeOK ==
  /\ status \in [Entries -> {"new", "waiting", "acked", "crashed"}]
  /\ group_buf \in Seq(Entries)
  /\ fpc \in [Flushers -> {"idle", "lock", "write", "notify", "final"}]
  /\ batch \in [Flushers -> Seq(Entries)]
  /\ wake \in [Flushers -> SUBSET Entries]
  /\ DOMAIN files \subseteq Nat /\ \A s \in DOMAIN files : files[s] \in Seq(Record)
  /\ cur \in DOMAIN files /\ size \in Nat
  /\ buf \in Seq(Record)
  /\ faults \in 0 .. MaxFaults
  /\ before \in [Entries -> SUBSET Entries]
  /\ errored \subseteq Entries /\ truncated \subseteq Record

\* An append that returned Ok is found by a replay made at any later moment,
\* through crashes, rotations and truncations by others, except where
\* flush_batch had failed for it, or where it was written behind the torn
\* record of an earlier crash or failed write, in the same segment.
AckedReplayed ==
  \A e \in Acked \ (errored \cup truncated) : e \in Replayed \cup Hidden

\* What a replay would return is never taken back, but by truncate_before:
\* neither a crash nor a later writer of the segment hides it.
ReplayGrows ==
  [][Replayed \subseteq Replayed' \cup truncated']_vars

\* Every append returns, unless the process crashes or its batch was the one
\* that a failing sync() dropped.
AppendReturns ==
  \A e \in Entries : status[e] = "waiting" ~> status[e] # "waiting" \/ e \in errored
==============================================================================
