------------------------------ MODULE WalReplay ------------------------------
(***************************************************************************)
(* replay() of the write-ahead log (storage-node/src/lsm/wal.rs): what it  *)
(* returns of the segments of Wal, in which order.                         *)
(***************************************************************************)
EXTENDS Wal, SequencesExt

\* The segments are not sorted.
MutReplayUnsorted(segments) ==
  LET seqs == SetToSortSeq(DOMAIN segments, >)
  IN  FlattenSeq([i \in DOMAIN seqs |-> ReplaySegment(segments[seqs[i]])])

\* replay: all segments in order of their sequence numbers.
Replay(segments) ==
  LET seqs == SetToSortSeq(DOMAIN segments, <)
  IN  FlattenSeq([i \in DOMAIN seqs |-> ReplaySegment(segments[seqs[i]])])

\* Replay restores entries in an order their callers could have seen: an entry
\* acknowledged before another was appended is never behind it, though two
\* flushers write batches side by side.
ReplayOrder ==
  LET log == Replay(files)
  IN  \A i, j \in DOMAIN log : i < j => log[j] \notin before[log[i]]

\* No entry is replayed twice, and none that was never appended.
ReplayOnce ==
  LET log == Replay(files)
  IN  /\ IsInjective(log)
      /\ \A i \in DOMAIN log : status[log[i]] # "new"

\* What replay rebuilds a MemTable from is a history that happened: well-formed
\* segments, every readable entry of theirs, in order, each once.
ReplayExact ==
  TypeOK /\ ReplayOrder /\ ReplayOnce /\ Range(Replay(files)) = Replayed

\* replay() returns every entry whose append returned, after any number of
\* crashes ("crash recovery: replays the valid entries of all segments").
CrashRecovery == Acked \ truncated \subseteq Range(Replay(files))
==============================================================================
