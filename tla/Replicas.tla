------------------------------- MODULE Replicas ------------------------------
(***************************************************************************)
(* Which replica of a shard answers (query-node/src/meta/shard_map.rs).    *)
(***************************************************************************)
EXTENDS Integers, Sequences, FiniteSetsExt, SequencesExt

\* best_replica: a Normal leader, else the Normal replica with the highest LSN,
\* else the first that is not Offline.
BestReplica(replicas) ==
  LET Leaders == SelectSeq(replicas, LAMBDA r : r.role = "Leader" /\ r.state = "Normal")
      Normals == SelectSeq(replicas, LAMBDA r : r.state = "Normal")
      Live == SelectSeq(replicas, LAMBDA r : r.state # "Offline") IN
  CASE Leaders # <<>> -> <<Leaders[1]>>
    [] Leaders = <<>> /\ Normals # <<>> ->
         <<Normals[Max({i \in DOMAIN Normals : \A j \in DOMAIN Normals : Normals[j].lsn <= Normals[i].lsn})]>>
    [] OTHER -> IF Live = <<>> THEN <<>> ELSE <<Live[1]>>
==============================================================================
