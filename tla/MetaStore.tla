----------------------------- MODULE MetaStore -----------------------------
(* RaftManager of query-node/src/raft/mod.rs: the metadata key-value map   *)
(* behind every catalogue of a query node.  A write applies its command    *)
(* under the lock, copies the map and, after the lock is released, writes  *)
(* the copy to raft_snapshot.json.tmp and renames it.  All writers share   *)
(* that one temporary file.  A restart loads the renamed file.             *)
CONSTANTS
  Tasks,      \* the tasks that call write
  Keys,       \* keys of the map
  Values,     \* values, abstracted
  None,       \* no value; no file
  Empty,      \* the content of a file that was opened and not yet written
  Torn        \* bytes of two snapshots in one file

ASSUME MarkersDiffer ==
  /\ Empty # None /\ Torn # None /\ Empty # Torn
  /\ {None, Empty, Torn} \cap [Keys -> Values \cup {None}] = {}

VARIABLES
  kv,         \* MetaStateMachine.kv
  snap,       \* the file raft_snapshot.json
  tmp,        \* the file raft_snapshot.json.tmp
  call        \* Tasks -> the write each task is in

storeVars == <<kv, snap, tmp, call>>

MetaStateMachine_default == [k \in Keys |-> None]

Idle == [pc |-> "idle", key |-> None, val |-> None, json |-> None, fd |-> "none"]

InitStore ==
  /\ kv = MetaStateMachine_default
  /\ snap = None
  /\ tmp = None
  /\ call = [t \in Tasks |-> Idle]

\* An unreadable file (absent, cut short or mixed) gives an empty map.
load_from_file(content) ==
  IF content \in {None, Empty, Torn} THEN MetaStateMachine_default ELSE content

\* The call write(cmd): a command sets a key (UpsertKv, UpsertCube,
\* RegisterTablet, UpdateStats, SessionSet) or removes it (val = None).
Write(t, key, val) ==
  call' = [call EXCEPT ![t] = [pc |-> "apply", key |-> key, val |-> val, json |-> None, fd |-> "none"]]

\* sm.apply(&cmd) and sm.kv.clone(), under one write lock.
Apply(t) ==
  /\ call[t].pc = "apply"
  /\ kv' = [kv EXCEPT ![call[t].key] = call[t].val]
  /\ call' = [call EXCEPT ![t] = [@ EXCEPT !.pc = "open", !.json = kv']]
  /\ UNCHANGED <<snap, tmp>>

\* fs::write creates or truncates the temporary file ...
Open(t) ==
  /\ call[t].pc = "open"
  /\ tmp' = Empty
  /\ call' = [call EXCEPT ![t] = [@ EXCEPT !.pc = "write", !.fd = "tmp"]]
  /\ UNCHANGED <<kv, snap>>

\* What a file holds after json is written from its start: the longer of two
\* different texts leaves its tail behind.
Overwritten(content, json) == IF content \in {Empty, json} THEN {json} ELSE {json, Torn}

\* ... and writes through its descriptor, which may have been renamed to the
\* snapshot, or unlinked, by another task's rename.
WriteAll(t) ==
  /\ call[t].pc = "write"
  /\ CASE call[t].fd = "tmp"  -> tmp' \in Overwritten(tmp, call[t].json) /\ UNCHANGED snap
       [] call[t].fd = "snap" -> snap' \in Overwritten(snap, call[t].json) /\ UNCHANGED tmp
       [] OTHER               -> UNCHANGED <<snap, tmp>>
  /\ call' = [call EXCEPT ![t].pc = "rename"]
  /\ UNCHANGED kv

\* The descriptors of the other writers follow their files.
Moved == [t \in Tasks |->
  [call[t] EXCEPT !.fd = CASE @ = "tmp" -> "snap" [] @ = "snap" -> "gone" [] OTHER -> @]]

\* The rename fails, with a warning, when another task has renamed the file.
Rename(t) ==
  /\ call[t].pc = "rename"
  /\ IF tmp = None
     THEN /\ call' = [call EXCEPT ![t] = Idle]
          /\ UNCHANGED <<snap, tmp>>
     ELSE /\ snap' = tmp
          /\ tmp' = None
          /\ call' = [Moved EXCEPT ![t] = Idle]
  /\ UNCHANGED kv

\* fs::write fails: a warning, and the caller still gets ok.
PersistFails(t) ==
  /\ call[t].pc \in {"open", "write"}
  /\ call' = [call EXCEPT ![t] = Idle]
  /\ UNCHANGED <<kv, snap, tmp>>

\* The process ends and new_with_persistence loads the file.
Reload ==
  /\ kv' = load_from_file(snap)
  /\ call' = [t \in Tasks |-> Idle]
  /\ UNCHANGED <<snap, tmp>>

StoreStep(t) == Apply(t) \/ Open(t) \/ WriteAll(t) \/ Rename(t)

NextStore ==
  \/ \E t \in Tasks : StoreStep(t) \/ PersistFails(t)
  \/ \E t \in Tasks, k \in Keys, v \in Values \cup {None} :
       call[t].pc = "idle" /\ Write(t, k, v) /\ UNCHANGED <<kv, snap, tmp>>
  \/ Reload

StoreSpec == InitStore /\ [][NextStore]_storeVars

\* "JSON 스냅샷을 원자적 파일로 영속화 (tmp -> rename)" (raft/mod.rs): the
\* snapshot file is absent or holds a whole map, so a restart never starts
\* empty after data was stored.  Two concurrent writes share the temporary
\* file: one renames what the other has just truncated.
SnapshotWhole == snap \notin {Empty, Torn}
=============================================================================
