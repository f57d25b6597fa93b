---------------------------- MODULE ClusterGuard ----------------------------
(* Read-only mode of a query node: ClusterGuard (meta/cluster_guard.rs)    *)
(* with its cached state and its copy in the metadata store, the disk      *)
(* monitor (disk_monitor.rs) that polls the watched paths, administrators' *)
(* overrides and DDL statements that ask check_write_allowed.              *)
EXTENDS MetaStore, Naturals, Sequences

CONSTANTS
  WatchPaths,    \* config.watch_paths, in polling order
  Monitor,       \* the task of QnDiskMonitor::run
  Admins,        \* administrators, each with a session task
  Sessions,      \* sessions that run DDL
  StateKey,      \* READ_ONLY_STATE_KEY
  DbKey,         \* the key a CREATE DATABASE writes
  Created,       \* its value
  MaxEvents      \* bound on requests, changes of a disk's usage, failed reads
                 \* of a usage, failed file writes and restarts together

VARIABLES
  guard,         \* ClusterGuard.state: enabled and the reasons
  pending,       \* Tasks -> the reason a task is about to add or remove
  paths,         \* QnDiskMonitor.states: path -> Normal or ReadOnly
  next,          \* the position of the polling loop in WatchPaths
  usage,         \* the disks: low (<= 0.85), mid, full (> 0.95)
  mixed,         \* history: calls overlapped, or a file write failed, since
                 \* the last guard call that ran alone began
  restored,      \* history: paths whose reason was loaded at a restart
  events         \* how many of the bounded events have happened

guardVars == <<kv, snap, tmp, call, guard, pending, paths, next, usage, mixed, restored, events>>
envVars == <<usage, events>>

Watched == {WatchPaths[i] : i \in 1..Len(WatchPaths)}
DiskFull(p) == [kind |-> "disk", of |-> p, comment |-> FALSE]
ManualOverride(a, c) == [kind |-> "manual", of |-> a, comment |-> c]
Reasons == {DiskFull(p) : p \in Watched} \cup {ManualOverride(a, c) : a \in Admins, c \in BOOLEAN}
States == [enabled : BOOLEAN, reasons : SUBSET Reasons]
ReadOnlyState_default == [enabled |-> FALSE, reasons |-> {}]
NoChange == [op |-> "none", reason |-> None]

ASSUME GuardConstants ==
  /\ Tasks = {Monitor} \cup Admins \cup Sessions
  /\ Monitor \notin Admins \cup Sessions /\ Admins \cap Sessions = {}
  /\ Keys = {StateKey, DbKey} /\ StateKey # DbKey
  /\ Values = States \cup {Created}
  /\ Created \notin States /\ None \notin Values
  /\ WatchPaths \in Seq(Watched)
  /\ MaxEvents \in Nat

GuardInit ==
  /\ InitStore
  /\ guard = ReadOnlyState_default
  /\ pending = [t \in Tasks |-> NoChange]
  /\ paths = [p \in Watched |-> "Normal"]
  /\ next = 1
  /\ usage = [p \in Watched |-> "low"]
  /\ mixed = FALSE
  /\ restored = {}
  /\ events = 0

Busy(t) == call[t].pc # "idle" \/ pending[t] # NoChange
OthersBusy(t) == \E u \in Tasks \ {t} : Busy(u)

Event == events < MaxEvents /\ events' = events + 1

\* A guard call begins: its task will next take the lock of the cache.
Enter(t, op, reason) ==
  /\ pending' = [pending EXCEPT ![t] = [op |-> op, reason |-> reason]]
  /\ mixed' = OthersBusy(t)

\* The polling loop is done with the path at next.
Advance == next' = IF next = Len(WatchPaths) THEN 1 ELSE next + 1

\* Removing any reason reopens the cluster.
mut_remove_reason(s, r) == [enabled |-> FALSE, reasons |-> s.reasons \ {r}]

\* add_reason and remove_reason of ClusterReadOnlyState.  Reasons of one
\* source replace each other: the path, or admin and comment.
add_reason(s, r) == [enabled |-> TRUE, reasons |-> s.reasons \cup {r}]
remove_reason(s, r) ==
  LET left == s.reasons \ {r}
  IN  [enabled |-> s.enabled /\ left # {}, reasons |-> left]

\* The state is serialised before it changes.
MutChangeCache(t) ==
  /\ pending[t] # NoChange
  /\ guard' = IF pending[t].op = "add"
              THEN add_reason(guard, pending[t].reason)
              ELSE remove_reason(guard, pending[t].reason)
  /\ Write(t, StateKey, guard)
  /\ pending' = [pending EXCEPT ![t] = NoChange]
  /\ UNCHANGED <<kv, snap, tmp, paths, next, usage, mixed, restored, events>>

\* ClusterGuard::add_reason / remove_reason: the cache changes and is
\* serialised under its lock; the store is written after the unlock.
ChangeCache(t) ==
  /\ pending[t] # NoChange
  /\ guard' = IF pending[t].op = "add"
              THEN add_reason(guard, pending[t].reason)
              ELSE remove_reason(guard, pending[t].reason)
  /\ Write(t, StateKey, guard')
  /\ pending' = [pending EXCEPT ![t] = NoChange]
  /\ UNCHANGED <<kv, snap, tmp, paths, next, usage, mixed, restored, events>>

\* Recovery is not looked for.
MutPoll ==
  LET p == WatchPaths[next]
      full == paths[p] = "Normal" /\ usage[p] = "full"
  IN
  /\ ~Busy(Monitor) /\ next \in DOMAIN WatchPaths
  /\ Advance
  /\ \/ /\ full
        /\ paths' = [paths EXCEPT ![p] = "ReadOnly"]
        /\ restored' = restored \ {p}
        /\ Enter(Monitor, "add", DiskFull(p))
     \/ ~full /\ UNCHANGED <<paths, restored, pending, mixed>>
  /\ UNCHANGED <<kv, snap, tmp, call, guard, envVars>>

\* poll_once on one path, whose usage could be read.  The path's state is set
\* before the guard is called.
Poll ==
  LET p == WatchPaths[next]
      full == paths[p] = "Normal" /\ usage[p] = "full"
      recovered == paths[p] = "ReadOnly" /\ usage[p] = "low"
  IN
  /\ ~Busy(Monitor) /\ next \in DOMAIN WatchPaths
  /\ Advance
  /\ \/ /\ full
        /\ paths' = [paths EXCEPT ![p] = "ReadOnly"]
        /\ restored' = restored \ {p}
        /\ Enter(Monitor, "add", DiskFull(p))
     \/ /\ recovered
        /\ paths' = [paths EXCEPT ![p] = "Normal"]
        /\ Enter(Monitor, "remove", DiskFull(p))
        /\ UNCHANGED restored
     \/ /\ ~full /\ ~recovered
        /\ UNCHANGED <<paths, restored, pending, mixed>>
  /\ UNCHANGED <<kv, snap, tmp, call, guard, envVars>>

\* usage_ratio fails: the path is skipped.
PollSkips ==
  /\ ~Busy(Monitor) /\ next \in DOMAIN WatchPaths
  /\ Event
  /\ Advance
  /\ UNCHANGED <<kv, snap, tmp, call, guard, pending, paths, usage, mixed, restored>>

set_manual_read_only(a, comment) ==
  /\ ~Busy(a)
  /\ Event
  /\ Enter(a, "add", ManualOverride(a, comment))
  /\ UNCHANGED <<kv, snap, tmp, call, guard, paths, next, usage, restored>>

HasDiskFull == \E r \in guard.reasons : r.kind = "disk"

\* Refused while a DiskFull reason is cached, unless forced; the reason it
\* removes has no comment, and the check's lock is released before that.
clear_manual_read_only(a, force) ==
  /\ ~Busy(a)
  /\ Event
  /\ IF HasDiskFull /\ ~force
     THEN UNCHANGED <<pending, mixed>>
     ELSE Enter(a, "remove", ManualOverride(a, FALSE))
  /\ UNCHANGED <<kv, snap, tmp, call, guard, paths, next, usage, restored>>

\* A DDL statement passes check_write_allowed and writes the store.
Ddl(s, val) ==
  /\ ~Busy(s)
  /\ Event
  /\ ~guard.enabled
  /\ Write(s, DbKey, val)
  /\ mixed' = (mixed \/ OthersBusy(s))
  /\ UNCHANGED <<kv, snap, tmp, guard, pending, paths, next, usage, restored>>

Store(t) ==
  /\ StoreStep(t)
  /\ UNCHANGED <<guard, pending, paths, next, mixed, restored, envVars>>

StoreFails(t) ==
  /\ PersistFails(t)
  /\ Event
  /\ mixed' = TRUE
  /\ UNCHANGED <<guard, pending, paths, next, usage, restored>>

load_from_raft(map) == IF map[StateKey] = None THEN ReadOnlyState_default ELSE map[StateKey]

\* The process restarts: the store reloads its file, the guard loads its
\* state from the store, the monitor starts with every path Normal.
Restart ==
  /\ Event
  /\ Reload
  /\ guard' = load_from_raft(kv')
  /\ pending' = [t \in Tasks |-> NoChange]
  /\ paths' = [p \in Watched |-> "Normal"]
  /\ next' = 1
  /\ mixed' = FALSE
  /\ restored' = {p \in Watched : DiskFull(p) \in guard'.reasons}
  /\ UNCHANGED usage

\* The disks fill and empty.
DiskChanges ==
  /\ Event
  /\ \E p \in Watched, u \in {"low", "mid", "full"} :
       usage[p] # u /\ usage' = [usage EXCEPT ![p] = u]
  /\ UNCHANGED <<kv, snap, tmp, call, guard, pending, paths, next, mixed, restored>>

GuardNext ==
  \/ Poll \/ PollSkips \/ DiskChanges \/ Restart
  \/ \E t \in Tasks : ChangeCache(t) \/ Store(t) \/ StoreFails(t)
  \/ \E a \in Admins, b \in BOOLEAN : set_manual_read_only(a, b) \/ clear_manual_read_only(a, b)
  \/ \E s \in Sessions, v \in {Created, None} : Ddl(s, v)

GuardSpec == GuardInit /\ [][GuardNext]_guardVars

\* What QnDiskMonitor::run does in its loop: a poll of a path, and the steps of
\* the guard call that poll_once awaits.
MonitorStep == Poll \/ ChangeCache(Monitor) \/ Store(Monitor)

-----------------------------------------------------------------------------
\* Whatever administrators, sessions and failing file writes do in between:
\* the cached reasons hold DiskFull for a path exactly when the monitor has it
\* ReadOnly (but for a call of the monitor on its way to the cache, and for
\* reasons loaded at a restart), and writes are refused while a reason is left.
ReasonsFollowMonitor ==
  /\ \A p \in Watched :
       pending[Monitor].reason # DiskFull(p) =>
         (DiskFull(p) \in guard.reasons <=> paths[p] = "ReadOnly" \/ p \in restored)
  /\ guard.enabled <=> guard.reasons # {}

\* When nothing runs and the last guard call overlapped no other call and no
\* file write failed, the cache, the store and the file agree, so a restart
\* brings the same read-only state and the same databases back.
QuiescentAgreement ==
  (~mixed /\ \A t \in Tasks : ~Busy(t)) =>
    /\ load_from_raft(kv) = guard
    /\ load_from_file(snap) = kv

\* A disk that stays full ends in refused writes, and a disk that stays below
\* the recovery threshold ends without its reason, unless that reason was
\* loaded at a restart (the new monitor never saw the path full).
GuardFollowsDisk ==
  \A p \in Watched :
    /\ (<>[](usage[p] = "full")) => (<>[](guard.enabled))
    /\ (<>[](usage[p] = "low")) => (<>[](DiskFull(p) \in guard.reasons => p \in restored))
=============================================================================
