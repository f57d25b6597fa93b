-------------------------- MODULE ClusterGuardProofs -------------------------
(***************************************************************************)
(* Read-only mode, for every set of watched paths, administrators and      *)
(* sessions and every number of events: ReasonsFollowMonitor and           *)
(* QuiescentAgreement hold in every state of GuardSpec.                    *)
(*                                                                         *)
(* The first needs to know what the monitor is about to add or remove      *)
(* (Monitored), who changes which reasons (PendingOK), and that every      *)
(* state ever stored, in memory or in a file, is a good one (StoreOK).     *)
(* The second needs the progress of the one call under way: it brings the  *)
(* store (StoreFollows) and then the file (FileFollows) up to the cache.   *)
(***************************************************************************)
EXTENDS ClusterGuard, TLAPS

\* States the cluster is ever in: read-only exactly while there is a reason.
Good == {s \in States : s.enabled <=> s.reasons # {}}
Map == {m \in [Keys -> Values \cup {None}] : m[StateKey] \in Good \cup {None}}
File == Map \cup {None, Empty, Torn}
Change == {NoChange} \cup [op : {"add", "remove"}, reason : Reasons]
Call == [pc : {"idle", "apply", "open", "write", "rename"}, key : Keys \cup {None},
         val : Values \cup {None}, json : Map \cup {None}, fd : {"none", "tmp", "snap", "gone"}]

\* A write of the state: the key is StateKey and the value a state it was in.
NewCall(k, v) == [pc |-> "apply", key |-> k, val |-> v, json |-> None, fd |-> "none"]
StateWrite(c) == c.pc = "apply" /\ c.key = StateKey
CallOK(c) ==
  /\ c.pc = "apply" => \/ c.key = StateKey /\ c.val \in Good
                       \/ c.key = DbKey /\ c.val \in {Created, None}
  /\ c.pc \in {"open", "write", "rename"} => c.json \in Map

StoreOK ==
  /\ kv \in Map /\ snap \in File /\ tmp \in File
  /\ call \in [Tasks -> Call]
  /\ \A t \in Tasks : CallOK(call[t])

GuardOK == guard \in Good

\* Only the monitor changes DiskFull reasons, and only those.
PendingOK ==
  /\ pending \in [Tasks -> Change]
  /\ \A t \in Tasks : pending[t] # NoChange => call[t].pc = "idle"
  /\ \A t \in Tasks : pending[t] # NoChange =>
       (t = Monitor <=> \E p \in Watched : pending[t].reason = DiskFull(p))

PathsOK ==
  /\ paths \in [Watched -> {"Normal", "ReadOnly"}]
  /\ \A p \in Watched : paths[p] = "ReadOnly" => p \notin restored

\* The path whose guard call the monitor is in.
OnItsWay(p) == pending[Monitor] # NoChange /\ pending[Monitor].reason = DiskFull(p)
Monitored ==
  \A p \in Watched :
    /\ OnItsWay(p) => /\ pending[Monitor].op = "add" => paths[p] = "ReadOnly"
                      /\ pending[Monitor].op = "remove" => paths[p] = "Normal" /\ p \notin restored
    /\ ~OnItsWay(p) => (DiskFull(p) \in guard.reasons <=> paths[p] = "ReadOnly" \/ p \in restored)

\* As long as calls do not overlap, the one under way is bringing the store and
\* then the file up to the cache.
AtMostOneBusy == \A t, u \in Tasks : Busy(t) /\ Busy(u) => t = u
StoreFollows ==
  /\ \A t \in Tasks : StateWrite(call[t]) => call[t].val = guard
  /\ (\A t \in Tasks : pending[t] = NoChange /\ ~StateWrite(call[t])) => load_from_raft(kv) = guard
FileFollows ==
  /\ \A t \in Tasks : /\ call[t].pc \in {"open", "write", "rename"} => call[t].json = kv
                      /\ call[t].pc = "write" => call[t].fd = "tmp" /\ tmp = Empty
                      /\ call[t].pc = "rename" => tmp = kv
  /\ (\A t \in Tasks : ~Busy(t)) => load_from_file(snap) = kv
Alone == AtMostOneBusy /\ StoreFollows /\ FileFollows

GuardInv == StoreOK /\ GuardOK /\ PendingOK /\ PathsOK /\ Monitored
            /\ mixed \in BOOLEAN /\ (~mixed => Alone)

-------------------------------------------------------------------------------
\* Facts about the constants and the states.
LEMMA Constants ==
  /\ Monitor \in Tasks /\ Admins \subseteq Tasks /\ Sessions \subseteq Tasks
  /\ Monitor \notin Admins /\ Monitor \notin Sessions
  /\ StateKey \in Keys /\ DbKey \in Keys /\ StateKey # DbKey
  /\ None \notin States /\ Created \notin States /\ Created \in Values
  /\ \A m \in Map : m \notin {None, Empty, Torn}
<1>1. \A m \in Map : m \in [Keys -> Values \cup {None}]
  BY DEF Map
<1>2. None \notin Values /\ States \subseteq Values
  BY GuardConstants
<1> QED
  BY <1>1, <1>2, GuardConstants, MarkersDiffer, ZenonT(30)

\* The reasons of the disks and of the administrators are different ones.
LEMMA ReasonFacts ==
  /\ \A p \in Watched : DiskFull(p) \in Reasons
  /\ \A p, q \in Watched : DiskFull(p) = DiskFull(q) => p = q
  /\ \A a \in Admins, c \in BOOLEAN : ManualOverride(a, c) \in Reasons
  /\ \A a \in Admins, c \in BOOLEAN, p \in Watched : ManualOverride(a, c) # DiskFull(p)
<1>1. \A p \in Watched : DiskFull(p) \in Reasons
  BY DEF Reasons
<1>2. \A a \in Admins, c \in BOOLEAN : ManualOverride(a, c) \in Reasons
  BY DEF Reasons
<1>3. \A p, q \in Watched : DiskFull(p) = DiskFull(q) => p = q
  BY DEF DiskFull
<1>4. \A a \in Admins, c \in BOOLEAN, p \in Watched : ManualOverride(a, c) # DiskFull(p)
  BY DEF DiskFull, ManualOverride
<1> QED
  BY <1>1, <1>2, <1>3, <1>4

\* add_reason and remove_reason keep the mode and the reasons together.
LEMMA ReasonChange ==
  ASSUME NEW s \in Good, NEW r \in Reasons
  PROVE  /\ add_reason(s, r) \in Good /\ add_reason(s, r).reasons = s.reasons \cup {r}
         /\ remove_reason(s, r) \in Good /\ remove_reason(s, r).reasons = s.reasons \ {r}
<1>1. s.enabled \in BOOLEAN /\ s.reasons \subseteq Reasons
  BY DEF Good, States
<1>2. add_reason(s, r) \in Good
  BY <1>1 DEF Good, States, add_reason
<1>3. remove_reason(s, r) \in Good
  <2> DEFINE x == remove_reason(s, r)
  <2>1. x = [enabled |-> s.enabled /\ s.reasons \ {r} # {}, reasons |-> s.reasons \ {r}]
    BY DEF remove_reason
  <2>2. (s.enabled /\ s.reasons \ {r} # {}) \in BOOLEAN
    BY <1>1
  <2>3. x \in States
    BY <1>1, <2>1, <2>2 DEF States
  <2>4. s.enabled <=> s.reasons # {}
    BY DEF Good
  <2>5. x.reasons = s.reasons \ {r} /\ x.enabled = (s.enabled /\ s.reasons \ {r} # {})
    BY <2>1
  <2>6. (s.enabled /\ s.reasons \ {r} # {}) <=> s.reasons \ {r} # {}
    BY <2>4
  <2> HIDE DEF x
  <2>7. x.enabled <=> x.reasons # {}
    BY <2>5, <2>6, Zenon
  <2>8. x \in Good
    BY <2>3, <2>7 DEF Good
  <2> QED
    BY <2>8 DEF x
<1> QED
  BY <1>2, <1>3 DEF add_reason, remove_reason

\* The idle call.
LEMMA IdleCall == Idle \in Call /\ CallOK(Idle) /\ Idle.pc = "idle" /\ ~StateWrite(Idle)
BY DEF Idle, Call, CallOK, StateWrite

\* The call of a write.
LEMMA WriteCall ==
  ASSUME NEW k \in Keys, NEW v \in Values \cup {None}
  PROVE  /\ NewCall(k, v) \in Call
         /\ NewCall(k, v).pc = "apply" /\ NewCall(k, v).key = k /\ NewCall(k, v).val = v
BY DEF NewCall, Call

\* What a restart reads is a map; the state in it is a good one.
LEMMA LoadFacts ==
  /\ MetaStateMachine_default \in Map
  /\ \A f \in File : load_from_file(f) \in Map
  /\ \A m \in Map : load_from_file(m) = m
  /\ \A m \in Map : load_from_raft(m) \in Good
<1>1. ReadOnlyState_default \in Good
  BY DEF ReadOnlyState_default, Good, States
<1>2. MetaStateMachine_default \in Map
  BY Constants DEF MetaStateMachine_default, Map
<1>3. \A f \in File : load_from_file(f) \in Map
  BY <1>2 DEF File, load_from_file
<1>4. \A m \in Map : load_from_file(m) = m
  BY Constants DEF load_from_file
<1>5. \A m \in Map : load_from_raft(m) \in Good
  BY <1>1 DEF Map, load_from_raft
<1> QED
  BY <1>2, <1>3, <1>4, <1>5

\* A node starts with empty metadata and no reason.
LEMMA GuardInitInv ==
  ASSUME GuardInit
  PROVE  GuardInv
<1>1. /\ kv = MetaStateMachine_default /\ snap = None /\ tmp = None
      /\ call = [t \in Tasks |-> Idle] /\ pending = [t \in Tasks |-> NoChange]
      /\ guard = ReadOnlyState_default /\ restored = {} /\ mixed = FALSE
      /\ paths = [p \in Watched |-> "Normal"]
  BY DEF GuardInit, InitStore
<1>2. StoreOK
  BY <1>1, LoadFacts, IdleCall DEF StoreOK, File
<1>3. GuardOK /\ guard.reasons = {}
  BY <1>1 DEF GuardOK, Good, States, ReadOnlyState_default
<1>4. PendingOK
  BY <1>1 DEF PendingOK, Change
<1>5. PathsOK
  BY <1>1 DEF PathsOK
<1>6. Monitored
  BY <1>1, <1>3, Constants DEF Monitored, OnItsWay
<1>7. \A t \in Tasks : ~Busy(t) /\ call[t].pc = "idle" /\ pending[t] = NoChange
  BY <1>1, IdleCall, ZenonT(30) DEF Busy
<1>8. load_from_raft(kv) = guard /\ load_from_file(snap) = kv
  BY <1>1, Constants DEF load_from_raft, load_from_file, MetaStateMachine_default
<1>9. Alone
  BY <1>7, <1>8 DEF Alone, AtMostOneBusy, StoreFollows, FileFollows, StateWrite
<1>10. mixed \in BOOLEAN
  BY <1>1, ZenonT(30)
<1> QED
  BY <1>2, <1>3, <1>4, <1>5, <1>6, <1>9, <1>10 DEF GuardInv

\* A step that leaves the guard, the store and the calls alone.
LEMMA CallsSame ==
  ASSUME GuardInv, UNCHANGED <<kv, snap, tmp, call, guard, pending, mixed>>
  PROVE  /\ StoreOK' /\ GuardOK' /\ PendingOK'
         /\ mixed' \in BOOLEAN /\ (~mixed' => Alone')
<1>1. StoreOK' /\ GuardOK'
  BY DEF GuardInv, StoreOK, GuardOK
<1>2. PendingOK'
  BY DEF GuardInv, PendingOK
<1>3. \A t \in Tasks : Busy(t)' <=> Busy(t)
  BY DEF Busy
<1>4. ASSUME Alone PROVE Alone'
  <2>1. AtMostOneBusy'
    BY <1>3, <1>4 DEF Alone, AtMostOneBusy
  <2>2. StoreFollows'
    BY <1>4 DEF Alone, StoreFollows, load_from_raft
  <2>3. FileFollows'
    BY <1>3, <1>4 DEF Alone, FileFollows, load_from_file
  <2> QED
    BY <2>1, <2>2, <2>3 DEF Alone
<1>5. mixed' \in BOOLEAN /\ (~mixed' => ~mixed)
  BY ZenonT(30) DEF GuardInv
<1>6. ~mixed => Alone
  BY DEF GuardInv
<1> QED
  BY <1>1, <1>2, <1>4, <1>5, <1>6

\* A guard call begins: if no other call is under way, it is the only one.
LEMMA EnterKeeps ==
  ASSUME GuardInv, NEW t \in Tasks, ~Busy(t),
         NEW op \in {"add", "remove"}, NEW r \in Reasons, Enter(t, op, r),
         t = Monitor <=> \E p \in Watched : r = DiskFull(p),
         UNCHANGED <<kv, snap, tmp, call, guard>>
  PROVE  /\ StoreOK' /\ GuardOK' /\ PendingOK'
         /\ mixed' \in BOOLEAN /\ (~mixed' => Alone')
<1> DEFINE c == [op |-> op, reason |-> r]
<1>1. /\ pending' = [pending EXCEPT ![t] = c] /\ mixed' = OthersBusy(t)
      /\ c \in Change /\ c # NoChange /\ c.reason = r
  BY DEF Enter, Change, NoChange
<1> HIDE DEF c
<1>2. pending \in [Tasks -> Change] /\ call[t].pc = "idle" /\ pending[t] = NoChange
  BY DEF GuardInv, PendingOK, Busy
<1>3. /\ pending' \in [Tasks -> Change] /\ pending'[t] = c
      /\ \A u \in Tasks : u # t => pending'[u] = pending[u]
  BY <1>1, <1>2
<1>4. StoreOK' /\ GuardOK'
  BY DEF GuardInv, StoreOK, GuardOK
<1>5. PendingOK'
  BY <1>1, <1>2, <1>3 DEF GuardInv, PendingOK
<1>6. mixed' \in BOOLEAN
  BY <1>1 DEF OthersBusy
<1>7. ASSUME ~mixed' PROVE Alone'
  <2>1. \A u \in Tasks : u # t => ~Busy(u)
    BY <1>1, <1>7 DEF OthersBusy
  <2>2. \A u \in Tasks : call[u].pc = "idle"
    BY <1>2, <2>1 DEF Busy
  <2>3. \A u \in Tasks : u # t => ~Busy(u)'
    BY <1>3, <2>1 DEF Busy
  <2>4. Busy(t)' /\ pending'[t] # NoChange
    BY <1>1, <1>3 DEF Busy
  <2>5. AtMostOneBusy'
    BY <2>3 DEF AtMostOneBusy
  <2>6. StoreFollows'
    BY <2>2, <2>4 DEF StoreFollows, StateWrite
  <2>7. FileFollows'
    BY <2>2, <2>4 DEF FileFollows
  <2> QED
    BY <2>5, <2>6, <2>7 DEF Alone
<1> QED
  BY <1>4, <1>5, <1>6, <1>7

\* poll_once on a path.
LEMMA PollKeeps ==
  ASSUME GuardInv, Poll
  PROVE  GuardInv'
<1> DEFINE p == WatchPaths[next]
<1>1. /\ ~Busy(Monitor) /\ p \in Watched
      /\ UNCHANGED <<kv, snap, tmp, call, guard>>
  <2>1. next \in DOMAIN WatchPaths /\ DOMAIN WatchPaths = 1 .. Len(WatchPaths)
    BY GuardConstants DEF Poll
  <2> QED
    BY <2>1 DEF Poll, Watched
<1>2. PathsOK /\ Monitored /\ pending[Monitor] = NoChange
  BY <1>1 DEF GuardInv, Busy
<1>3. ASSUME NEW op \in {"add", "remove"}, Enter(Monitor, op, DiskFull(p)),
             PathsOK', restored' \in {restored, restored \ {p}},
             \A q \in Watched : q # p => paths'[q] = paths[q],
             op = "add" => paths'[p] = "ReadOnly",
             op = "remove" => paths'[p] = "Normal" /\ p \notin restored'
      PROVE  GuardInv'
  <2>1. /\ StoreOK' /\ GuardOK' /\ PendingOK'
        /\ mixed' \in BOOLEAN /\ (~mixed' => Alone')
    BY <1>1, <1>3, EnterKeeps, Constants, ReasonFacts
  <2>2. pending'[Monitor] = [op |-> op, reason |-> DiskFull(p)]
    BY <1>3, Constants DEF Enter, GuardInv, PendingOK
  <2>3. /\ pending'[Monitor] # NoChange
        /\ pending'[Monitor].op = op /\ pending'[Monitor].reason = DiskFull(p)
    BY <2>2 DEF NoChange
  <2>4. Monitored'
    BY <1>1, <1>2, <1>3, <2>3, ReasonFacts DEF Monitored, OnItsWay
  <2> QED
    BY <1>3, <2>1, <2>4 DEF GuardInv
<1>4. CASE /\ paths[p] = "Normal" /\ paths' = [paths EXCEPT ![p] = "ReadOnly"]
           /\ restored' = restored \ {p} /\ Enter(Monitor, "add", DiskFull(p))
  <2>1. paths'[p] = "ReadOnly" /\ \A q \in Watched : q # p => paths'[q] = paths[q]
    BY <1>1, <1>2, <1>4 DEF PathsOK
  <2>2. PathsOK'
    BY <1>1, <1>2, <1>4, <2>1 DEF PathsOK
  <2> QED
    BY <1>3, <1>4, <2>1, <2>2
<1>5. CASE /\ paths[p] = "ReadOnly" /\ paths' = [paths EXCEPT ![p] = "Normal"]
           /\ restored' = restored /\ Enter(Monitor, "remove", DiskFull(p))
  <2>1. paths'[p] = "Normal" /\ \A q \in Watched : q # p => paths'[q] = paths[q]
    BY <1>1, <1>2, <1>5 DEF PathsOK
  <2>2. PathsOK' /\ p \notin restored'
    BY <1>1, <1>2, <1>5, <2>1 DEF PathsOK
  <2> QED
    BY <1>3, <1>5, <2>1, <2>2
<1>6. CASE UNCHANGED <<paths, restored, pending, mixed>>
  <2>1. /\ StoreOK' /\ GuardOK' /\ PendingOK'
        /\ mixed' \in BOOLEAN /\ (~mixed' => Alone')
    BY <1>1, <1>6, CallsSame
  <2>2. PathsOK' /\ Monitored'
    BY <1>1, <1>2, <1>6 DEF PathsOK, Monitored, OnItsWay
  <2> QED
    BY <2>1, <2>2 DEF GuardInv
<1> QED
  BY <1>4, <1>5, <1>6 DEF Poll

\* A failed reading, a change of a disk's usage.
LEMMA UsageKeeps ==
  ASSUME GuardInv, UNCHANGED <<kv, snap, tmp, call, guard, pending, paths, mixed, restored>>
  PROVE  GuardInv'
<1>1. /\ StoreOK' /\ GuardOK' /\ PendingOK'
      /\ mixed' \in BOOLEAN /\ (~mixed' => Alone')
  BY CallsSame
<1>2. PathsOK' /\ Monitored'
  BY DEF GuardInv, PathsOK, Monitored, OnItsWay
<1> QED
  BY <1>1, <1>2 DEF GuardInv

\* An administrator's call begins.
LEMMA AdminKeeps ==
  ASSUME GuardInv, NEW a \in Admins, ~Busy(a), NEW op \in {"add", "remove"},
         NEW c \in BOOLEAN, Enter(a, op, ManualOverride(a, c)),
         UNCHANGED <<kv, snap, tmp, call, guard, paths, restored>>
  PROVE  GuardInv'
<1>1. a \in Tasks /\ a # Monitor
  BY Constants
<1>2. /\ StoreOK' /\ GuardOK' /\ PendingOK'
      /\ mixed' \in BOOLEAN /\ (~mixed' => Alone')
  BY <1>1, EnterKeeps, ReasonFacts
<1>3. pending'[Monitor] = pending[Monitor]
  BY <1>1, Constants DEF Enter, GuardInv, PendingOK
<1>4. PathsOK' /\ Monitored'
  BY <1>3 DEF GuardInv, PathsOK, Monitored, OnItsWay
<1> QED
  BY <1>2, <1>4 DEF GuardInv

\* ClusterGuard::add_reason and remove_reason under the lock.
LEMMA ChangeCacheKeeps ==
  ASSUME GuardInv, NEW t \in Tasks, ChangeCache(t)
  PROVE  GuardInv'
<1> DEFINE r == pending[t].reason
           c == NewCall(StateKey, guard')
<1>1. StoreOK /\ GuardOK /\ PendingOK /\ PathsOK /\ Monitored
  BY DEF GuardInv
<1>2. /\ pending[t] # NoChange
      /\ call' = [call EXCEPT ![t] = c] /\ pending' = [pending EXCEPT ![t] = NoChange]
      /\ UNCHANGED <<kv, snap, tmp, paths, mixed, restored>>
  BY DEF ChangeCache, Write, NewCall
<1>3. pending[t].op \in {"add", "remove"} /\ r \in Reasons /\ call[t].pc = "idle"
  BY <1>1, <1>2 DEF PendingOK, Change
<1>4. /\ guard' \in Good
      /\ pending[t].op = "add" => guard'.reasons = guard.reasons \cup {r}
      /\ pending[t].op = "remove" => guard'.reasons = guard.reasons \ {r}
  BY <1>1, <1>3, ReasonChange DEF ChangeCache, GuardOK
<1>5. c \in Call /\ c.pc = "apply" /\ c.key = StateKey /\ c.val = guard'
  <2>1. guard' \in Values
    BY <1>4, GuardConstants DEF Good
  <2> QED
    BY <2>1, Constants, WriteCall
<1> HIDE DEF c
<1>6. /\ call' \in [Tasks -> Call] /\ call'[t] = c
      /\ \A u \in Tasks : u # t => call'[u] = call[u]
  BY <1>1, <1>2, <1>5 DEF StoreOK
<1>7. /\ pending' \in [Tasks -> Change] /\ pending'[t] = NoChange
      /\ \A u \in Tasks : u # t => pending'[u] = pending[u]
  BY <1>1, <1>2 DEF PendingOK, Change
<1>8. StoreOK'
  BY <1>1, <1>2, <1>4, <1>5, <1>6 DEF StoreOK, CallOK
<1>9. GuardOK'
  BY <1>4 DEF GuardOK
<1>10. PendingOK'
  BY <1>1, <1>6, <1>7 DEF PendingOK
<1>11. PathsOK'
  BY <1>1, <1>2 DEF PathsOK
<1>12. Monitored'
  <2>1. CASE t = Monitor
    BY <1>1, <1>2, <1>3, <1>4, <1>7, <2>1, ReasonFacts, SMTT(30) DEF Monitored, OnItsWay, PathsOK
  <2>2. CASE t # Monitor
    <3>1. \A p \in Watched : DiskFull(p) \in guard'.reasons <=> DiskFull(p) \in guard.reasons
      BY <1>1, <1>2, <1>3, <1>4, <2>2 DEF PendingOK
    <3>2. pending'[Monitor] = pending[Monitor]
      BY <1>7, <2>2, Constants
    <3> QED
      BY <1>1, <1>2, <3>1, <3>2 DEF Monitored, OnItsWay
  <2> QED
    BY <2>1, <2>2
<1>13. ASSUME ~mixed PROVE Alone'
  <2>1. Alone /\ Busy(t)
    BY <1>2, <1>13 DEF GuardInv, Busy
  <2>2. \A u \in Tasks : u # t => ~Busy(u)
    BY <2>1 DEF Alone, AtMostOneBusy
  <2>3. \A u \in Tasks : u # t => ~Busy(u)' /\ call'[u].pc = "idle"
    BY <1>6, <1>7, <2>2 DEF Busy
  <2>4. Busy(t)' /\ StateWrite(call'[t])
    BY <1>5, <1>6 DEF Busy, StateWrite
  <2>5. AtMostOneBusy'
    BY <2>3 DEF AtMostOneBusy
  <2>6. StoreFollows'
    BY <1>5, <1>6, <2>3, <2>4 DEF StoreFollows, StateWrite
  <2>7. FileFollows'
    BY <1>5, <1>6, <2>3, <2>4 DEF FileFollows
  <2> QED
    BY <2>5, <2>6, <2>7 DEF Alone
<1>14. mixed' = mixed /\ mixed \in BOOLEAN
  BY <1>2 DEF GuardInv
<1> QED
  BY <1>8, <1>9, <1>10, <1>11, <1>12, <1>13, <1>14 DEF GuardInv

\* A step of a write changes only the store, and the call it belongs to.
LEMMA RestOfStore ==
  ASSUME GuardInv, NEW t \in Tasks, pending[t] = NoChange,
         \A u \in Tasks : u # t => call'[u].pc = call[u].pc,
         UNCHANGED <<guard, pending, paths, restored>>
  PROVE  GuardOK' /\ PendingOK' /\ PathsOK' /\ Monitored'
<1>1. GuardOK' /\ PathsOK'
  BY DEF GuardInv, GuardOK, PathsOK
<1>2. PendingOK'
  BY DEF GuardInv, PendingOK
<1>3. Monitored'
  BY DEF GuardInv, Monitored, OnItsWay
<1> QED
  BY <1>1, <1>2, <1>3

\* While calls do not overlap, the others are idle, and stay so.
LEMMA OthersIdle ==
  ASSUME GuardInv, ~mixed, NEW t \in Tasks, call[t].pc # "idle", UNCHANGED pending,
         \A u \in Tasks : u # t => call'[u].pc = call[u].pc
  PROVE  /\ Alone /\ AtMostOneBusy' /\ pending[t] = NoChange
         /\ \A u \in Tasks : u # t => /\ call[u].pc = "idle" /\ call'[u].pc = "idle"
                                      /\ pending[u] = NoChange
<1>1. Alone /\ pending[t] = NoChange
  BY DEF GuardInv, PendingOK
<1>2. \A u \in Tasks : u # t => ~Busy(u)
  BY <1>1 DEF Alone, AtMostOneBusy, Busy
<1>3. \A u \in Tasks : u # t => ~Busy(u)'
  BY <1>2 DEF Busy
<1> QED
  BY <1>1, <1>2, <1>3 DEF AtMostOneBusy, Busy

\* sm.apply and the copy of the map.
LEMMA ApplyKeeps ==
  ASSUME GuardInv, NEW t \in Tasks, Apply(t),
         UNCHANGED <<guard, pending, paths, mixed, restored>>
  PROVE  GuardInv'
<1> DEFINE c == [call[t] EXCEPT !.pc = "open", !.json = kv']
<1>1. StoreOK /\ call[t] \in Call /\ CallOK(call[t]) /\ call[t].pc = "apply"
  BY DEF GuardInv, StoreOK, Apply
<1>2. /\ kv' = [kv EXCEPT ![call[t].key] = call[t].val] /\ call' = [call EXCEPT ![t] = c]
      /\ UNCHANGED <<snap, tmp>>
  BY <1>1 DEF Apply, StoreOK
<1>3. /\ kv \in [Keys -> Values \cup {None}] /\ kv[StateKey] \in Good \cup {None}
      /\ call[t].key \in Keys /\ call[t].val \in Values \cup {None}
  BY <1>1, Constants DEF StoreOK, Map, CallOK, Call
<1>4. /\ kv' \in [Keys -> Values \cup {None}] /\ kv'[call[t].key] = call[t].val
      /\ call[t].key = DbKey => kv'[StateKey] = kv[StateKey]
      /\ call[t].key = StateKey => call[t].val \in Good
  BY <1>1, <1>2, <1>3, Constants DEF CallOK
<1>5. kv' \in Map
  BY <1>1, <1>3, <1>4, Constants DEF Map, CallOK
<1>6. c \in Call /\ c.pc = "open" /\ c.json = kv'
  BY <1>1, <1>5, ZenonT(30) DEF Call
<1> HIDE DEF c
<1>7. /\ call' \in [Tasks -> Call] /\ call'[t] = c
      /\ \A u \in Tasks : u # t => call'[u] = call[u]
  BY <1>1, <1>2, <1>6 DEF StoreOK
<1>8. StoreOK'
  BY <1>1, <1>2, <1>5, <1>6, <1>7 DEF StoreOK, CallOK
<1>9. pending[t] = NoChange
  BY <1>1 DEF GuardInv, PendingOK
<1>10. GuardOK' /\ PendingOK' /\ PathsOK' /\ Monitored'
  BY <1>7, <1>9, RestOfStore
<1>11. ASSUME ~mixed PROVE Alone'
  <2>1. /\ Alone /\ AtMostOneBusy' /\ pending[t] = NoChange
        /\ \A u \in Tasks : u # t => /\ call[u].pc = "idle" /\ call'[u].pc = "idle"
                                     /\ pending[u] = NoChange
    BY <1>1, <1>7, <1>11, OthersIdle
  <2>2. load_from_raft(kv') = guard
    <3>1. CASE call[t].key = StateKey
      <4>1. call[t].val = guard
        BY <1>1, <2>1, <3>1 DEF Alone, StoreFollows, StateWrite
      <4>2. guard # None
        BY Constants DEF GuardInv, GuardOK, Good
      <4> QED
        BY <1>4, <3>1, <4>1, <4>2 DEF load_from_raft
    <3>2. CASE call[t].key = DbKey
      <4>1. load_from_raft(kv) = guard
        BY <2>1, <3>2, Constants DEF Alone, StoreFollows, StateWrite
      <4> QED
        BY <1>4, <3>2, <4>1 DEF load_from_raft
    <3> QED
      BY <1>1, <3>1, <3>2 DEF CallOK
  <2>3. \A u \in Tasks : ~StateWrite(call'[u])
    BY <1>6, <1>7, <2>1 DEF StateWrite
  <2>4. StoreFollows'
    BY <2>2, <2>3 DEF StoreFollows
  <2>5. Busy(t)'
    BY <1>6, <1>7 DEF Busy
  <2>6. FileFollows'
    BY <1>6, <1>7, <2>1, <2>5 DEF FileFollows
  <2> QED
    BY <2>1, <2>4, <2>6 DEF Alone
<1>12. mixed' = mixed /\ mixed \in BOOLEAN
  BY DEF GuardInv
<1> QED
  BY <1>8, <1>10, <1>11, <1>12 DEF GuardInv

\* fs::write creates or truncates the temporary file ...
LEMMA OpenKeeps ==
  ASSUME GuardInv, NEW t \in Tasks, Open(t),
         UNCHANGED <<guard, pending, paths, mixed, restored>>
  PROVE  GuardInv'
<1> DEFINE c == [call[t] EXCEPT !.pc = "write", !.fd = "tmp"]
<1>1. StoreOK /\ call[t] \in Call /\ CallOK(call[t]) /\ call[t].pc = "open"
  BY DEF GuardInv, StoreOK, Open
<1>2. /\ tmp' = Empty /\ call' = [call EXCEPT ![t] = c] /\ UNCHANGED <<kv, snap>>
  BY <1>1 DEF Open, StoreOK
<1>3. c \in Call /\ c.pc = "write" /\ c.fd = "tmp" /\ c.json = call[t].json /\ c.json \in Map
  BY <1>1, ZenonT(30) DEF Call, CallOK
<1> HIDE DEF c
<1>4. /\ call' \in [Tasks -> Call] /\ call'[t] = c
      /\ \A u \in Tasks : u # t => call'[u] = call[u]
  BY <1>1, <1>2, <1>3 DEF StoreOK
<1>5. StoreOK'
  BY <1>1, <1>2, <1>3, <1>4 DEF StoreOK, CallOK, File
<1>6. pending[t] = NoChange
  BY <1>1 DEF GuardInv, PendingOK
<1>7. GuardOK' /\ PendingOK' /\ PathsOK' /\ Monitored'
  BY <1>4, <1>6, RestOfStore
<1>8. ASSUME ~mixed PROVE Alone'
  <2>1. /\ Alone /\ AtMostOneBusy' /\ pending[t] = NoChange
        /\ \A u \in Tasks : u # t => /\ call[u].pc = "idle" /\ call'[u].pc = "idle"
                                     /\ pending[u] = NoChange
    BY <1>1, <1>4, <1>8, OthersIdle
  <2>2. \A u \in Tasks : ~StateWrite(call'[u]) /\ ~StateWrite(call[u])
    BY <1>1, <1>3, <1>4, <2>1 DEF StateWrite
  <2>3. StoreFollows'
    BY <1>2, <2>1, <2>2 DEF Alone, StoreFollows, load_from_raft
  <2>4. Busy(t)'
    BY <1>3, <1>4 DEF Busy
  <2>5. call[t].json = kv
    BY <1>1, <2>1 DEF Alone, FileFollows
  <2>6. FileFollows'
    BY <1>2, <1>3, <1>4, <2>1, <2>4, <2>5 DEF FileFollows
  <2> QED
    BY <2>1, <2>3, <2>6 DEF Alone
<1>9. mixed' = mixed /\ mixed \in BOOLEAN
  BY DEF GuardInv
<1> QED
  BY <1>5, <1>7, <1>8, <1>9 DEF GuardInv

\* ... and writes what it was given: alone, the whole copy.
LEMMA WriteAllKeeps ==
  ASSUME GuardInv, NEW t \in Tasks, WriteAll(t),
         UNCHANGED <<guard, pending, paths, mixed, restored>>
  PROVE  GuardInv'
<1> DEFINE c == [call[t] EXCEPT !.pc = "rename"]
<1>1. StoreOK /\ call[t] \in Call /\ CallOK(call[t]) /\ call[t].pc = "write"
  BY DEF GuardInv, StoreOK, WriteAll
<1>2. /\ call' = [call EXCEPT ![t] = c] /\ UNCHANGED kv
      /\ tmp' \in Overwritten(tmp, call[t].json) \cup {tmp}
      /\ snap' \in Overwritten(snap, call[t].json) \cup {snap}
      /\ call[t].fd = "tmp" => tmp' \in Overwritten(tmp, call[t].json)
  <2>1. call' = [call EXCEPT ![t] = c] /\ UNCHANGED kv
    BY <1>1 DEF WriteAll, StoreOK
  <2>2. CASE call[t].fd = "tmp"
    BY <2>1, <2>2 DEF WriteAll
  <2>3. CASE call[t].fd = "snap"
    BY <2>1, <2>3 DEF WriteAll
  <2>4. CASE call[t].fd \notin {"tmp", "snap"}
    BY <2>1, <2>4 DEF WriteAll
  <2> QED
    BY <2>2, <2>3, <2>4
<1>3. c \in Call /\ c.pc = "rename" /\ c.json = call[t].json /\ c.json \in Map
  BY <1>1 DEF Call, CallOK
<1> HIDE DEF c
<1>4. /\ call' \in [Tasks -> Call] /\ call'[t] = c
      /\ \A u \in Tasks : u # t => call'[u] = call[u]
  BY <1>1, <1>2, <1>3 DEF StoreOK
<1>5. tmp' \in File /\ snap' \in File
  BY <1>1, <1>2, <1>3 DEF StoreOK, File, Overwritten
<1>6. StoreOK'
  BY <1>1, <1>2, <1>3, <1>4, <1>5 DEF StoreOK, CallOK
<1>7. pending[t] = NoChange
  BY <1>1 DEF GuardInv, PendingOK
<1>8. GuardOK' /\ PendingOK' /\ PathsOK' /\ Monitored'
  BY <1>4, <1>7, RestOfStore
<1>9. ASSUME ~mixed PROVE Alone'
  <2>1. /\ Alone /\ AtMostOneBusy' /\ pending[t] = NoChange
        /\ \A u \in Tasks : u # t => /\ call[u].pc = "idle" /\ call'[u].pc = "idle"
                                     /\ pending[u] = NoChange
    BY <1>1, <1>4, <1>9, OthersIdle
  <2>2. \A u \in Tasks : ~StateWrite(call'[u]) /\ ~StateWrite(call[u])
    BY <1>1, <1>3, <1>4, <2>1 DEF StateWrite
  <2>3. StoreFollows'
    BY <1>2, <2>1, <2>2 DEF Alone, StoreFollows, load_from_raft
  <2>4. Busy(t)'
    BY <1>3, <1>4 DEF Busy
  <2>5. call[t].json = kv /\ call[t].fd = "tmp" /\ tmp = Empty
    BY <1>1, <2>1 DEF Alone, FileFollows
  <2>6. tmp' = kv
    BY <1>2, <2>5 DEF Overwritten
  <2>7. FileFollows'
    BY <1>2, <1>3, <1>4, <2>1, <2>4, <2>5, <2>6 DEF FileFollows
  <2> QED
    BY <2>1, <2>3, <2>7 DEF Alone
<1>10. mixed' = mixed /\ mixed \in BOOLEAN
  BY DEF GuardInv
<1> QED
  BY <1>6, <1>8, <1>9, <1>10 DEF GuardInv

\* The rename, which takes the descriptors of the other writers along.
LEMMA RenameKeeps ==
  ASSUME GuardInv, NEW t \in Tasks, Rename(t),
         UNCHANGED <<guard, pending, paths, mixed, restored>>
  PROVE  GuardInv'
<1>1. StoreOK /\ call[t] \in Call /\ call[t].pc = "rename"
  BY DEF GuardInv, StoreOK, Rename
<1>2. /\ UNCHANGED kv /\ snap' \in File /\ tmp' \in File
      /\ tmp # None => snap' = tmp
  BY <1>1 DEF Rename, StoreOK, File
<1>3. /\ call' \in [Tasks -> Call] /\ call'[t] = Idle
      /\ \A u \in Tasks : u # t => call'[u].pc = call[u].pc /\ CallOK(call'[u])
  <2>1. CASE tmp = None
    <3>1. call' = [call EXCEPT ![t] = Idle] /\ Idle \in Call /\ call \in [Tasks -> Call]
      BY <1>1, <2>1, IdleCall DEF Rename, StoreOK
    <3>2. /\ call' \in [Tasks -> Call] /\ call'[t] = Idle
          /\ \A u \in Tasks : u # t => call'[u] = call[u]
      BY <3>1
    <3>3. \A u \in Tasks : CallOK(call[u])
      BY <1>1 DEF StoreOK
    <3> QED
      BY <3>2, <3>3
  <2>2. CASE tmp # None
    <3>1. call' = [Moved EXCEPT ![t] = Idle]
      BY <2>2 DEF Rename
    <3>2. ASSUME NEW u \in Tasks
          PROVE  Moved[u] \in Call /\ Moved[u].pc = call[u].pc /\ CallOK(Moved[u])
      <4> DEFINE d == CASE call[u].fd = "tmp" -> "snap" [] call[u].fd = "snap" -> "gone"
                        [] OTHER -> call[u].fd
      <4>1. call[u] \in Call /\ CallOK(call[u])
        BY <1>1 DEF StoreOK
      <4>2. Moved[u] = [call[u] EXCEPT !.fd = d]
        BY DEF Moved
      <4>3. d \in {"none", "tmp", "snap", "gone"}
        BY <4>1 DEF Call
      <4> HIDE DEF d
      <4> QED
        BY <4>1, <4>2, <4>3 DEF Call, CallOK
    <3>3. DOMAIN Moved = Tasks /\ Moved = [u \in Tasks |-> Moved[u]]
      BY DEF Moved
    <3> QED
      BY <3>1, <3>2, <3>3, IdleCall
  <2> QED
    BY <2>1, <2>2
<1>4. StoreOK'
  BY <1>1, <1>2, <1>3, IdleCall DEF StoreOK
<1>5. pending[t] = NoChange
  BY <1>1 DEF GuardInv, PendingOK
<1>6. GuardOK' /\ PendingOK' /\ PathsOK' /\ Monitored'
  BY <1>3, <1>5, RestOfStore
<1>7. ASSUME ~mixed PROVE Alone'
  <2>1. /\ Alone /\ AtMostOneBusy' /\ pending[t] = NoChange
        /\ \A u \in Tasks : u # t => /\ call[u].pc = "idle" /\ call'[u].pc = "idle"
                                     /\ pending[u] = NoChange
    BY <1>1, <1>3, <1>7, OthersIdle
  <2>2. \A u \in Tasks : call'[u].pc = "idle"
    BY <1>3, <2>1, IdleCall
  <2>3. \A u \in Tasks : ~StateWrite(call'[u]) /\ ~StateWrite(call[u])
    BY <1>1, <2>1, <2>2 DEF StateWrite
  <2>4. StoreFollows'
    BY <1>2, <2>1, <2>3 DEF Alone, StoreFollows, load_from_raft
  <2>5. tmp = kv /\ kv \in Map
    BY <1>1, <2>1 DEF Alone, FileFollows, StoreOK
  <2>6. snap' = kv
    BY <1>2, <2>5, Constants
  <2>7. load_from_file(snap') = kv
    BY <2>5, <2>6, LoadFacts
  <2>8. FileFollows'
    BY <1>2, <2>2, <2>7 DEF FileFollows, load_from_file
  <2> QED
    BY <2>1, <2>4, <2>8 DEF Alone
<1>8. mixed' = mixed /\ mixed \in BOOLEAN
  BY DEF GuardInv
<1> QED
  BY <1>4, <1>6, <1>7, <1>8 DEF GuardInv

\* fs::write fails: from now on the file may be behind the store.
LEMMA StoreFailsKeeps ==
  ASSUME GuardInv, NEW t \in Tasks, StoreFails(t)
  PROVE  GuardInv'
<1>1. /\ StoreOK /\ call[t].pc \in {"open", "write"} /\ call' = [call EXCEPT ![t] = Idle]
      /\ UNCHANGED <<kv, snap, tmp, guard, pending, paths, restored>> /\ mixed' = TRUE
  BY DEF StoreFails, PersistFails, GuardInv
<1>2. /\ call' \in [Tasks -> Call] /\ call'[t] = Idle
      /\ \A u \in Tasks : u # t => call'[u] = call[u]
  BY <1>1, IdleCall DEF StoreOK
<1>3. StoreOK'
  BY <1>1, <1>2, IdleCall DEF StoreOK
<1>4. pending[t] = NoChange
  BY <1>1 DEF GuardInv, PendingOK
<1>5. GuardOK' /\ PendingOK' /\ PathsOK' /\ Monitored'
  BY <1>1, <1>2, <1>4, RestOfStore
<1> QED
  BY <1>1, <1>3, <1>5, Zenon DEF GuardInv

\* CREATE and DROP DATABASE: the store goes ahead of the file, not of the cache.
LEMMA DdlKeeps ==
  ASSUME GuardInv, NEW s \in Sessions, NEW v \in {Created, None}, Ddl(s, v)
  PROVE  GuardInv'
<1> DEFINE c == NewCall(DbKey, v)
<1>1. /\ StoreOK /\ s \in Tasks /\ ~Busy(s) /\ call' = [call EXCEPT ![s] = c]
      /\ UNCHANGED <<kv, snap, tmp, guard, pending, paths, restored>>
      /\ mixed' = (mixed \/ OthersBusy(s))
  BY Constants DEF Ddl, Write, NewCall, GuardInv
<1>2. c \in Call /\ c.pc = "apply" /\ c.key = DbKey /\ c.val = v
  <2>1. DbKey \in Keys /\ v \in Values \cup {None}
    BY Constants
  <2> QED
    BY <2>1, WriteCall
<1> HIDE DEF c
<1>3. /\ call' \in [Tasks -> Call] /\ call'[s] = c
      /\ \A u \in Tasks : u # s => call'[u] = call[u]
  BY <1>1, <1>2 DEF StoreOK
<1>4. StoreOK'
  BY <1>1, <1>2, <1>3 DEF StoreOK, CallOK
<1>5. pending[s] = NoChange
  BY <1>1 DEF Busy
<1>6. GuardOK' /\ PendingOK' /\ PathsOK' /\ Monitored'
  BY <1>1, <1>3, <1>5, RestOfStore
<1>7. ASSUME ~mixed' PROVE Alone'
  <2>1. ~mixed /\ \A u \in Tasks : u # s => ~Busy(u)
    BY <1>1, <1>7, ZenonT(30) DEF OthersBusy
  <2>2. Alone /\ \A u \in Tasks : ~Busy(u)
    BY <1>1, <2>1 DEF GuardInv
  <2>3. \A u \in Tasks : pending[u] = NoChange /\ call[u].pc = "idle"
    BY <2>2, ZenonT(30) DEF Busy
  <2>4. load_from_raft(kv) = guard
    BY <2>2, <2>3 DEF Alone, StoreFollows, StateWrite
  <2>5. \A u \in Tasks : ~StateWrite(call'[u])
    BY <1>2, <1>3, <2>3, Constants DEF StateWrite
  <2>6. StoreFollows'
    BY <1>1, <2>4, <2>5 DEF StoreFollows, load_from_raft
  <2>7. Busy(s)' /\ \A u \in Tasks : u # s => ~Busy(u)' /\ call'[u].pc = "idle"
    BY <1>1, <1>2, <1>3, <2>3 DEF Busy
  <2>8. AtMostOneBusy'
    BY <2>7 DEF AtMostOneBusy
  <2>9. FileFollows'
    BY <1>1, <1>2, <1>3, <2>7 DEF FileFollows
  <2> QED
    BY <2>6, <2>8, <2>9 DEF Alone
<1>8. mixed' \in BOOLEAN
  BY <1>1 DEF GuardInv, OthersBusy
<1> QED
  BY <1>4, <1>6, <1>7, <1>8 DEF GuardInv

\* A restart loads the file into the store and the store into the guard.
LEMMA RestartKeeps ==
  ASSUME GuardInv, Restart
  PROVE  GuardInv'
<1>1. /\ kv' = load_from_file(snap) /\ call' = [t \in Tasks |-> Idle]
      /\ UNCHANGED <<snap, tmp>> /\ guard' = load_from_raft(kv')
      /\ pending' = [t \in Tasks |-> NoChange] /\ paths' = [p \in Watched |-> "Normal"]
      /\ mixed' = FALSE
      /\ restored' = {p \in Watched : DiskFull(p) \in guard'.reasons}
  BY DEF Restart, Reload
<1>2. kv' \in Map /\ guard' \in Good
  BY <1>1, LoadFacts DEF GuardInv, StoreOK
<1>3. StoreOK'
  BY <1>1, <1>2, IdleCall DEF GuardInv, StoreOK
<1>4. GuardOK'
  BY <1>2 DEF GuardOK
<1>5. PendingOK'
  BY <1>1 DEF PendingOK, Change
<1>6. PathsOK'
  BY <1>1 DEF PathsOK
<1>7. Monitored'
  BY <1>1, Constants DEF Monitored, OnItsWay
<1>8. \A t \in Tasks : ~Busy(t)' /\ call'[t].pc = "idle" /\ pending'[t] = NoChange
  BY <1>1, IdleCall DEF Busy
<1>9. load_from_file(snap') = kv'
  BY <1>1
<1>10. AtMostOneBusy' /\ StoreFollows'
  BY <1>1, <1>8 DEF AtMostOneBusy, StoreFollows, StateWrite
<1>11. FileFollows'
  BY <1>8, <1>9 DEF FileFollows
<1> QED
  BY <1>1, <1>3, <1>4, <1>5, <1>6, <1>7, <1>10, <1>11, Zenon DEF GuardInv, Alone

\* Every step of the guard, the monitor and the sessions keeps the invariant.
THEOREM GuardInvariant == GuardSpec => []GuardInv
<1>1. GuardInit => GuardInv
  BY GuardInitInv
<1>2. GuardInv /\ [GuardNext]_guardVars => GuardInv'
  <2> SUFFICES ASSUME GuardInv, [GuardNext]_guardVars PROVE GuardInv'
    OBVIOUS
  <2>1. CASE Poll
    BY <2>1, PollKeeps
  <2>2. CASE PollSkips \/ DiskChanges
    <3>1. UNCHANGED <<kv, snap, tmp, call, guard, pending, paths, mixed, restored>>
      BY <2>2 DEF PollSkips, DiskChanges
    <3> QED
      BY <3>1, UsageKeeps
  <2>3. CASE Restart
    BY <2>3, RestartKeeps
  <2>4. ASSUME NEW t \in Tasks, ChangeCache(t) PROVE GuardInv'
    BY <2>4, ChangeCacheKeeps
  <2>5. ASSUME NEW t \in Tasks, Store(t) PROVE GuardInv'
    <3>1. StoreStep(t) /\ UNCHANGED <<guard, pending, paths, mixed, restored>>
      BY <2>5 DEF Store
    <3> QED
      BY <3>1, ApplyKeeps, OpenKeeps, WriteAllKeeps, RenameKeeps DEF StoreStep
  <2>6. ASSUME NEW t \in Tasks, StoreFails(t) PROVE GuardInv'
    BY <2>6, StoreFailsKeeps
  <2>7. ASSUME NEW a \in Admins, NEW b \in BOOLEAN, set_manual_read_only(a, b) PROVE GuardInv'
    BY <2>7, AdminKeeps DEF set_manual_read_only
  <2>8. ASSUME NEW a \in Admins, NEW b \in BOOLEAN, clear_manual_read_only(a, b) PROVE GuardInv'
    <3>1. CASE Enter(a, "remove", ManualOverride(a, FALSE))
      BY <2>8, <3>1, AdminKeeps, ZenonT(30) DEF clear_manual_read_only
    <3>2. CASE UNCHANGED <<pending, mixed>>
      BY <2>8, <3>2, UsageKeeps DEF clear_manual_read_only
    <3> QED
      BY <2>8, <3>1, <3>2, ZenonT(30) DEF clear_manual_read_only
  <2>9. ASSUME NEW s \in Sessions, NEW v \in {Created, None}, Ddl(s, v) PROVE GuardInv'
    BY <2>9, DdlKeeps
  <2>10. CASE UNCHANGED guardVars
    BY <2>10, UsageKeeps DEF guardVars
  <2> QED
    BY <2>1, <2>2, <2>3, <2>4, <2>5, <2>6, <2>7, <2>8, <2>9, <2>10 DEF GuardNext
<1> QED
  BY <1>1, <1>2, PTL DEF GuardSpec

-------------------------------------------------------------------------------
\* The reasons of ClusterGuard follow the disk monitor, and writes are refused
\* exactly while there is one.
THEOREM ReasonsTheorem == GuardSpec => []ReasonsFollowMonitor
<1>1. GuardInv => ReasonsFollowMonitor
  <2> SUFFICES ASSUME GuardInv PROVE ReasonsFollowMonitor
    OBVIOUS
  <2>1. guard.enabled <=> guard.reasons # {}
    BY DEF GuardInv, GuardOK, Good
  <2>2. \A p \in Watched : pending[Monitor].reason # DiskFull(p) =>
          (DiskFull(p) \in guard.reasons <=> paths[p] = "ReadOnly" \/ p \in restored)
    BY DEF GuardInv, Monitored, OnItsWay
  <2> QED
    BY <2>1, <2>2 DEF ReasonsFollowMonitor
<1> QED
  BY <1>1, GuardInvariant, PTL

\* Cache, store and file agree once the calls that did not overlap are through.
THEOREM AgreementTheorem == GuardSpec => []QuiescentAgreement
<1>1. GuardInv => QuiescentAgreement
  <2> SUFFICES ASSUME GuardInv, ~mixed, \A t \in Tasks : ~Busy(t)
               PROVE  load_from_raft(kv) = guard /\ load_from_file(snap) = kv
    BY DEF QuiescentAgreement
  <2>1. StoreFollows /\ FileFollows
    BY DEF GuardInv, Alone
  <2>2. \A t \in Tasks : pending[t] = NoChange /\ ~StateWrite(call[t])
    BY ZenonT(30) DEF Busy, StateWrite
  <2> QED
    BY <2>1, <2>2 DEF StoreFollows, FileFollows
<1> QED
  BY <1>1, GuardInvariant, PTL
==============================================================================
