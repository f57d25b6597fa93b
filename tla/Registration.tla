----------------------------- MODULE Registration ----------------------------
(***************************************************************************)
(* Registration and heartbeats: query nodes register with every peer       *)
(* (query-node/src/startup.rs), storage and compute nodes with the first   *)
(* query node they reach (storage-node, compute-node/src/startup.rs), and  *)
(* the overview of a query node shows who registered lately                *)
(* (query-node/src/web_ui/monitoring.rs).                                  *)
(*                                                                         *)
(* A tick is five seconds: the period of a query node, a third of that of  *)
(* the others, and the time after which a request is given up.  A request  *)
(* is under way for at most one tick.                                      *)
(***************************************************************************)
EXTENDS Integers, Sequences, FiniteSets, FiniteSetsExt, SequencesExt

CONSTANTS
  QnPeers,     \* QN_HTTP_PEERS, a sequence
  MemberKinds, \* clusters: functions node -> "query", "storage" or "compute"
  OfflineAfter,\* TTL_MS, in ticks
  MaxTime,     \* bound on ticks
  MaxFaults    \* bound on crashes and lost requests

VARIABLES
  kindOf,    \* the cluster, one of MemberKinds
  now,       \* ticks since the start
  memberUp,
  upSince,   \* when the node last started or crashed
  registry,  \* WebUiState::nodes: query node -> (node -> [seen, role])
  toTry,     \* node -> peers of this round still to be tried
  waiting,   \* ticks the request under way has taken
  nextBeat,  \* when the timer fires next; 0 before the first round is done
  lostCount, outages

registrationVars == <<kindOf, now, memberUp, upSince, registry, toTry, waiting, nextBeat, lostCount, outages>>

QueryNodes == ToSet(QnPeers)
AllMembers == DOMAIN kindOf
Period(m) == IF kindOf[m] = "query" THEN 1 ELSE 3
RequestTimeout == 1
RoleOf(m) == CASE kindOf[m] = "storage" -> "Storage" [] kindOf[m] = "compute" -> "Worker"
               [] OTHER -> IF m = QnPeers[1] THEN "Leader" ELSE "Follower"
PeersOf(m) == SelectSeq(QnPeers, LAMBDA p : p # m)

-------------------------------------------------------------------------------
\* register_node
RegisterNode(q, m) ==
  [registry EXCEPT ![q] = [x \in DOMAIN @ \union {m} |-> IF x = m THEN [seen |-> now, role |-> RoleOf(m)] ELSE @[x]]]

\* What a round does after a try: a query node tries every peer but itself,
\* the others stop at the first that answers.
QueryPeersLeft(m, ok) == Tail(toTry[m])
MutStoragePeersLeft(m, ok) == IF ok THEN Tail(toTry[m]) ELSE <<>>
StoragePeersLeft(m, ok) == IF ok THEN <<>> ELSE Tail(toTry[m])
ComputePeersLeft(m, ok) == IF ok THEN <<>> ELSE Tail(toTry[m])
PeersLeft(m, ok) ==
  CASE kindOf[m] = "query" -> QueryPeersLeft(m, ok)
    [] kindOf[m] = "storage" -> StoragePeersLeft(m, ok)
    [] kindOf[m] = "compute" -> ComputePeersLeft(m, ok)
\* The timer is created when the first round is over; a late round does not
\* move the later ones.
BeatAfter(m, left) == IF left = <<>> /\ nextBeat[m] = 0 THEN now + Period(m) ELSE nextBeat[m]

EndTry(m, ok) ==
  /\ toTry' = [toTry EXCEPT ![m] = PeersLeft(m, ok)]
  /\ nextBeat' = [nextBeat EXCEPT ![m] = BeatAfter(m, PeersLeft(m, ok))]
  /\ waiting' = [waiting EXCEPT ![m] = 0]

\* try_register: the request reaches a peer that is up, which answers ...
TryRegister(m) ==
  /\ memberUp[m] /\ toTry[m] # <<>> /\ memberUp[Head(toTry[m])]
  /\ registry' = RegisterNode(Head(toTry[m]), m)
  /\ EndTry(m, TRUE)
  /\ UNCHANGED <<kindOf, now, memberUp, upSince, lostCount, outages>>
\* ... or fails, at once or after the timeout.
TryRegisterFails(m) ==
  /\ memberUp[m] /\ toTry[m] # <<>>
  /\ \/ ~memberUp[Head(toTry[m])] /\ UNCHANGED lostCount
     \/ memberUp[Head(toTry[m])] /\ lostCount + outages < MaxFaults /\ lostCount' = lostCount + 1
  /\ EndTry(m, FALSE)
  /\ UNCHANGED <<kindOf, now, memberUp, upSince, registry, outages>>

\* The heartbeat task that register_with_qn_peers and register_with_cluster
\* leave behind.
Heartbeat(m, kind, period) ==
  /\ memberUp[m] /\ kindOf[m] = kind /\ toTry[m] = <<>> /\ nextBeat[m] > 0 /\ nextBeat[m] <= now
  /\ toTry' = [toTry EXCEPT ![m] = PeersOf(m)]
  /\ nextBeat' = [nextBeat EXCEPT ![m] = @ + period]
  /\ UNCHANGED <<kindOf, now, memberUp, upSince, registry, waiting, lostCount, outages>>
QueryHeartbeat(m) == Heartbeat(m, "query", 1)
StorageHeartbeat(m) == Heartbeat(m, "storage", 3)
ComputeHeartbeat(m) == Heartbeat(m, "compute", 3)

Tick ==
  /\ now < MaxTime
  /\ \A m \in AllMembers : memberUp[m] => IF toTry[m] # <<>> THEN waiting[m] < RequestTimeout ELSE nextBeat[m] > now
  /\ now' = now + 1
  /\ waiting' = [m \in AllMembers |-> IF toTry[m] # <<>> THEN waiting[m] + 1 ELSE 0]
  /\ UNCHANGED <<kindOf, memberUp, upSince, registry, toTry, nextBeat, lostCount, outages>>

\* A crash ends the round under way and, on a query node, the registry.
NodeCrash(m) ==
  /\ memberUp[m] /\ lostCount + outages < MaxFaults
  /\ outages' = outages + 1
  /\ memberUp' = [memberUp EXCEPT ![m] = FALSE] /\ upSince' = [upSince EXCEPT ![m] = now]
  /\ toTry' = [toTry EXCEPT ![m] = <<>>] /\ waiting' = [waiting EXCEPT ![m] = 0]
  /\ nextBeat' = [nextBeat EXCEPT ![m] = 0]
  /\ registry' = IF m \in QueryNodes THEN [registry EXCEPT ![m] = << >>] ELSE registry
  /\ UNCHANGED <<kindOf, now, lostCount>>
\* A node starts with a first round.
StartNode(m, kind) ==
  /\ ~memberUp[m] /\ kindOf[m] = kind
  /\ memberUp' = [memberUp EXCEPT ![m] = TRUE] /\ upSince' = [upSince EXCEPT ![m] = now]
  /\ toTry' = [toTry EXCEPT ![m] = PeersOf(m)]
  /\ UNCHANGED <<kindOf, now, registry, waiting, nextBeat, lostCount, outages>>
StartQueryNode(m) == StartNode(m, "query")
StartStorageNode(m) == StartNode(m, "storage")
StartComputeNode(m) == StartNode(m, "compute")

-------------------------------------------------------------------------------
\* cluster_overview of a query node: itself, always alive and the leader, and
\* the nodes of its registry, offline when they were not seen for a while.  A
\* kind without any node is filled with a placeholder.
ClusterOverview(q) ==
  LET Seen(m) == [id |-> m, alive |-> now - registry[q][m].seen <= OfflineAfter, role |-> registry[q][m].role]
      OfKind(k) == {Seen(m) : m \in {x \in DOMAIN registry[q] : kindOf[x] = k}}
      Filled(S) == IF S = {} THEN {[id |-> "placeholder", alive |-> TRUE, role |-> "Worker"]} ELSE S IN
  [query |-> {[id |-> q, alive |-> TRUE, role |-> "Leader"]} \union OfKind("query"),
   compute |-> Filled(OfKind("compute")), data |-> Filled(OfKind("storage"))]

RegistrationInit ==
  /\ kindOf \in MemberKinds /\ now = 0
  /\ memberUp = [m \in AllMembers |-> TRUE] /\ upSince = [m \in AllMembers |-> 0]
  /\ registry = [q \in QueryNodes |-> << >>]
  /\ toTry = [m \in AllMembers |-> PeersOf(m)] /\ waiting = [m \in AllMembers |-> 0]
  /\ nextBeat = [m \in AllMembers |-> 0]
  /\ lostCount = 0 /\ outages = 0

RegistrationNext ==
  \/ \E m \in AllMembers : TryRegister(m) \/ TryRegisterFails(m) \/ NodeCrash(m)
  \/ \E m \in AllMembers : QueryHeartbeat(m) \/ StorageHeartbeat(m) \/ ComputeHeartbeat(m)
  \/ \E m \in AllMembers : StartQueryNode(m) \/ StartStorageNode(m) \/ StartComputeNode(m)
  \/ Tick

-------------------------------------------------------------------------------
Shown(q, m) == \E e \in UNION {ClusterOverview(q)[k] : k \in {"query", "compute", "data"}} : e.id = m /\ e.alive
UpFor(m, t) == memberUp[m] /\ now - upSince[m] > t
Settled == 4   \* time for a first round and one after it

\* What the overview of a running query node says of the others.  A node that
\* has been down for longer than the time limit is not shown alive.  Query
\* nodes that have been up for a while see one another, although a registration
\* may take the whole timeout and one of the requests was lost.  A storage or
\* compute node reaches the first query node, if that is up, within its period
\* and one timeout, which is longer than the limit: it may be shown offline
\* while it is up.  The query nodes after that one do not know of it.
OverviewSound ==
  /\ \A q \in QueryNodes, m \in AllMembers : (memberUp[q] /\ ~memberUp[m] /\ now - upSince[m] > OfflineAfter) => ~Shown(q, m)
  /\ \A q, m \in QueryNodes : (UpFor(q, Settled) /\ UpFor(m, Settled) /\ lostCount <= 1) => Shown(q, m)
  /\ \A m \in AllMembers \ QueryNodes :
       (UpFor(m, Period(m) + 2) /\ UpFor(QnPeers[1], Period(m) + 2) /\ lostCount = 0) =>
         /\ m \in DOMAIN registry[QnPeers[1]]
         /\ now - registry[QnPeers[1]][m].seen <= Period(m) + RequestTimeout
         /\ outages = 0 => \A q \in QueryNodes \ {QnPeers[1]} : m \notin DOMAIN registry[q]
==============================================================================
