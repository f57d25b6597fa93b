----------------------------- MODULE Rebalance -----------------------------
(* Cluster membership and shard placement: ClusterTopologyManager,         *)
(* ClusterCommandExecutor (JOIN, DRAIN, DISMISS, REBALANCE) and the        *)
(* RebalanceCoordinator event loop with its planner and migrator           *)
(* (query-node/src/meta/cluster_topology.rs, cluster_cmd.rs, rebalance/).  *)
EXTENDS Naturals, FiniteSets, SequencesExt

-----------------------------------------------------------------------------
(* RebalancePlanner::plan, a function of the distribution and the eligible *)
(* nodes (rebalance/planner.rs).  The code fills maps and iterates over    *)
(* them, so the order of the nodes and of the shards of a node is not      *)
(* determined: both are parameters.                                        *)

div_ceil(a, b) == (a + b - 1) \div b

\* current_distribution is a function from shards to nodes.
Load(dist, n) == Cardinality({s \in DOMAIN dist : dist[s] = n})

TargetPerSn(dist, eligible) == div_ceil(Cardinality(DOMAIN dist), Cardinality(eligible))

\* The shards of one node, in the order of the map.
ShardsOf(dist, shardOrder, n) == SelectSeq(shardOrder, LAMBDA s : dist[s] = n)

\* The cursor is not advanced: every receiver is given a donor's last shard.
MutExcess(dist, target, shardOrder, n) ==
  LET own == ShardsOf(dist, shardOrder, n)
  IN  [k \in 1..(Len(own) - target) |-> [shard |-> Last(own), from |-> n]]

\* What a donor gives away, from the end of its list down to the target.
Excess(dist, target, shardOrder, n) ==
  LET own == ShardsOf(dist, shardOrder, n)
  IN  [k \in 1..(Len(own) - target) |-> [shard |-> own[Len(own) - k + 1], from |-> n]]

\* One slot too many for every receiver.
MutNeeded(dist, target, n) ==
  [k \in 1..(target - Load(dist, n) + 1) |-> n]

\* A receiver's slots.  A node that only holds shards, and is not eligible, is
\* a receiver like any other when it is below the target.
Needed(dist, target, n) ==
  [k \in 1..(target - Load(dist, n)) |-> n]

\* Over and under the target; the others neither give nor take.
Donors(dist, known, target) == {n \in known : Load(dist, n) > target}
Receivers(dist, known, target) == {n \in known : Load(dist, n) < target}

\* The receivers are served in turn from the donors in turn: the i-th shard
\* given away goes to the i-th slot, until either list ends.
Assign(dist, target, donors, receivers, shardOrder) ==
  LET given == FlattenSeq([i \in DOMAIN donors |-> Excess(dist, target, shardOrder, donors[i])])
      slots == FlattenSeq([i \in DOMAIN receivers |-> Needed(dist, target, receivers[i])])
      moves == IF Len(given) < Len(slots) THEN Len(given) ELSE Len(slots)
  IN  [i \in 1..moves |-> [shard |-> given[i].shard, from |-> given[i].from, to |-> slots[i]]]

\* plan, for every order the maps can have.
Plans(dist, eligible) ==
  IF eligible = {} THEN {<<>>}
  ELSE
    LET target == TargetPerSn(dist, eligible)
        known == eligible \cup {dist[s] : s \in DOMAIN dist}
        donors == Donors(dist, known, target)
        movable == {s \in DOMAIN dist : dist[s] \in donors}
    IN  {Assign(dist, target, ds, rs, so) :
           ds \in SetToSeqs(donors),
           rs \in SetToSeqs(Receivers(dist, known, target)),
           so \in SetToSeqs(movable)}

-----------------------------------------------------------------------------
(* The cluster. *)

CONSTANTS
  Nodes,       \* node ids
  Storage,     \* the storage nodes among them
  Shards,      \* shard ids
  Clients,     \* sessions that run cluster commands
  Capacity,    \* of the event channel (64 in the code)
  MaxCmds,     \* bound on commands
  MaxFaults    \* bound on failed migrations and evictions

ASSUME RebalanceConstants ==
  /\ Storage \subseteq Nodes /\ IsFiniteSet(Nodes) /\ IsFiniteSet(Shards)
  /\ Capacity \in Nat \ {0} /\ {MaxCmds, MaxFaults} \subseteq Nat

VARIABLES
  nodes,       \* ClusterTopologyManager.nodes: Absent or the state
  queue,       \* the events in the channel
  dist,        \* current_dist
  loop,        \* the event loop: its step, the eligible nodes and the plans
  cmd,         \* Clients -> the command each one is in
  cmds, faults,
  target       \* history: target_per_sn of the last run, 0 when a migration failed

rebalanceVars == <<nodes, queue, dist, loop, cmd, cmds, faults, target>>
loopVars == <<dist, loop, target>>

NoCmd == [pc |-> "idle", node |-> "none"]
Receiving == [pc |-> "recv", eligible |-> {}, plans |-> <<>>]

\* A cluster that at most one of the nodes has yet to join, and any
\* distribution it was given (set_distribution).
RebalanceInit ==
  /\ \E late \in SUBSET Nodes :
       /\ Cardinality(late) <= 1
       /\ nodes = [n \in Nodes |-> IF n \in late THEN "Absent" ELSE "Active"]
  /\ queue = <<>>
  /\ dist \in [Shards -> Storage]
  /\ loop = Receiving
  /\ cmd = [c \in Clients |-> NoCmd]
  /\ cmds = 0 /\ faults = 0
  /\ target = Cardinality(Shards)

\* A client begins a command, and goes on with the node while it needs it.
Command(c) == cmd[c] = NoCmd /\ cmds < MaxCmds /\ cmds' = cmds + 1
Goto(c, pc, n) == cmd' = [cmd EXCEPT ![c] = [pc |-> pc, node |-> n]]
Return(c) == cmd' = [cmd EXCEPT ![c] = NoCmd]

\* register_node overwrites what is registered: the state is Active again.
register_node(n) == nodes' = [nodes EXCEPT ![n] = "Active"]

transition(n, state) == nodes' = [nodes EXCEPT ![n] = state]

\* join_node registers the node; a storage node then sends an event.
join_node(c, n) ==
  /\ Command(c)
  /\ IF n \in Storage THEN Goto(c, "send", "none") ELSE Return(c)
  /\ register_node(n)
  /\ UNCHANGED <<queue, loopVars, faults>>

\* drain_node: Readonly, then Draining under a second lock, then the event.
drain_node(c, n) ==
  /\ Command(c)
  /\ IF nodes[n] = "Absent"
     THEN Return(c) /\ UNCHANGED nodes
     ELSE Goto(c, "draining", n) /\ transition(n, "Readonly")
  /\ UNCHANGED <<queue, loopVars, faults>>

SetDraining(c) ==
  LET n == cmd[c].node IN
  /\ cmd[c].pc = "draining"
  /\ IF nodes[n] = "Absent"
     THEN Return(c) /\ UNCHANGED nodes
     ELSE Goto(c, "send", "none") /\ transition(n, "Draining")
  /\ UNCHANGED <<queue, loopVars, cmds, faults>>

\* dismiss_node reads the state, and removes under a second lock.
dismiss_node(c, n) ==
  /\ Command(c)
  /\ IF nodes[n] = "Draining" THEN Goto(c, "remove", n) ELSE Return(c)
  /\ UNCHANGED <<nodes, queue, loopVars, faults>>

remove_node(c) ==
  /\ cmd[c].pc = "remove"
  /\ Return(c)
  /\ nodes' = [nodes EXCEPT ![cmd[c].node] = "Absent"]
  /\ UNCHANGED <<queue, loopVars, cmds, faults>>

manual_rebalance(c) ==
  /\ Command(c)
  /\ Goto(c, "send", "none")
  /\ UNCHANGED <<nodes, queue, loopVars, faults>>

\* Whoever holds the sender may end the loop; the receiver stays alive.
Shutdown(c) ==
  /\ Command(c)
  /\ Goto(c, "stop", "none")
  /\ UNCHANGED <<nodes, queue, loopVars, faults>>

\* send().await waits while the channel is full.
Send(c) ==
  /\ cmd[c].pc \in {"send", "stop"}
  /\ Len(queue) < Capacity
  /\ queue' = Append(queue, IF cmd[c].pc = "stop" THEN "Shutdown" ELSE "Rebalance")
  /\ Return(c)
  /\ UNCHANGED <<nodes, loopVars, cmds, faults>>

\* Active nodes whose last heartbeat is older than HEARTBEAT_TIMEOUT become
\* Draining; no event is sent.  Which ones are overdue is time's choice.
evict_stale_nodes(overdue) ==
  /\ faults < MaxFaults /\ faults' = faults + 1
  /\ nodes' = [n \in Nodes |-> IF n \in overdue THEN "Draining" ELSE nodes[n]]
  /\ UNCHANGED <<queue, loopVars, cmd, cmds>>

eligible_storage_nodes == {n \in Storage : nodes[n] = "Active"}

\* The event is looked at and left in the channel.
MutReceive ==
  /\ loop.pc = "recv"
  /\ queue # <<>>
  /\ loop' = [loop EXCEPT !.pc = IF Head(queue) = "Shutdown" THEN "stopped" ELSE "eligible"]
  /\ UNCHANGED <<nodes, queue, dist, target, cmd, cmds, faults>>

\* run_event_loop: every event but Shutdown starts a run.
Receive ==
  /\ loop.pc = "recv"
  /\ queue # <<>>
  /\ queue' = Tail(queue)
  /\ loop' = [loop EXCEPT !.pc = IF Head(queue) = "Shutdown" THEN "stopped" ELSE "eligible"]
  /\ UNCHANGED <<nodes, dist, target, cmd, cmds, faults>>

\* run_once reads the topology ...
ReadEligible ==
  /\ loop.pc = "eligible"
  /\ loop' = [loop EXCEPT !.pc = "plan", !.eligible = eligible_storage_nodes]
  /\ UNCHANGED <<nodes, queue, dist, target, cmd, cmds, faults>>

\* ... then the distribution, and plans.
Plan ==
  /\ loop.pc = "plan"
  /\ \E p \in Plans(dist, loop.eligible) :
       loop' = [loop EXCEPT !.pc = "migrate", !.plans = p]
  /\ target' = IF loop.eligible = {} THEN 0 ELSE TargetPerSn(dist, loop.eligible)
  /\ UNCHANGED <<nodes, queue, dist, cmd, cmds, faults>>

\* ShardMigrator::run, and the distribution follows; it is not checked that
\* the target node is still there.
Migrate ==
  /\ loop.pc = "migrate" /\ loop.plans # <<>>
  /\ LET p == Head(loop.plans) IN dist' = [dist EXCEPT ![p.shard] = p.to]
  /\ loop' = [loop EXCEPT !.plans = Tail(@)]
  /\ UNCHANGED <<nodes, queue, target, cmd, cmds, faults>>

\* A failed migration is logged; the rest of the plan goes on.
MigrationFails ==
  /\ loop.pc = "migrate" /\ loop.plans # <<>>
  /\ faults < MaxFaults /\ faults' = faults + 1
  /\ loop' = [loop EXCEPT !.plans = Tail(@)]
  /\ target' = 0
  /\ UNCHANGED <<nodes, queue, dist, cmd, cmds>>

RunEnds ==
  /\ loop.pc = "migrate" /\ loop.plans = <<>>
  /\ loop' = Receiving
  /\ UNCHANGED <<nodes, queue, dist, target, cmd, cmds, faults>>

ClientStep(c) == SetDraining(c) \/ remove_node(c) \/ Send(c)

RebalanceNext ==
  \/ Receive \/ ReadEligible \/ Plan \/ Migrate \/ MigrationFails \/ RunEnds
  \/ \E overdue \in SUBSET {n \in Nodes : nodes[n] = "Active"} \ {{}} : evict_stale_nodes(overdue)
  \/ \E c \in Clients :
       \/ ClientStep(c) \/ manual_rebalance(c) \/ Shutdown(c)
       \/ \E n \in Nodes : join_node(c, n) \/ drain_node(c, n) \/ dismiss_node(c, n)

LoopCanStep == loop.pc \in {"eligible", "plan", "migrate"} \/ (loop.pc = "recv" /\ queue # <<>>)

\* The runtime polls the event loop: weak fairness of its steps, written out
\* (they are the ones that change loop).
LoopRuns == []<>(~LoopCanStep) \/ []<><<loop' # loop>>_rebalanceVars

-----------------------------------------------------------------------------
\* Whatever nodes join, drain or leave while a run executes its plans: each
\* plan left moves a different shard, away from the node that still holds it,
\* to another node.
PlansCurrent ==
  \A i, j \in DOMAIN loop.plans :
    LET p == loop.plans[i] IN
    /\ dist[p.shard] = p.from /\ p.to # p.from
    /\ i # j => p.shard # loop.plans[j].shard

\* After a run whose migrations all succeeded no node, eligible or not, holds
\* more than ceil(shards / eligible nodes), the target the planner aims at.
NoneAboveTarget ==
  loop.pc = "recv" /\ target # 0 => \A n \in Nodes : Load(dist, n) <= target

\* A cluster command returns, also when it has to wait for room in the event
\* channel, unless the loop was shut down: then the channel may stay full.
CommandsReturn ==
  \A c \in Clients : cmd[c].pc # "idle" ~> (cmd[c].pc = "idle" \/ loop.pc = "stopped")
=============================================================================
