---------------------------- MODULE MCCoordination ---------------------------
(***************************************************************************)
(* The coordination protocols of the cluster, one at a time: read-only     *)
(* mode ("guard"), membership and rebalancing ("rebalance"), a distributed *)
(* transaction ("transaction") and the task pipeline of a fragment         *)
(* ("pipeline").  They share no state, so a behaviour runs one of them and *)
(* leaves the others in their initial states.                              *)
(***************************************************************************)
EXTENDS ClusterGuard, Rebalance, TwoPhaseCommit, Pipeline

CONSTANTS p1, p2, admin, session, n1, n2, n3

VARIABLE service

Paths == <<p1, p2>>
GuardTasks == {Monitor, admin, session}
StoreKeys == {StateKey, DbKey}
StoreValues == States \cup {Created}

ThreeNodes == {n1, n2, n3}
Rank(n) == CHOOSE i \in 1 .. 3 : <<n1, n2, n3>>[i] = n

\* The shards are interchangeable, so one distribution stands for all that
\* differ in their names only.
Distributions ==
  {d \in [Shards -> Storage] : \A s, t \in Shards : s < t => Rank(d[s]) <= Rank(d[t])}

\* Two shards, of two batches and of one.
TwoShards == <<<<2, 1>>, <<1>>>>
Chains == {<<>>, <<"pass">>, <<"limit">>, <<"limit", "pass">>, <<"pass", "limit">>}

MCInit ==
  /\ service \in {"guard", "rebalance", "transaction", "pipeline"}
  /\ service # "rebalance" =>
       /\ nodes = [n \in Nodes |-> "Active"]
       /\ dist = [s \in Shards |-> n1]
  /\ service = "rebalance" => dist \in Distributions
  /\ GuardInit /\ RebalanceInit /\ TxInit /\ PipelineInit

MCNext ==
  /\ UNCHANGED service
  /\ \/ service = "guard" /\ GuardNext /\ UNCHANGED <<rebalanceVars, txVars, pipelineVars>>
     \/ service = "rebalance" /\ RebalanceNext /\ UNCHANGED <<guardVars, txVars, pipelineVars>>
     \/ service = "transaction" /\ TxNext /\ UNCHANGED <<guardVars, rebalanceVars, pipelineVars>>
     \/ service = "pipeline" /\ PipelineNext /\ UNCHANGED <<guardVars, rebalanceVars, txVars>>

\* The runtime keeps running every task that can go on: the disk monitor, the
\* rebalance loop, the sessions inside a cluster command, the scan and the
\* operators of a pipeline.  The caller of a pipeline reads until it drops the
\* receiver.  Nothing obliges the transaction coordinator to act.
MCFairness ==
  /\ WF_guardVars(service = "guard" /\ MonitorStep)
  /\ LoopRuns
  /\ \A c \in Clients : WF_rebalanceVars(service = "rebalance" /\ ClientStep(c))
  /\ WF_pipelineVars(service = "pipeline" /\ ScanStep)
  /\ \A i \in 1 .. 2 : WF_pipelineVars(i \in DOMAIN operators /\ OperatorStep(i))
  /\ WF_pipelineVars(CallerReceives)

MCVars == <<service, guardVars, rebalanceVars, txVars, pipelineVars>>
MCSpec == MCInit /\ [][MCNext]_MCVars /\ MCFairness
==============================================================================
