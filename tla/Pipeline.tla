------------------------------- MODULE Pipeline ------------------------------
(***************************************************************************)
(* Execution pipeline of a compute node: ShardScanStage                    *)
(* (compute-node/src/executor/shard_scan.rs) feeds a chain of operators    *)
(* (executor/pipeline.rs), each a task of its own, connected by channels   *)
(* of PIPELINE_BUFFER batches; the last receiver is read by the caller.    *)
(*                                                                         *)
(* A batch is [id, rows], an error <<"err">>.  Stage 0 is the scan, stage  *)
(* i the i-th operator; channel i carries what stage i sends.              *)
(***************************************************************************)
EXTENDS Integers, Sequences, FiniteSets, SequencesExt

CONSTANTS
  PipelineBuffer,  \* PIPELINE_BUFFER
  PipeShards,          \* for each shard the sequence of its batches' row counts
  OperatorChains,  \* chains to run: sequences of "pass" and "limit"
  RowLimit,        \* LimitOp.limit
  MaxScanFaults    \* bound on failing calls, broken streams and undecodable batches

VARIABLES
  operators,   \* the chain
  chan,        \* channel -> [queue, tx, rx]: contents, sender alive, receiver alive
  scanState,   \* [shard, chunks, done]: next shard, batches of the last one still to send
  opState,     \* operator -> [hand, remaining, done]; hand: a received item not yet sent
  delivered,   \* items the caller received
  scanFaults   \* [left, cut]: faults left; whether a stream broke off silently

pipelineVars == <<operators, chan, scanState, opState, delivered, scanFaults>>

ShardBatches(s) == [i \in DOMAIN PipeShards[s] |-> <<"batch", s, i, PipeShards[s][i]>>]
BatchRows(item) == item[4]
IsErr(item) == item[1] = "err"
LastStage == Len(operators)
Started == scanState.shard > 0

-------------------------------------------------------------------------------
(* Channels (tokio mpsc).                                                   *)

HasRoom(i) == Len(chan[i].queue) < PipelineBuffer
CanSend(i) == chan[i].rx /\ HasRoom(i)
SendOn(i, item) == [chan EXCEPT ![i].queue = Append(@, item)]
Ended(i) == chan[i].queue = <<>> /\ ~chan[i].tx

-------------------------------------------------------------------------------
(* ShardScanStage::scan_all.                                                *)

EndScan(c) ==
  /\ chan' = [c EXCEPT ![0].tx = FALSE]
  /\ scanState' = [scanState EXCEPT !.done = TRUE, !.chunks = <<>>]

NeedsShard == Started /\ ~scanState.done /\ scanState.chunks = <<>>

\* GrpcShardTransport::scan: all batches of a shard.
ScanShardOk ==
  /\ NeedsShard /\ scanState.shard <= Len(PipeShards)
  /\ scanState' = [scanState EXCEPT !.shard = @ + 1, !.chunks = ShardBatches(scanState.shard)]
  /\ UNCHANGED <<operators, chan, opState, delivered, scanFaults>>

\* The stream breaks off: what came so far is returned as if it were all.
ScanShardCut ==
  /\ NeedsShard /\ scanState.shard <= Len(PipeShards) /\ scanFaults.left > 0
  /\ \E n \in 0 .. Len(PipeShards[scanState.shard]) - 1 :
       scanState' = [scanState EXCEPT !.shard = @ + 1, !.chunks = SubSeq(ShardBatches(scanState.shard), 1, n)]
  /\ scanFaults' = [left |-> scanFaults.left - 1, cut |-> TRUE]
  /\ UNCHANGED <<operators, chan, opState, delivered>>

\* The call fails: the error is sent and the stage ends.  It waits for room;
\* a receiver that is gone is ignored.
ScanShardFails ==
  /\ NeedsShard /\ scanState.shard <= Len(PipeShards) /\ scanFaults.left > 0
  /\ CanSend(0) \/ ~chan[0].rx
  /\ EndScan(IF chan[0].rx THEN SendOn(0, <<"err">>) ELSE chan)
  /\ scanFaults' = [scanFaults EXCEPT !.left = @ - 1]
  /\ UNCHANGED <<operators, opState, delivered>>

\* A batch is decoded and sent, or cannot be decoded and ends the stage.
SendBatch ==
  /\ ~scanState.done /\ scanState.chunks # <<>> /\ CanSend(0)
  /\ \/ /\ chan' = SendOn(0, Head(scanState.chunks))
        /\ scanState' = [scanState EXCEPT !.chunks = Tail(@)]
        /\ UNCHANGED scanFaults
     \/ /\ scanFaults.left > 0
        /\ EndScan(SendOn(0, <<"err">>))
        /\ scanFaults' = [scanFaults EXCEPT !.left = @ - 1]
  /\ UNCHANGED <<operators, opState, delivered>>

\* Nobody receives any more, or all shards are done.
FinishScanStage ==
  /\ ~scanState.done
  /\ \/ scanState.chunks # <<>> /\ ~chan[0].rx
     \/ NeedsShard /\ scanState.shard > Len(PipeShards)
  /\ EndScan(chan)
  /\ UNCHANGED <<operators, opState, delivered, scanFaults>>

-------------------------------------------------------------------------------
(* Operators: PassThroughOp and LimitOp.  A task that returns drops its     *)
(* receiver and its sender.                                                 *)

EndOperator(i, c) ==
  /\ chan' = [c EXCEPT ![i - 1].rx = FALSE, ![i - 1].queue = <<>>, ![i].tx = FALSE]
  /\ opState' = [opState EXCEPT ![i].done = TRUE, ![i].hand = <<>>]

OperatorReceive(i) ==
  /\ ~opState[i].done /\ opState[i].hand = <<>> /\ chan[i - 1].queue # <<>>
  /\ LET item == Head(chan[i - 1].queue)
         rest == [chan EXCEPT ![i - 1].queue = Tail(@)] IN
     IF operators[i] = "limit" /\ ~IsErr(item) /\ opState[i].remaining = 0
     THEN EndOperator(i, rest)
     ELSE chan' = rest /\ opState' = [opState EXCEPT ![i].hand = <<item>>]
  /\ UNCHANGED <<operators, scanState, delivered, scanFaults>>

OperatorInputEnded(i) ==
  /\ ~opState[i].done /\ opState[i].hand = <<>> /\ Ended(i - 1)
  /\ EndOperator(i, chan)
  /\ UNCHANGED <<operators, scanState, delivered, scanFaults>>

\* The batch that reaches the limit is not sent.
MutOperatorSend(i) ==
  /\ ~opState[i].done /\ opState[i].hand # <<>> /\ CanSend(i)
  /\ LET item == opState[i].hand[1]
         stops == operators[i] = "limit" /\ (IsErr(item) \/ BatchRows(item) >= opState[i].remaining) IN
     IF stops THEN EndOperator(i, chan)
     ELSE /\ chan' = SendOn(i, item)
          /\ opState' = [opState EXCEPT ![i].hand = <<>>,
                           ![i].remaining = IF operators[i] = "limit" THEN @ - BatchRows(item) ELSE @]
  /\ UNCHANGED <<operators, scanState, delivered, scanFaults>>

\* LimitOp stops after an error and after the batch that exceeds what
\* remains, which it sends uncut.
OperatorSend(i) ==
  /\ ~opState[i].done /\ opState[i].hand # <<>> /\ CanSend(i)
  /\ LET item == opState[i].hand[1]
         stops == operators[i] = "limit" /\ (IsErr(item) \/ BatchRows(item) > opState[i].remaining) IN
     IF stops THEN EndOperator(i, SendOn(i, item))
     ELSE /\ chan' = SendOn(i, item)
          /\ opState' = [opState EXCEPT ![i].hand = <<>>,
                           ![i].remaining = IF operators[i] = "limit" THEN @ - BatchRows(item) ELSE @]
  /\ UNCHANGED <<operators, scanState, delivered, scanFaults>>

\* The failed send is not noticed while nothing is left to receive.
MutOperatorSendFails(i) ==
  /\ ~opState[i].done /\ opState[i].hand # <<>> /\ ~chan[i].rx
  /\ chan[i - 1].queue # <<>>
  /\ EndOperator(i, chan)
  /\ UNCHANGED <<operators, scanState, delivered, scanFaults>>

\* The receiver is gone: the operator returns.
OperatorSendFails(i) ==
  /\ ~opState[i].done /\ opState[i].hand # <<>> /\ ~chan[i].rx
  /\ EndOperator(i, chan)
  /\ UNCHANGED <<operators, scanState, delivered, scanFaults>>

-------------------------------------------------------------------------------
(* The caller of execute_fragment_with_shards.                              *)

CallerReceives ==
  /\ Started
  /\ chan[LastStage].rx /\ chan[LastStage].queue # <<>>
  /\ delivered' = Append(delivered, Head(chan[LastStage].queue))
  /\ chan' = [chan EXCEPT ![LastStage].queue = Tail(@)]
  /\ UNCHANGED <<operators, scanState, opState, scanFaults>>

CallerDrops ==
  /\ Started
  /\ chan[LastStage].rx
  /\ chan' = [chan EXCEPT ![LastStage].rx = FALSE, ![LastStage].queue = <<>>]
  /\ UNCHANGED <<operators, scanState, opState, delivered, scanFaults>>

PipelineInit ==
  /\ operators = <<>>
  /\ chan = <<>>
  /\ scanState = [shard |-> 0, chunks |-> <<>>, done |-> FALSE]
  /\ opState = <<>>
  /\ delivered = <<>>
  /\ scanFaults = [left |-> MaxScanFaults, cut |-> FALSE]

\* execute_fragment_with_shards and Pipeline::run spawn the scan and a task for
\* each operator, connected by new channels.
StartPipeline(chain) ==
  /\ ~Started
  /\ operators' = chain
  /\ chan' = [i \in 0 .. Len(chain) |-> [queue |-> <<>>, tx |-> TRUE, rx |-> TRUE]]
  /\ opState' = [i \in DOMAIN chain |-> [hand |-> <<>>, remaining |-> RowLimit, done |-> FALSE]]
  /\ scanState' = [scanState EXCEPT !.shard = 1]
  /\ UNCHANGED <<delivered, scanFaults>>

ScanStep == ScanShardOk \/ ScanShardCut \/ ScanShardFails \/ SendBatch \/ FinishScanStage
OperatorStep(i) == OperatorReceive(i) \/ OperatorInputEnded(i) \/ OperatorSend(i) \/ OperatorSendFails(i)

PipelineNext ==
  \/ \E chain \in OperatorChains : StartPipeline(chain)
  \/ ScanShardOk \/ ScanShardCut \/ ScanShardFails \/ SendBatch \/ FinishScanStage
  \/ \E i \in DOMAIN operators : OperatorReceive(i) \/ OperatorInputEnded(i) \/ OperatorSend(i) \/ OperatorSendFails(i)
  \/ CallerReceives
  \/ CallerDrops

-------------------------------------------------------------------------------
AllBatches == FlattenSeq([s \in DOMAIN PipeShards |-> ShardBatches(s)])
TotalRows(items) == FoldLeft(LAMBDA n, item : n + BatchRows(item), 0, items)
Limited == "limit" \in ToSet(operators)

\* What the caller receives before an error is the batches of the shards in
\* order, none lost and none twice, unless a stream broke off; and when the
\* channel ends without an error and the caller is still there, the batches
\* are all of them, or with a LIMIT at least that many rows with no batch
\* more than needed.
PipelineExact ==
  LET good == SelectSeq(delivered, LAMBDA x : ~IsErr(x)) IN
  Started /\ ~scanFaults.cut =>
    /\ IsPrefix(good, AllBatches)
    /\ (chan[LastStage].rx /\ Ended(LastStage) /\ good = delivered) =>
         \/ good = AllBatches
         \/ Limited /\ TotalRows(good) >= RowLimit /\ TotalRows(Front(good)) < RowLimit

\* Once started, every stage ends and the caller's receiver is closed or dropped, whatever
\* the batches, the faults and the point at which the caller gives up: no
\* task waits for ever on a full or an abandoned channel.
PipelineCloses ==
  Started ~> /\ scanState.done
             /\ \A i \in DOMAIN operators : opState[i].done
             /\ Ended(LastStage) \/ ~chan[LastStage].rx
==============================================================================
