------------------------------ MODULE Ingestion ------------------------------
(***************************************************************************)
(* How rows reach the query node in bulk: the asynchronous insert buffer   *)
(* (query-node/src/ingestion/async_insert.rs) and the Kafka routine load   *)
(* (query-node/src/ingestion/kafka.rs, the worker built with the kafka     *)
(* feature).  A behaviour is about one of them, `source'.  A row of the    *)
(* buffer is <<cube, n>>, the n-th row submitted; a Kafka message is its   *)
(* offset in the topic's one partition, and PoisonOffsets do not parse.    *)
(***************************************************************************)
EXTENDS Integers, Sequences, FiniteSets, FiniteSetsExt, SequencesExt

CONSTANTS
  Cubes,
  MaxSubmitted, ChannelCap, \* rows submitted, channel_cap
  FlushRows,                \* max_rows of both configurations
  FlushCap,                 \* capacity of the batch channels (64 in the code)
  LastOffset, PoisonOffsets,
  MaxStarts, MaxCommitFaults  \* bounds on worker starts and failed commits

VARIABLES
  source,
  \* AsyncInsertBuffer
  submitted, rowChan, buffers, flushing, flushChan, consumed, buffered, workerOf, dropped,
  \* RoutineLoadManager and KafkaConsumerWorker
  job, position, committed, batchRows, batchTop, kafkaStep, sent, starts, firstRead, commitFaults

asyncVars == <<submitted, rowChan, buffers, flushing, flushChan, consumed, buffered, workerOf, dropped>>
kafkaVars == <<job, position, committed, batchRows, batchTop, kafkaStep, sent, starts, firstRead, commitFaults>>
ingestionVars == <<source, asyncVars, kafkaVars>>

CubeOf(row) == row[1]

-------------------------------------------------------------------------------
\* insert waits for room in the row channel; it fails once the worker is gone.
SubmitRow(cube) ==
  /\ Len(submitted) < MaxSubmitted /\ Len(rowChan) < ChannelCap /\ workerOf # "ended"
  /\ LET row == <<cube, Len(submitted) + 1>> IN
     submitted' = Append(submitted, row) /\ rowChan' = Append(rowChan, row)
  /\ UNCHANGED <<buffers, flushing, flushChan, consumed, buffered, workerOf, dropped>>

\* The worker receives a row, buffers it by cube and, at the row or byte limit,
\* drains the cube's buffer into a batch it then waits to send.
MutReceiveRow ==
  /\ workerOf = "waiting" /\ flushing = <<>> /\ rowChan # <<>>
  /\ LET row == Head(rowChan)
         cube == CubeOf(row)
         held == Append(buffers[cube], row)
         full == Len(held) >= FlushRows IN
     /\ rowChan' = Tail(rowChan)
     /\ buffers' = [buffers EXCEPT ![cube] = held]
     /\ flushing' = IF full THEN <<held>> ELSE <<>>
     /\ buffered' = IF full THEN (buffered + 1) - Len(held) ELSE buffered + 1
  /\ UNCHANGED <<submitted, flushChan, consumed, workerOf, dropped>>
ReceiveRow ==
  /\ workerOf = "waiting" /\ flushing = <<>> /\ rowChan # <<>>
  /\ LET row == Head(rowChan)
         cube == CubeOf(row)
         held == Append(buffers[cube], row)
         full == Len(held) >= FlushRows IN
     /\ rowChan' = Tail(rowChan)
     /\ buffers' = [buffers EXCEPT ![cube] = IF full THEN <<>> ELSE held]
     /\ flushing' = IF full THEN <<held>> ELSE <<>>
     /\ buffered' = IF full THEN (buffered + 1) - Len(held) ELSE buffered + 1
  /\ UNCHANGED <<submitted, flushChan, consumed, workerOf, dropped>>

\* The periodic check drains every buffer whose last insert is flush_interval
\* old (any non-empty ones, as the clock is not modelled), in any order.
NonEmpty(cubes) == {c \in cubes : buffers[c] # <<>>}
Drain(cubes, reason) ==
  /\ \E order \in SetToSeqs(NonEmpty(cubes)) : flushing' = [i \in DOMAIN order |-> buffers[order[i]]]
  /\ buffers' = [c \in Cubes |-> IF c \in cubes THEN <<>> ELSE buffers[c]]
  /\ buffered' = buffered - MapThenSumSet(LAMBDA c : Len(buffers[c]), cubes)
  /\ workerOf' = reason
TimeoutFlush ==
  /\ workerOf = "waiting" /\ flushing = <<>>
  /\ \E due \in SUBSET NonEmpty(Cubes) : due # {} /\ Drain(due, "waiting")
  /\ UNCHANGED <<submitted, rowChan, flushChan, consumed, dropped>>

\* The batch is sent when the batch channel has room.  After a shutdown the
\* worker ends when its last batch is sent; rows still in the row channel are
\* dropped with it.
SendBatchToChannel ==
  /\ flushing # <<>> /\ Len(flushChan) < FlushCap
  /\ flushChan' = Append(flushChan, Head(flushing)) /\ flushing' = Tail(flushing)
  /\ UNCHANGED <<submitted, rowChan, buffers, consumed, buffered, workerOf, dropped>>
EndWorker ==
  /\ workerOf = "stopping" /\ flushing = <<>>
  /\ workerOf' = "ended" /\ rowChan' = <<>> /\ dropped' = dropped \o rowChan
  /\ UNCHANGED <<submitted, buffers, flushing, flushChan, consumed, buffered>>
NextBatch ==
  /\ flushChan # <<>>
  /\ flushChan' = Tail(flushChan) /\ consumed' = consumed \o Head(flushChan)
  /\ UNCHANGED <<submitted, rowChan, buffers, flushing, buffered, workerOf, dropped>>

\* shutdown wakes the worker only if it is waiting: notify_waiters stores no
\* permit, so while a batch is being sent the call has no effect.
Shutdown ==
  /\ workerOf = "waiting"
  /\ IF flushing = <<>> THEN Drain(Cubes, "stopping") ELSE UNCHANGED <<buffers, flushing, buffered, workerOf>>
  /\ UNCHANGED <<submitted, rowChan, flushChan, consumed, dropped>>

AsyncNext ==
  \/ \E cube \in Cubes : SubmitRow(cube)
  \/ ReceiveRow \/ TimeoutFlush \/ SendBatchToChannel \/ EndWorker \/ NextBatch \/ Shutdown

-------------------------------------------------------------------------------
\* create_job, pause_job, resume_job, stop_job.
CreateJob == job = "none" /\ job' = "Running" /\ UNCHANGED <<position, committed, batchRows, batchTop, kafkaStep, sent, starts, firstRead, commitFaults>>
PauseJob == job # "none" /\ job' = "Paused" /\ UNCHANGED <<position, committed, batchRows, batchTop, kafkaStep, sent, starts, firstRead, commitFaults>>
ResumeJob == job = "Paused" /\ job' = "Running" /\ UNCHANGED <<position, committed, batchRows, batchTop, kafkaStep, sent, starts, firstRead, commitFaults>>
StopJob == job # "none" /\ job' = "Stopped" /\ UNCHANGED <<position, committed, batchRows, batchTop, kafkaStep, sent, starts, firstRead, commitFaults>>

\* A worker subscribes: it reads from the committed offset, or from the end of
\* the topic (auto.offset.reset = latest), wherever that is, when there is none.
StartWorker ==
  /\ kafkaStep = "off" /\ job = "Running"
  /\ kafkaStep' = "poll" /\ batchRows' = <<>> /\ batchTop' = <<>>
  /\ starts < MaxStarts /\ starts' = starts + 1
  /\ position' \in IF committed = <<>> THEN 0 .. LastOffset ELSE {committed[1]}
  /\ firstRead' = IF committed = <<>> THEN position' ELSE firstRead
  /\ UNCHANGED <<job, committed, sent, commitFaults>>
\* One turn of the loop that polls a message; the state is read first, and a
\* stopped job ends the worker with its unsent batch.
WorkerStops ==
  /\ kafkaStep = "poll" /\ job = "Stopped" /\ kafkaStep' = "off"
  /\ UNCHANGED <<job, position, committed, batchRows, batchTop, sent, starts, firstRead, commitFaults>>
Poll ==
  /\ kafkaStep = "poll" /\ job = "Running" /\ position <= LastOffset
  /\ position' = position + 1
  /\ IF position \in PoisonOffsets THEN UNCHANGED <<batchRows, batchTop>>
     ELSE batchRows' = Append(batchRows, position) /\ batchTop' = <<position + 1>>
  /\ kafkaStep' = "check"
  /\ UNCHANGED <<job, committed, sent, starts, firstRead, commitFaults>>
PollTimeout ==
  /\ kafkaStep = "poll" /\ job = "Running" /\ kafkaStep' = "check"
  /\ UNCHANGED <<job, position, committed, batchRows, batchTop, sent, starts, firstRead, commitFaults>>
\* The flush: at the row limit, or when the batch is not empty and old enough.
NoFlush ==
  /\ kafkaStep = "check" /\ Len(batchRows) < FlushRows /\ kafkaStep' = "poll"
  /\ UNCHANGED <<job, position, committed, batchRows, batchTop, sent, starts, firstRead, commitFaults>>
SendBatchRows ==
  /\ kafkaStep = "check" /\ batchRows # <<>>
  /\ sent' = sent \o batchRows /\ batchRows' = <<>> /\ kafkaStep' = "commit"
  /\ UNCHANGED <<job, position, committed, batchTop, starts, firstRead, commitFaults>>
\* The offsets are committed after the send; a failed commit is only logged.
CommitOffsets ==
  /\ kafkaStep = "commit" /\ kafkaStep' = "poll" /\ batchTop' = <<>>
  /\ \/ committed' = batchTop /\ UNCHANGED commitFaults
     \/ commitFaults < MaxCommitFaults /\ commitFaults' = commitFaults + 1 /\ UNCHANGED committed
  /\ UNCHANGED <<job, position, batchRows, sent, starts, firstRead>>
\* The process may stop anywhere; the group's committed offset survives.
Crash ==
  /\ kafkaStep # "off" /\ kafkaStep' = "off"
  /\ UNCHANGED <<job, position, committed, batchRows, batchTop, sent, starts, firstRead, commitFaults>>

KafkaNext ==
  \/ CreateJob \/ PauseJob \/ ResumeJob \/ StopJob \/ StartWorker \/ WorkerStops
  \/ Poll \/ PollTimeout \/ NoFlush \/ SendBatchRows \/ CommitOffsets \/ Crash

-------------------------------------------------------------------------------
IngestionInit ==
  /\ source \in {"async", "kafka"}
  /\ submitted = <<>> /\ rowChan = <<>> /\ buffers = [c \in Cubes |-> <<>>] /\ flushing = <<>>
  /\ flushChan = <<>> /\ consumed = <<>> /\ buffered = 0 /\ workerOf = "waiting" /\ dropped = <<>>
  /\ job = "none" /\ position = 0 /\ committed = <<>> /\ batchRows = <<>> /\ batchTop = <<>>
  /\ kafkaStep = "off" /\ sent = <<>> /\ starts = 0 /\ firstRead = 0 /\ commitFaults = 0
IngestionNext ==
  \/ source = "async" /\ AsyncNext /\ UNCHANGED <<source, kafkaVars>>
  \/ source = "kafka" /\ KafkaNext /\ UNCHANGED <<source, asyncVars>>

OfCube(rows, cube) == SelectSeq(rows, LAMBDA r : CubeOf(r) = cube)
Times(n) == Cardinality({i \in DOMAIN sent : sent[i] = n})

\* No bulk row is lost, duplicated or reordered on its way.  Insert buffer: for
\* each cube the rows consumed, waiting as batches, buffered, in the row channel
\* and dropped at the shutdown are, in this order, the rows submitted; only rows
\* that were still in the row channel at a shutdown are dropped; buffered_rows()
\* is what the buffers hold.  Routine load: every message that parses, from the
\* one the worker began with (firstRead: before the first commit a new worker
\* begins at the end of the topic) up to the committed offset, was sent; a
\* message is sent at most once per start of the worker.
BulkRowsExact ==
  /\ \A cube \in Cubes :
       OfCube(consumed \o FlattenSeq(flushChan) \o FlattenSeq(flushing), cube) \o buffers[cube] \o OfCube(rowChan \o dropped, cube)
         = OfCube(submitted, cube)
  /\ dropped # <<>> => workerOf = "ended"
  /\ buffered = MapThenSumSet(LAMBDA c : Len(buffers[c]), Cubes)
  /\ \A n \in 0 .. LastOffset : Times(n) <= starts
  /\ committed # <<>> => \A n \in (firstRead .. committed[1] - 1) \ PoisonOffsets : Times(n) >= 1
==============================================================================
