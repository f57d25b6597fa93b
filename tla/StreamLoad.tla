----------------------------- MODULE StreamLoad ------------------------------
(***************************************************************************)
(* Stream load for Spark (query-node/src/ingestion/spark.rs): a driver     *)
(* begins a transaction, executors send data, the driver commits or        *)
(* aborts.  Each request takes the lock of the transaction manager         *)
(* (query-node/src/transaction.rs) and that of the pending row counts one  *)
(* after the other, and requests interleave in between.  The data itself   *)
(* goes nowhere yet: what a load leaves is its count of rows.              *)
(***************************************************************************)
EXTENDS Integers, Sequences, FiniteSets, FiniteSetsExt, Functions

CONSTANTS
  LoadTxs,     \* transaction ids, drawn by begin
  LoadClients, \* requests under way at once
  BodyRows,    \* newline counts of the bodies sent
  MaxRequests  \* bound on requests

VARIABLES
  loadTx,      \* tx -> state in the transaction manager, "none" if it has none
  pendingRows, \* tx -> <<>> or <<rows>>
  request,     \* client -> [op, tx, rows]: what the request still has to do
  requests,    \* number of requests so far
  ledger       \* tx -> [given, received, reported, discarded]: its id was given out; rows
               \* acknowledged, reported by a commit, dropped by an abort or a failed commit

streamLoadVars == <<loadTx, pendingRows, request, requests, ledger>>

NoRequest == [op |-> "none", tx |-> "", rows |-> 0]
Held(t) == IF pendingRows[t] = <<>> THEN 0 ELSE pendingRows[t][1]
Known(t) == ledger[t].given
Ask(c, op, t, rows) == request' = [request EXCEPT ![c] = [op |-> op, tx |-> t, rows |-> rows]]
Answered(c) == request' = [request EXCEPT ![c] = NoRequest]
Arrives(c) == request[c] = NoRequest /\ requests < MaxRequests /\ requests' = requests + 1
Account(t, field, rows) == ledger' = [ledger EXCEPT ![t][field] = @ + rows]

-------------------------------------------------------------------------------
\* begin_tx: the transaction, then its count; the client learns the id when
\* both are there.
BeginTx(c, t) ==
  /\ Arrives(c) /\ loadTx[t] = "none" /\ ~Known(t)
  /\ \A d \in LoadClients : request[d].tx # t
  /\ loadTx' = [loadTx EXCEPT ![t] = "Active"] /\ Ask(c, "begun", t, 0)
  /\ UNCHANGED <<pendingRows, ledger>>
BeginTxPending(c) ==
  /\ request[c].op = "begun"
  /\ pendingRows' = [pendingRows EXCEPT ![request[c].tx] = <<0>>] /\ Answered(c)
  /\ ledger' = [ledger EXCEPT ![request[c].tx].given = TRUE]
  /\ UNCHANGED <<loadTx, requests>>

\* stream_load asks only whether the transaction exists, in any state.
StreamLoadRequest(c, t, rows) ==
  /\ Arrives(c) /\ Known(t)
  /\ IF loadTx[t] = "none" THEN UNCHANGED request ELSE Ask(c, "load", t, rows)
  /\ UNCHANGED <<loadTx, pendingRows, ledger>>
MutStreamLoadAdd(c) ==
  /\ request[c].op = "load"
  /\ pendingRows' = [pendingRows EXCEPT ![request[c].tx] = <<request[c].rows>>]
  /\ Answered(c) /\ Account(request[c].tx, "received", request[c].rows)
  /\ UNCHANGED <<loadTx, requests>>
StreamLoadAdd(c) ==
  /\ request[c].op = "load"
  /\ pendingRows' = [pendingRows EXCEPT ![request[c].tx] = <<Held(request[c].tx) + request[c].rows>>]
  /\ Answered(c) /\ Account(request[c].tx, "received", request[c].rows)
  /\ UNCHANGED <<loadTx, requests>>

\* commit_tx takes the count and then marks the transaction, whatever its
\* state; without one the commit fails, and the count is gone.
CommitTx(c, t) ==
  /\ Arrives(c) /\ Known(t)
  /\ Ask(c, "commit", t, Held(t)) /\ pendingRows' = [pendingRows EXCEPT ![t] = <<>>]
  /\ UNCHANGED <<loadTx, ledger>>
CommitTxMark(c) ==
  /\ request[c].op = "commit" /\ Answered(c)
  /\ LET t == request[c].tx IN
     IF loadTx[t] # "none"
     THEN loadTx' = [loadTx EXCEPT ![t] = "Committed"] /\ Account(t, "reported", request[c].rows)
     ELSE Account(t, "discarded", request[c].rows) /\ UNCHANGED loadTx
  /\ UNCHANGED <<pendingRows, requests>>

\* abort_tx drops the count and rolls back.
AbortTx(c, t) ==
  /\ Arrives(c) /\ Known(t)
  /\ Ask(c, "abort", t, Held(t)) /\ pendingRows' = [pendingRows EXCEPT ![t] = <<>>]
  /\ UNCHANGED <<loadTx, ledger>>
AbortTxRollback(c) ==
  /\ request[c].op = "abort" /\ Answered(c)
  /\ LET t == request[c].tx IN
     /\ loadTx' = IF loadTx[t] = "none" THEN loadTx ELSE [loadTx EXCEPT ![t] = "RolledBack"]
     /\ Account(t, "discarded", request[c].rows)
  /\ UNCHANGED <<pendingRows, requests>>

\* cleanup_timed_out: removes what has ended and what timed out just now.
CleanupLoads(timedOut) ==
  /\ loadTx' = [t \in LoadTxs |-> IF loadTx[t] # "Active" \/ t \in timedOut THEN "none" ELSE "Active"]
  /\ loadTx' # loadTx
  /\ UNCHANGED <<pendingRows, request, requests, ledger>>

StreamLoadInit ==
  /\ loadTx = [t \in LoadTxs |-> "none"] /\ pendingRows = [t \in LoadTxs |-> <<>>]
  /\ request = [c \in LoadClients |-> NoRequest] /\ requests = 0
  /\ ledger = [t \in LoadTxs |-> [given |-> FALSE, received |-> 0, reported |-> 0, discarded |-> 0]]

StreamLoadNext ==
  \/ \E c \in LoadClients, t \in LoadTxs : BeginTx(c, t) \/ CommitTx(c, t) \/ AbortTx(c, t)
  \/ \E c \in LoadClients, t \in LoadTxs, n \in BodyRows : StreamLoadRequest(c, t, n)
  \/ \E c \in LoadClients : BeginTxPending(c) \/ StreamLoadAdd(c) \/ CommitTxMark(c) \/ AbortTxRollback(c)
  \/ \E T \in SUBSET LoadTxs : CleanupLoads(T)

-------------------------------------------------------------------------------
Taken(t) == LET Ends == {c \in LoadClients : request[c].op \in {"commit", "abort"} /\ request[c].tx = t} IN
            FoldFunctionOnSet(LAMBDA x, y : x.rows + y, 0, request, Ends)

\* Whatever the order of loads, commits, aborts and the cleanup, every row a
\* load acknowledged is counted once: still pending, in the hands of a commit
\* or abort under way, reported by one commit (of a retried commit the second
\* reports none of them), or dropped by an abort or by a commit that found no
\* transaction.  Loads accepted after the commit stay pending.
LoadsAccounted ==
  \A t \in LoadTxs : ledger[t].received = Held(t) + Taken(t) + ledger[t].reported + ledger[t].discarded
==============================================================================
