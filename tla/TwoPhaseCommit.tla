---------------------------- MODULE TwoPhaseCommit ---------------------------
(***************************************************************************)
(* One distributed write transaction: the query node's TransactionManager  *)
(* (query-node/src/transaction.rs) and the SnTransactionManager of every   *)
(* storage node (storage-node/src/transaction.rs).                         *)
(*                                                                         *)
(* The coordinator that calls both is not in the repository                *)
(* (prepare_commit leaves the gRPC Commit calls to it).  It is modelled    *)
(* from the managers' interface: register the participants, send Prepare,  *)
(* pass on the acknowledgements, and when receive_prepare_ack answers      *)
(* "all prepared" call prepare_commit and send Commit.  Another handler    *)
(* may call rollback until then.  Messages are lost, delayed, reordered    *)
(* and duplicated: one that has been sent may be received any number of    *)
(* times, or never.                                                        *)
(*                                                                         *)
(* Time: a storage node starts its timer after the query node has started  *)
(* its own, and waits longer (120 s against 60 s), so its timer runs out   *)
(* later.                                                                  *)
(***************************************************************************)
EXTENDS Naturals, Sequences

CONSTANTS
  TxNodes,       \* storage nodes
  NoTx,        \* a manager does not know the transaction
  MaxParts     \* bound on register_participant calls

ASSUME PartsAssumption == MaxParts \in Nat
ASSUME NoTxAssumption == NoTx \notin {"Active", "Prepared", "Committed", "RolledBack"}

VARIABLES
  qn,          \* the query node's Transaction: [state, parts], or NoTx
  qlate,       \* its timeout has passed
  sn,          \* SnTransaction.state on every storage node, or NoTx
  slate,       \* its timeout has passed there
  msgs,        \* messages sent so far
  coord,       \* phase of the coordinator
  committedBy, \* storage nodes that have answered Commit with Ok
  outcome      \* history: how the transaction has ended on a storage node

txVars == <<qn, qlate, sn, slate, msgs, coord, committedBy, outcome>>
snVars == <<sn, slate, outcome>>
qnVars == <<qn, qlate, coord, committedBy>>

Msg(type, ns) == {[type |-> type, node |-> n] : n \in ns}
Sent(type, n) == [type |-> type, node |-> n] \in msgs
Participants == {qn.parts[i].node : i \in DOMAIN qn.parts}
Known(states) == qn # NoTx /\ qn.state \in states

\* TransactionManager::begin.
TxInit ==
  /\ qn = [state |-> "Active", parts |-> <<>>]
  /\ qlate = FALSE
  /\ sn = [n \in TxNodes |-> NoTx]
  /\ slate = [n \in TxNodes |-> FALSE]
  /\ msgs = {}
  /\ coord = "open"
  /\ committedBy = {}
  /\ outcome = [n \in TxNodes |-> {}]

-------------------------------------------------------------------------------
(* The query node *)

\* register_participant, which does not look for an entry of the same node;
\* the rows written there make the storage node register the transaction.
RegisterParticipant(n) ==
  /\ coord = "open"
  /\ Known({"Active"}) /\ Len(qn.parts) < MaxParts
  /\ qn' = [qn EXCEPT !.parts = Append(@, [node |-> n, prepared |-> FALSE])]
  /\ msgs' = msgs \cup Msg("write", {n})
  /\ UNCHANGED <<qlate, coord, committedBy, snVars>>

SendPrepare ==
  /\ coord = "open"
  /\ qn # NoTx /\ qn.parts # <<>>
  /\ coord' = "preparing"
  /\ msgs' = msgs \cup Msg("prepare", Participants)
  /\ UNCHANGED <<qn, qlate, committedBy, snVars>>

\* The first entry of node n gets its flag.
MarkPrepared(parts, n) ==
  [i \in DOMAIN parts |->
    IF parts[i].node = n /\ \A j \in 1 .. i - 1 : parts[j].node # n
    THEN [node |-> n, prepared |-> TRUE] ELSE parts[i]]

\* receive_prepare_ack.  It looks at the flags, not at the state.
ReceivePrepareAck(n) ==
  /\ coord = "preparing"
  /\ Sent("ack", n)
  /\ qn # NoTx
  /\ LET parts == MarkPrepared(qn.parts, n)
         all == \A i \in DOMAIN parts : parts[i].prepared
     IN  /\ qn' = [state |-> IF all /\ qn.state = "Active" THEN "Prepared" ELSE qn.state,
                   parts |-> parts]
         /\ coord' = IF all THEN "deciding" ELSE coord
  /\ UNCHANGED <<qlate, msgs, committedBy, snVars>>

\* The clock is not looked at.
MutPrepareCommitLate ==
  /\ coord = "deciding"
  /\ \/ Known({"Active", "Prepared"}) /\ coord' = "committing"
        /\ msgs' = msgs \cup Msg("commit", Participants)
     \/ ~Known({"Active", "Prepared"}) /\ coord' = "stopped" /\ UNCHANGED msgs
  /\ UNCHANGED <<qn, qlate, committedBy, snVars>>

\* prepare_commit: on Ok the coordinator sends Commit.
PrepareCommit ==
  /\ coord = "deciding"
  /\ \/ /\ Known({"Active", "Prepared"}) /\ ~qlate
        /\ coord' = "committing"
        /\ msgs' = msgs \cup Msg("commit", Participants)
        /\ UNCHANGED qn
     \/ /\ Known({"Active", "Prepared"}) /\ qlate
        /\ qn' = [qn EXCEPT !.state = "Aborted"]
        /\ coord' = "stopped"
        /\ UNCHANGED msgs
     \/ /\ ~Known({"Active", "Prepared"})
        /\ coord' = "stopped"
        /\ UNCHANGED <<qn, msgs>>
  /\ UNCHANGED <<qlate, committedBy, snVars>>

ReceiveCommitAck(n) ==
  /\ coord = "committing"
  /\ Sent("committed", n)
  /\ committedBy' = committedBy \cup {n}
  /\ UNCHANGED <<qn, qlate, msgs, coord, snVars>>

\* mark_committed, once every participant has answered.
MarkCommitted ==
  /\ coord = "committing"
  /\ Msg("commit", TxNodes \ committedBy) \cap msgs = {}
  /\ coord' = "stopped"
  /\ qn' = IF qn = NoTx THEN NoTx ELSE [qn EXCEPT !.state = "Committed"]
  /\ UNCHANGED <<qlate, msgs, committedBy, snVars>>

\* rollback, by another handler or because a participant refused.
Rollback ==
  /\ coord \in {"open", "preparing", "deciding"}
  /\ qn # NoTx
  /\ qn' = [qn EXCEPT !.state = "RolledBack"]
  /\ msgs' = msgs \cup Msg("rollback", Participants)
  /\ UNCHANGED <<qlate, coord, committedBy, snVars>>

\* cleanup_timed_out forgets what has ended or timed out.
QnCleanup ==
  /\ qn # NoTx
  /\ ~Known({"Active", "Prepared"}) \/ qlate
  /\ qn' = NoTx
  /\ UNCHANGED <<qlate, coord, committedBy, msgs, snVars>>

-------------------------------------------------------------------------------
(* The storage nodes *)

\* register, on the first rows received.
SnRegister(n) ==
  /\ Sent("write", n)
  /\ sn[n] = NoTx
  /\ sn' = [sn EXCEPT ![n] = "Active"]
  /\ slate' = [slate EXCEPT ![n] = FALSE]
  /\ UNCHANGED <<msgs, outcome, qnVars>>

End(n, state, how) ==
  /\ sn' = [sn EXCEPT ![n] = state]
  /\ outcome' = [outcome EXCEPT ![n] = @ \cup how]

\* prepare: an error answer tells the coordinator nothing it acts on.
SnPrepare(n) ==
  /\ Sent("prepare", n)
  /\ sn[n] = "Active"
  /\ \/ /\ slate[n]
        /\ End(n, "RolledBack", {"expired"})
        /\ UNCHANGED msgs
     \/ /\ ~slate[n]
        /\ sn' = [sn EXCEPT ![n] = "Prepared"]
        /\ msgs' = msgs \cup Msg("ack", {n})
        /\ UNCHANGED outcome
  /\ UNCHANGED <<slate, qnVars>>

\* commit: Prepared or, again, Committed.
SnCommit(n) ==
  /\ Sent("commit", n)
  /\ sn[n] \in {"Prepared", "Committed"}
  /\ End(n, "Committed", {"committed"})
  /\ msgs' = msgs \cup Msg("committed", {n})
  /\ UNCHANGED <<slate, qnVars>>

\* rollback: anything but Committed.
SnRollback(n) ==
  /\ Sent("rollback", n)
  /\ sn[n] \in {"Active", "Prepared", "RolledBack"}
  /\ End(n, "RolledBack", {"rolledback"})
  /\ UNCHANGED <<slate, msgs, qnVars>>

\* cleanup_timed_out forgets what has ended, and ends what has timed out.
SnCleanup(n) ==
  /\ sn[n] # NoTx
  /\ \/ /\ sn[n] \in {"Active", "Prepared"} /\ slate[n]
        /\ End(n, NoTx, {"expired"})
     \/ /\ sn[n] \in {"Committed", "RolledBack"}
        /\ End(n, NoTx, {})
  /\ UNCHANGED <<slate, msgs, qnVars>>

-------------------------------------------------------------------------------
QnTimeout == ~qlate /\ qlate' = TRUE /\ UNCHANGED <<qn, coord, committedBy, msgs, snVars>>
SnTimeout(n) == /\ qlate /\ sn[n] # NoTx /\ ~slate[n]
                /\ slate' = [slate EXCEPT ![n] = TRUE]
                /\ UNCHANGED <<sn, outcome, msgs, qnVars>>

TxNext ==
  \/ \E n \in TxNodes :
       \/ RegisterParticipant(n) \/ ReceivePrepareAck(n) \/ ReceiveCommitAck(n)
       \/ SnRegister(n) \/ SnPrepare(n) \/ SnCommit(n) \/ SnRollback(n) \/ SnCleanup(n)
       \/ SnTimeout(n)
  \/ SendPrepare \/ PrepareCommit \/ MarkCommitted \/ Rollback \/ QnCleanup \/ QnTimeout

TxSpec == TxInit /\ [][TxNext]_txVars

-------------------------------------------------------------------------------
\* What AtomicCommit speaks of: who was written to, who holds the transaction
\* prepared or committed, and what the coordinator has told the nodes.
TxMembers == {n \in TxNodes : Sent("write", n)}
TxReady == {n \in TxNodes : sn[n] \in {"Prepared", "Committed"}}
TxDecision ==
  IF \E n \in TxNodes : Sent("commit", n) THEN "commit"
  ELSE IF \E n \in TxNodes : Sent("rollback", n) THEN "abort" ELSE "none"

AC == INSTANCE AtomicCommit WITH
  Nodes <- TxNodes, members <- TxMembers, ready <- TxReady, decision <- TxDecision,
  deadline <- qlate, result <- outcome

\* The managers and the coordinator implement AtomicCommit.  Among other
\* things, when prepare_commit says Ok every participant is still Prepared,
\* although each may give up on its own timer.
ImplementsAtomicCommit == AC!ASpec
==============================================================================
