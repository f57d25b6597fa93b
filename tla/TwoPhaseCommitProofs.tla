------------------------ MODULE TwoPhaseCommitProofs -------------------------
(***************************************************************************)
(* The two transaction managers and the coordinator implement AtomicCommit *)
(* and so keep its Atomicity, for any set of storage nodes and any number  *)
(* of register_participant calls.                                          *)
(*                                                                         *)
(* The step that needs an invariant is prepare_commit: when it says Ok     *)
(* every member must be ready.  What the query node knows is a flag set    *)
(* when an acknowledgement was received, possibly long ago and for a node  *)
(* that has since been told something else or has given up.  TxInv carries *)
(* the fact from the acknowledgement to the decision.                      *)
(***************************************************************************)
EXTENDS TwoPhaseCommit, TLAPS

QnStates == {"Active", "Prepared", "Committed", "RolledBack", "Aborted"}
SnStates == {"Active", "Prepared", "Committed", "RolledBack"}
Participant == [node : TxNodes, prepared : BOOLEAN]

TxType ==
  /\ qn # NoTx => qn \in [state : QnStates, parts : Seq(Participant)]
  /\ qlate \in BOOLEAN
  /\ sn \in [TxNodes -> SnStates \cup {NoTx}]
  /\ slate \in [TxNodes -> BOOLEAN]
  /\ outcome \in [TxNodes -> SUBSET {"committed", "rolledback", "expired"}]

\* The query node's list is who was written to, and a flag in it is backed by
\* an acknowledgement that was sent.
PartsInv ==
  /\ qn # NoTx =>
       /\ Participants = TxMembers
       /\ \A i \in DOMAIN qn.parts :
            /\ qn.parts[i].prepared => Sent("ack", qn.parts[i].node)
            /\ coord = "deciding" => qn.parts[i].prepared
  /\ \A n \in TxNodes : Sent("prepare", n) => Sent("write", n)

\* Commit is sent by the last phase only; who has been told to roll back has
\* a query node that will never say Ok, and is not told to commit.
DecisionInv ==
  /\ coord \in {"open", "preparing", "deciding"} => \A n \in TxNodes : ~Sent("commit", n)
  /\ \A n \in TxNodes : Sent("rollback", n) =>
       /\ ~Known({"Active", "Prepared"})
       /\ \A m \in TxNodes : ~Sent("commit", m)

\* A storage node keeps its promise: after its acknowledgement and before the
\* query node's timer runs out it stays Prepared until it is told otherwise.
PromiseInv ==
  \A n \in TxNodes :
    /\ slate[n] => qlate
    /\ sn[n] = "Committed" => "committed" \in outcome[n]
    /\ sn[n] = "RolledBack" => outcome[n] # {}
    /\ Sent("ack", n) /\ ~qlate /\ ~Sent("commit", n) /\ ~Sent("rollback", n)
         => sn[n] = "Prepared"

TxInv == TxType /\ PartsInv /\ DecisionInv /\ PromiseInv

-------------------------------------------------------------------------------
\* What sending changes: exactly the messages of that type to those nodes.
LEMMA SentAfter ==
  ASSUME NEW t, NEW ns, msgs' = msgs \cup Msg(t, ns)
  PROVE  \A u, n : Sent(u, n)' <=> Sent(u, n) \/ (u = t /\ n \in ns)
<1> TAKE u, n
<1>1. [type |-> u, node |-> n] \in Msg(t, ns) <=> u = t /\ n \in ns
  BY DEF Msg
<1> QED
  BY <1>1 DEF Sent

\* receive_prepare_ack marks no other node and moves no entry.
LEMMA MarkPreparedParts ==
  ASSUME NEW parts \in Seq(Participant), NEW n \in TxNodes
  PROVE  /\ MarkPrepared(parts, n) \in Seq(Participant)
         /\ DOMAIN MarkPrepared(parts, n) = DOMAIN parts
         /\ \A i \in DOMAIN parts :
              /\ MarkPrepared(parts, n)[i].node = parts[i].node
              /\ MarkPrepared(parts, n)[i].prepared => parts[i].prepared \/ parts[i].node = n
<1>1. DOMAIN parts = 1 .. Len(parts) /\ Len(parts) \in Nat
  OBVIOUS
<1>2. \A i \in DOMAIN parts : parts[i] \in Participant
  OBVIOUS
<1>3. \A i \in DOMAIN parts :
        /\ MarkPrepared(parts, n)[i] \in Participant
        /\ MarkPrepared(parts, n)[i].node = parts[i].node
        /\ MarkPrepared(parts, n)[i].prepared => parts[i].prepared \/ parts[i].node = n
  BY <1>2 DEF MarkPrepared, Participant
<1>4. MarkPrepared(parts, n) = [i \in 1 .. Len(parts) |-> MarkPrepared(parts, n)[i]]
  BY <1>1 DEF MarkPrepared
<1> QED
  BY <1>1, <1>3, <1>4

\* A new transaction satisfies the invariant.
LEMMA TxInvInit ==
  ASSUME TxInit
  PROVE  TxInv
<1>1. \A u, n : ~Sent(u, n)
  BY DEF TxInit, Sent
<1>2. qn = [state |-> "Active", parts |-> <<>>] /\ Participants = {}
  BY DEF TxInit, Participants
<1>3. TxType
  <2>1. qn \in [state : QnStates, parts : Seq(Participant)]
    BY <1>2 DEF QnStates
  <2> QED
    BY <2>1 DEF TxInit, TxType
<1>4. PartsInv
  BY <1>1, <1>2 DEF PartsInv, TxMembers
<1>5. DecisionInv
  BY <1>1 DEF DecisionInv
<1>6. PromiseInv
  BY <1>1, NoTxAssumption DEF TxInit, PromiseInv
<1> QED
  BY <1>3, <1>4, <1>5, <1>6 DEF TxInv

\* register_participant adds an entry for a node that now has rows.
LEMMA RegisterKeeps ==
  ASSUME TxInv, NEW n \in TxNodes, RegisterParticipant(n)
  PROVE  TxInv'
<1>1. \A u, m : Sent(u, m)' <=> Sent(u, m) \/ (u = "write" /\ m \in {n})
  BY SentAfter DEF RegisterParticipant
<1> DEFINE p == [node |-> n, prepared |-> FALSE]
<1>2. /\ qn # NoTx /\ qn \in [state : QnStates, parts : Seq(Participant)]
      /\ qn' = [qn EXCEPT !.parts = Append(@, p)]
      /\ qn.state = "Active" /\ coord = "open" /\ coord' = coord
      /\ UNCHANGED <<qlate, sn, slate, outcome>>
  BY DEF RegisterParticipant, Known, TxInv, TxType, snVars
<1>3. /\ qn' \in [state : QnStates, parts : Seq(Participant)]
      /\ qn'.state = qn.state
      /\ DOMAIN qn'.parts = DOMAIN qn.parts \cup {Len(qn.parts) + 1}
      /\ qn'.parts[Len(qn.parts) + 1] = p
      /\ \A i \in DOMAIN qn.parts : qn'.parts[i] = qn.parts[i]
  <2>1. qn'.parts = Append(qn.parts, p) /\ qn'.state = qn.state
    BY <1>2
  <2>2. qn.parts \in Seq(Participant) /\ p \in Participant
    BY <1>2 DEF Participant
  <2>3. /\ Append(qn.parts, p) \in Seq(Participant)
        /\ DOMAIN Append(qn.parts, p) = DOMAIN qn.parts \cup {Len(qn.parts) + 1}
        /\ Append(qn.parts, p)[Len(qn.parts) + 1] = p
        /\ \A i \in DOMAIN qn.parts : Append(qn.parts, p)[i] = qn.parts[i]
    BY <2>2
  <2> QED
    BY <1>2, <2>1, <2>3
<1>4. TxType'
  BY <1>2, <1>3 DEF TxInv, TxType
<1>5. Participants' = Participants \cup {n}
  BY <1>3 DEF Participants
<1>6. PartsInv'
  BY <1>1, <1>2, <1>3, <1>5 DEF TxInv, PartsInv, TxMembers
<1>7. DecisionInv'
  BY <1>1, <1>2, <1>3 DEF TxInv, DecisionInv, Known
<1>8. PromiseInv'
  BY <1>1, <1>2 DEF TxInv, PromiseInv
<1> QED
  BY <1>4, <1>6, <1>7, <1>8 DEF TxInv

\* Prepare goes to the registered participants, who have rows.
LEMMA SendPrepareKeeps ==
  ASSUME TxInv, SendPrepare
  PROVE  TxInv'
<1>1. \A u, m : Sent(u, m)' <=> Sent(u, m) \/ (u = "prepare" /\ m \in Participants)
  BY SentAfter DEF SendPrepare
<1>2. TxType'
  BY DEF SendPrepare, snVars, TxInv, TxType
<1>3. PartsInv'
  BY <1>1 DEF SendPrepare, TxInv, PartsInv, Participants, TxMembers
<1>4. DecisionInv'
  BY <1>1 DEF SendPrepare, TxInv, DecisionInv, Known
<1>5. PromiseInv'
  BY <1>1 DEF SendPrepare, snVars, TxInv, PromiseInv
<1> QED
  BY <1>2, <1>3, <1>4, <1>5 DEF TxInv

\* receive_prepare_ack sets a flag for an acknowledgement that was sent, and
\* leaves a transaction that has ended as it was.
LEMMA ReceivePrepareAckKeeps ==
  ASSUME TxInv, NEW n \in TxNodes, ReceivePrepareAck(n)
  PROVE  TxInv'
<1> DEFINE parts == MarkPrepared(qn.parts, n)
           all == \A i \in DOMAIN parts : parts[i].prepared
<1>1. /\ qn # NoTx /\ qn \in [state : QnStates, parts : Seq(Participant)]
      /\ Sent("ack", n) /\ coord = "preparing"
      /\ UNCHANGED <<qlate, sn, slate, outcome, msgs>>
  BY DEF ReceivePrepareAck, TxInv, TxType, snVars
<1>2. /\ qn' = [state |-> IF all /\ qn.state = "Active" THEN "Prepared" ELSE qn.state, parts |-> parts]
      /\ coord' = IF all THEN "deciding" ELSE coord
  BY DEF ReceivePrepareAck
<1>3. /\ parts \in Seq(Participant)
      /\ DOMAIN parts = DOMAIN qn.parts
      /\ \A i \in DOMAIN qn.parts :
           /\ parts[i].node = qn.parts[i].node
           /\ parts[i].prepared => qn.parts[i].prepared \/ qn.parts[i].node = n
  BY <1>1, MarkPreparedParts
<1> HIDE DEF parts
<1>4. qn'.parts = parts /\ qn'.state = (IF all /\ qn.state = "Active" THEN "Prepared" ELSE qn.state)
  BY <1>2
<1>5. \A u, m : Sent(u, m)' <=> Sent(u, m)
  BY <1>1 DEF Sent
<1>6. TxType'
  BY <1>1, <1>2, <1>3 DEF TxInv, TxType, QnStates
<1>7. PartsInv'
  <2>1. Participants' = Participants
    <3>1. DOMAIN qn'.parts = DOMAIN qn.parts /\ \A i \in DOMAIN qn.parts : qn'.parts[i].node = qn.parts[i].node
      BY <1>3, <1>4
    <3> QED
      BY <3>1 DEF Participants
  <2>2. \A i \in DOMAIN qn'.parts :
          qn'.parts[i].prepared => [type |-> "ack", node |-> qn'.parts[i].node] \in msgs'
    BY <1>1, <1>3, <1>4 DEF TxInv, PartsInv, Sent
  <2>3. coord' = "deciding" => \A i \in DOMAIN qn'.parts : qn'.parts[i].prepared
    <3>1. coord' = "deciding" => all
      BY <1>1, <1>2
    <3> QED
      BY <1>4, <3>1
  <2> QED
    BY <1>1, <2>1, <2>2, <2>3 DEF TxInv, PartsInv, Sent, TxMembers
<1>8. DecisionInv'
  <2>1. Known({"Active", "Prepared"})' => Known({"Active", "Prepared"})
    BY <1>1, <1>4 DEF Known
  <2> QED
    BY <1>1, <1>2, <1>5, <2>1 DEF TxInv, DecisionInv
<1>9. PromiseInv'
  BY <1>1, <1>5 DEF TxInv, PromiseInv
<1> QED
  BY <1>6, <1>7, <1>8, <1>9 DEF TxInv

\* prepare_commit sends Commit only for a transaction nobody rolled back.
LEMMA PrepareCommitKeeps ==
  ASSUME TxInv, PrepareCommit
  PROVE  TxInv'
<1>1. coord = "deciding" /\ UNCHANGED <<qlate, sn, slate, outcome>>
  BY DEF PrepareCommit, snVars
<1>2. CASE /\ Known({"Active", "Prepared"}) /\ coord' = "committing"
           /\ msgs' = msgs \cup Msg("commit", Participants) /\ UNCHANGED qn
  <2>1. \A u, m : Sent(u, m)' <=> Sent(u, m) \/ (u = "commit" /\ m \in Participants)
    BY <1>2, SentAfter
  <2>2. TxType'
    BY <1>1, <1>2 DEF TxInv, TxType
  <2>3. PartsInv'
    BY <1>2, <2>1 DEF TxInv, PartsInv, Participants, TxMembers
  <2>4. DecisionInv'
    BY <1>2, <2>1 DEF TxInv, DecisionInv, Known
  <2>5. PromiseInv'
    BY <1>1, <2>1 DEF TxInv, PromiseInv
  <2> QED
    BY <2>2, <2>3, <2>4, <2>5 DEF TxInv
<1>3. CASE /\ coord' = "stopped" /\ UNCHANGED msgs
           /\ \/ Known({"Active", "Prepared"}) /\ qn' = [qn EXCEPT !.state = "Aborted"]
              \/ UNCHANGED qn
  <2>1. \A u, m : Sent(u, m)' <=> Sent(u, m)
    BY <1>3 DEF Sent
  <2>2. \/ UNCHANGED qn
        \/ /\ qn # NoTx /\ qn \in [state : QnStates, parts : Seq(Participant)]
           /\ qn' \in [state : QnStates, parts : Seq(Participant)]
           /\ qn'.state = "Aborted" /\ qn'.parts = qn.parts
    BY <1>3 DEF Known, TxInv, TxType, QnStates
  <2>3. TxType'
    BY <1>1, <2>2 DEF TxInv, TxType
  <2>4. PartsInv'
    BY <1>3, <2>1, <2>2 DEF TxInv, PartsInv, Participants, TxMembers
  <2>5. DecisionInv'
    BY <1>3, <2>1, <2>2 DEF TxInv, DecisionInv, Known
  <2>6. PromiseInv'
    BY <1>1, <2>1 DEF TxInv, PromiseInv
  <2> QED
    BY <2>3, <2>4, <2>5, <2>6 DEF TxInv
<1> QED
  BY <1>2, <1>3 DEF PrepareCommit

\* mark_committed ends what was decided.
LEMMA MarkCommittedKeeps ==
  ASSUME TxInv, MarkCommitted
  PROVE  TxInv'
<1>1. /\ coord = "committing" /\ coord' = "stopped"
      /\ UNCHANGED <<qlate, sn, slate, outcome, msgs>>
  BY DEF MarkCommitted, snVars
<1>2. \A u, m : Sent(u, m)' <=> Sent(u, m)
  BY <1>1 DEF Sent
<1>3. \/ qn = NoTx /\ qn' = NoTx
      \/ /\ qn # NoTx /\ qn' \in [state : QnStates, parts : Seq(Participant)]
         /\ qn'.state = "Committed" /\ qn'.parts = qn.parts
  BY DEF MarkCommitted, TxInv, TxType, QnStates
<1>4. TxType'
  BY <1>1, <1>3 DEF TxInv, TxType
<1>5. PartsInv'
  BY <1>1, <1>3 DEF TxInv, PartsInv, Participants, Sent, TxMembers
<1>6. DecisionInv'
  BY <1>1, <1>2, <1>3 DEF TxInv, DecisionInv, Known
<1>7. PromiseInv'
  BY <1>1, <1>2 DEF TxInv, PromiseInv
<1> QED
  BY <1>4, <1>5, <1>6, <1>7 DEF TxInv

\* rollback comes before Commit is sent, and prepare_commit refuses after it.
LEMMA RollbackKeeps ==
  ASSUME TxInv, Rollback
  PROVE  TxInv'
<1>1. /\ coord \in {"open", "preparing", "deciding"} /\ coord' = coord
      /\ UNCHANGED <<qlate, sn, slate, outcome>>
  BY DEF Rollback, snVars
<1>2. \A u, m : Sent(u, m)' <=> Sent(u, m) \/ (u = "rollback" /\ m \in Participants)
  BY SentAfter DEF Rollback
<1>3. /\ qn # NoTx /\ qn' \in [state : QnStates, parts : Seq(Participant)]
      /\ qn'.state = "RolledBack" /\ qn'.parts = qn.parts
  BY DEF Rollback, TxInv, TxType, QnStates
<1>4. TxType'
  BY <1>1, <1>3 DEF TxInv, TxType
<1>5. PartsInv'
  <2>1. \A m : Sent("ack", m) => [type |-> "ack", node |-> m] \in msgs'
    BY DEF Rollback, Sent
  <2>2. \A m : (Sent("write", m)' <=> Sent("write", m)) /\ (Sent("prepare", m)' <=> Sent("prepare", m))
    BY <1>2
  <2>3. Participants' = Participants
    BY <1>3 DEF Participants
  <2>4. \A i \in DOMAIN qn'.parts :
          /\ qn'.parts[i].prepared => [type |-> "ack", node |-> qn'.parts[i].node] \in msgs'
          /\ coord' = "deciding" => qn'.parts[i].prepared
    BY <1>1, <1>3, <2>1 DEF TxInv, PartsInv
  <2> QED
    BY <1>3, <2>2, <2>3, <2>4 DEF TxInv, PartsInv, Sent, TxMembers
<1>6. DecisionInv'
  BY <1>1, <1>2, <1>3 DEF TxInv, DecisionInv, Known
<1>7. PromiseInv'
  BY <1>1, <1>2 DEF TxInv, PromiseInv
<1> QED
  BY <1>4, <1>5, <1>6, <1>7 DEF TxInv

\* cleanup_timed_out of the query node forgets the transaction.
LEMMA QnCleanupKeeps ==
  ASSUME TxInv, QnCleanup
  PROVE  TxInv'
<1>1. /\ qn' = NoTx /\ UNCHANGED <<qlate, coord, msgs, sn, slate, outcome>>
  BY DEF QnCleanup, snVars
<1>2. TxType' /\ PromiseInv'
  BY <1>1 DEF TxInv, TxType, PromiseInv, Sent
<1>3. PartsInv' /\ DecisionInv'
  BY <1>1 DEF TxInv, PartsInv, DecisionInv, Known, Sent
<1> QED
  BY <1>2, <1>3 DEF TxInv

\* The query node's part of the invariant does not depend on the storage
\* nodes, but for the answers they send.
LEMMA StorageNodeStep ==
  ASSUME TxInv, UNCHANGED <<qn, coord>>,
         \A u, m : u \notin {"ack", "committed"} => (Sent(u, m)' <=> Sent(u, m)),
         msgs \subseteq msgs'
  PROVE  PartsInv' /\ DecisionInv'
<1>1. Participants' = Participants
  BY DEF Participants
<1>2. \A m : Sent("ack", m) => [type |-> "ack", node |-> m] \in msgs'
  BY DEF Sent
<1>3. \A i \in DOMAIN qn.parts : qn # NoTx =>
        /\ qn.parts[i].prepared => [type |-> "ack", node |-> qn.parts[i].node] \in msgs'
        /\ coord = "deciding" => qn.parts[i].prepared
  BY <1>2 DEF TxInv, PartsInv
<1>4. \A m : /\ Sent("write", m)' <=> Sent("write", m)
             /\ Sent("prepare", m)' <=> Sent("prepare", m)
             /\ Sent("commit", m)' <=> Sent("commit", m)
             /\ Sent("rollback", m)' <=> Sent("rollback", m)
  OBVIOUS
<1>5. PartsInv'
  BY <1>1, <1>3, <1>4 DEF TxInv, PartsInv, Sent, TxMembers
<1>6. DecisionInv'
  BY <1>4 DEF TxInv, DecisionInv, Known
<1> QED
  BY <1>5, <1>6

\* Late rows register anew only where no promise is outstanding: a node that
\* has promised still knows the transaction.
LEMMA SnRegisterKeeps ==
  ASSUME TxInv, NEW n \in TxNodes, SnRegister(n)
  PROVE  TxInv'
<1>1. /\ UNCHANGED <<qn, qlate, coord, msgs, outcome>> /\ sn[n] = NoTx
      /\ sn' = [sn EXCEPT ![n] = "Active"] /\ slate' = [slate EXCEPT ![n] = FALSE]
  BY DEF SnRegister, qnVars
<1>2. \A u, m : Sent(u, m)' <=> Sent(u, m)
  BY <1>1 DEF Sent
<1>3. TxType'
  BY <1>1 DEF TxInv, TxType, SnStates
<1>4. PartsInv' /\ DecisionInv'
  BY <1>1, <1>2, StorageNodeStep
<1>5. PromiseInv'
  BY <1>1, <1>2, NoTxAssumption DEF TxInv, TxType, PromiseInv
<1> QED
  BY <1>3, <1>4, <1>5 DEF TxInv

\* prepare makes the promise, or gives up after the timer.
LEMMA SnPrepareKeeps ==
  ASSUME TxInv, NEW n \in TxNodes, SnPrepare(n)
  PROVE  TxInv'
<1>1. UNCHANGED <<qn, qlate, coord, slate>> /\ sn[n] = "Active"
  BY DEF SnPrepare, qnVars
<1>2. CASE slate[n] /\ End(n, "RolledBack", {"expired"}) /\ UNCHANGED msgs
  <2>1. \A u, m : Sent(u, m)' <=> Sent(u, m)
    BY <1>2 DEF Sent
  <2>2. TxType'
    BY <1>1, <1>2 DEF End, TxInv, TxType, SnStates
  <2>3. PartsInv' /\ DecisionInv'
    BY <1>1, <1>2, <2>1, StorageNodeStep
  <2>4. PromiseInv'
    BY <1>1, <1>2, <2>1 DEF End, TxInv, TxType, PromiseInv
  <2> QED
    BY <2>2, <2>3, <2>4 DEF TxInv
<1>3. CASE /\ sn' = [sn EXCEPT ![n] = "Prepared"]
           /\ msgs' = msgs \cup Msg("ack", {n}) /\ UNCHANGED outcome
  <2>1. \A u, m : Sent(u, m)' <=> Sent(u, m) \/ (u = "ack" /\ m \in {n})
    BY <1>3, SentAfter
  <2>2. TxType'
    BY <1>1, <1>3 DEF TxInv, TxType, SnStates
  <2>3. PartsInv' /\ DecisionInv'
    BY <1>1, <1>3, <2>1, StorageNodeStep
  <2>4. PromiseInv'
    BY <1>1, <1>3, <2>1 DEF TxInv, TxType, PromiseInv
  <2> QED
    BY <2>2, <2>3, <2>4 DEF TxInv
<1> QED
  BY <1>2, <1>3 DEF SnPrepare

\* commit ends the promise of a node that was told to commit.
LEMMA SnCommitKeeps ==
  ASSUME TxInv, NEW n \in TxNodes, SnCommit(n)
  PROVE  TxInv'
<1>1. /\ UNCHANGED <<qn, qlate, coord, slate>> /\ Sent("commit", n)
      /\ End(n, "Committed", {"committed"})
  BY DEF SnCommit, qnVars
<1>2. \A u, m : Sent(u, m)' <=> Sent(u, m) \/ (u = "committed" /\ m \in {n})
  BY SentAfter DEF SnCommit
<1>3. TxType'
  BY <1>1 DEF End, TxInv, TxType, SnStates
<1>4. PartsInv' /\ DecisionInv'
  BY <1>1, <1>2, StorageNodeStep DEF SnCommit
<1>5. PromiseInv'
  BY <1>1, <1>2 DEF End, TxInv, TxType, PromiseInv
<1> QED
  BY <1>3, <1>4, <1>5 DEF TxInv

\* rollback ends the promise of a node that was told to roll back.
LEMMA SnRollbackKeeps ==
  ASSUME TxInv, NEW n \in TxNodes, SnRollback(n)
  PROVE  TxInv'
<1>1. /\ UNCHANGED <<qn, qlate, coord, slate, msgs>> /\ Sent("rollback", n)
      /\ End(n, "RolledBack", {"rolledback"})
  BY DEF SnRollback, qnVars
<1>2. \A u, m : Sent(u, m)' <=> Sent(u, m)
  BY <1>1 DEF Sent
<1>3. TxType'
  BY <1>1 DEF End, TxInv, TxType, SnStates
<1>4. PartsInv' /\ DecisionInv'
  BY <1>1, <1>2, StorageNodeStep
<1>5. PromiseInv'
  BY <1>1, <1>2 DEF End, TxInv, TxType, PromiseInv
<1> QED
  BY <1>3, <1>4, <1>5 DEF TxInv

\* cleanup_timed_out forgets what has ended, and gives up a promise only after
\* the query node's timer has run out too.
LEMMA SnCleanupKeeps ==
  ASSUME TxInv, NEW n \in TxNodes, SnCleanup(n)
  PROVE  TxInv'
<1>1. /\ UNCHANGED <<qn, qlate, coord, slate, msgs>>
      /\ \/ slate[n] /\ End(n, NoTx, {"expired"})
         \/ sn[n] \in {"Committed", "RolledBack"} /\ End(n, NoTx, {})
  BY DEF SnCleanup, qnVars
<1>2. \A u, m : Sent(u, m)' <=> Sent(u, m)
  BY <1>1 DEF Sent
<1>3. TxType'
  BY <1>1 DEF End, TxInv, TxType
<1>4. PartsInv' /\ DecisionInv'
  BY <1>1, <1>2, StorageNodeStep
<1>5. PromiseInv'
  BY <1>1, <1>2, NoTxAssumption DEF End, TxInv, TxType, PromiseInv
<1> QED
  BY <1>3, <1>4, <1>5 DEF TxInv

\* A storage node's timer runs out after the query node's.
LEMMA TimeoutKeeps ==
  ASSUME TxInv, QnTimeout \/ \E n \in TxNodes : SnTimeout(n)
  PROVE  TxInv'
<1>1. UNCHANGED <<qn, coord, msgs, sn, outcome>>
  BY DEF QnTimeout, SnTimeout, snVars, qnVars
<1>2. \A u, m : Sent(u, m)' <=> Sent(u, m)
  BY <1>1 DEF Sent
<1>3. TxType'
  BY <1>1 DEF QnTimeout, SnTimeout, snVars, qnVars, TxInv, TxType
<1>4. PartsInv' /\ DecisionInv'
  BY <1>1, <1>2, StorageNodeStep
<1>5. PromiseInv'
  BY <1>1, <1>2 DEF QnTimeout, SnTimeout, snVars, qnVars, TxInv, TxType, PromiseInv
<1> QED
  BY <1>3, <1>4, <1>5 DEF TxInv

\* Every reachable state of the managers and the coordinator satisfies TxInv:
\* messages may be lost, repeated and reordered, timers run out at any moment.
THEOREM TxInvariant == TxSpec => []TxInv
<1>1. TxInit => TxInv
  BY TxInvInit
<1>2. TxInv /\ [TxNext]_txVars => TxInv'
  <2> SUFFICES ASSUME TxInv, [TxNext]_txVars PROVE TxInv'
    OBVIOUS
  <2>1. ASSUME NEW n \in TxNodes, RegisterParticipant(n) PROVE TxInv'
    BY <2>1, RegisterKeeps
  <2>2. ASSUME NEW n \in TxNodes, ReceivePrepareAck(n) PROVE TxInv'
    BY <2>2, ReceivePrepareAckKeeps
  <2>3. CASE UNCHANGED <<qn, qlate, sn, slate, msgs, coord, outcome>>
    BY <2>3 DEF TxInv, TxType, PartsInv, DecisionInv, PromiseInv, Participants, Known, Sent, TxMembers
  <2>4. ASSUME NEW n \in TxNodes, ReceiveCommitAck(n) PROVE TxInv'
    BY <2>3, <2>4 DEF ReceiveCommitAck, snVars
  <2>5. ASSUME NEW n \in TxNodes, SnRegister(n) PROVE TxInv'
    BY <2>5, SnRegisterKeeps
  <2>6. ASSUME NEW n \in TxNodes, SnPrepare(n) PROVE TxInv'
    BY <2>6, SnPrepareKeeps
  <2>7. ASSUME NEW n \in TxNodes, SnCommit(n) PROVE TxInv'
    BY <2>7, SnCommitKeeps
  <2>8. ASSUME NEW n \in TxNodes, SnRollback(n) PROVE TxInv'
    BY <2>8, SnRollbackKeeps
  <2>9. ASSUME NEW n \in TxNodes, SnCleanup(n) PROVE TxInv'
    BY <2>9, SnCleanupKeeps
  <2>10. CASE QnTimeout \/ \E n \in TxNodes : SnTimeout(n)
    BY <2>10, TimeoutKeeps
  <2>11. CASE SendPrepare
    BY <2>11, SendPrepareKeeps
  <2>12. CASE PrepareCommit
    BY <2>12, PrepareCommitKeeps
  <2>13. CASE MarkCommitted
    BY <2>13, MarkCommittedKeeps
  <2>14. CASE Rollback
    BY <2>14, RollbackKeeps
  <2>15. CASE QnCleanup
    BY <2>15, QnCleanupKeeps
  <2>16. CASE UNCHANGED txVars
    BY <2>3, <2>16 DEF txVars
  <2> QED
    BY <2>1, <2>2, <2>4, <2>5, <2>6, <2>7, <2>8, <2>9, <2>10, <2>11, <2>12, <2>13, <2>14,
       <2>15, <2>16 DEF TxNext
<1> QED
  BY <1>1, <1>2, PTL DEF TxSpec

-------------------------------------------------------------------------------
\* Initially nobody takes part and nothing is decided.
LEMMA RefinesInit ==
  ASSUME TxInit
  PROVE  AC!AInit
<1>1. \A u, n : ~Sent(u, n)
  BY DEF TxInit, Sent
<1>2. TxMembers = {} /\ TxReady = {} /\ TxDecision = "none"
  BY <1>1, NoTxAssumption DEF TxInit, TxMembers, TxReady, TxDecision
<1> QED
  BY <1>2 DEF TxInit, AC!AInit

\* register_participant is Join: while the coordinator still registers
\* participants it has neither sent Commit nor Rollback.
LEMMA RegisterIsJoin ==
  ASSUME TxInv, NEW n \in TxNodes, RegisterParticipant(n)
  PROVE  AC!Join(n)
<1>1. \A u, m : Sent(u, m)' <=> Sent(u, m) \/ (u = "write" /\ m \in {n})
  BY SentAfter DEF RegisterParticipant
<1>2. TxDecision = "none" /\ TxDecision' = TxDecision
  BY <1>1 DEF TxInv, DecisionInv, RegisterParticipant, Known, TxDecision
<1>3. TxMembers' = TxMembers \cup {n}
  BY <1>1 DEF TxMembers
<1>4. UNCHANGED <<TxReady, qlate, outcome>>
  BY DEF RegisterParticipant, snVars, TxReady
<1> QED
  BY <1>2, <1>3, <1>4 DEF AC!Join

\* prepare_commit is DecideCommit: every participant is Prepared at that
\* moment.  When no node takes part, or on an error, nothing is decided.
LEMMA PrepareCommitIsDecideCommit ==
  ASSUME TxInv, PrepareCommit
  PROVE  AC!DecideCommit \/ UNCHANGED AC!avars
<1>1. UNCHANGED <<TxReady, qlate, outcome>>
  BY DEF PrepareCommit, snVars, TxReady
<1>2. CASE UNCHANGED msgs
  BY <1>1, <1>2 DEF AC!avars, TxMembers, TxDecision, Sent
<1>3. CASE /\ Known({"Active", "Prepared"}) /\ ~qlate
           /\ msgs' = msgs \cup Msg("commit", Participants)
  <2>1. \A u, m : Sent(u, m)' <=> Sent(u, m) \/ (u = "commit" /\ m \in Participants)
    BY <1>3, SentAfter
  <2>2. TxMembers' = TxMembers
    BY <2>1 DEF TxMembers
  <2>3. Participants = TxMembers /\ qn # NoTx /\ coord = "deciding"
    BY <1>3 DEF Known, TxInv, PartsInv, PrepareCommit
  <2>4. \A n \in TxNodes : ~Sent("commit", n) /\ ~Sent("rollback", n)
    BY <1>3, <2>3 DEF TxInv, DecisionInv
  <2>5. \A n \in TxMembers : sn[n] = "Prepared"
    <3> TAKE n \in TxMembers
    <3>1. PICK i \in DOMAIN qn.parts : qn.parts[i].node = n
      BY <2>3 DEF Participants
    <3>2. Sent("ack", n)
      BY <2>3, <3>1 DEF TxInv, PartsInv
    <3> QED
      BY <1>3, <2>4, <3>2 DEF TxInv, PromiseInv, TxMembers
  <2>6. TxMembers \subseteq TxReady
    BY <2>5 DEF TxReady, TxMembers
  <2>7. TxDecision = "none"
    BY <2>4 DEF TxDecision
  <2>8. CASE TxMembers = {}
    <3>1. \A n \in TxNodes : ~Sent("commit", n)' /\ ~Sent("rollback", n)'
      BY <2>1, <2>3, <2>4, <2>8
    <3>2. TxDecision' = "none"
      BY <3>1 DEF TxDecision
    <3> QED
      BY <1>1, <2>2, <2>7, <3>2 DEF AC!avars
  <2>9. CASE TxMembers # {}
    <3>1. \E n \in TxNodes : Sent("commit", n)'
      BY <2>1, <2>3, <2>9 DEF TxMembers
    <3>2. TxDecision' = "commit"
      BY <3>1 DEF TxDecision
    <3> QED
      BY <1>1, <1>3, <2>2, <2>6, <2>7, <3>2 DEF AC!DecideCommit
  <2> QED
    BY <2>8, <2>9
<1> QED
  BY <1>2, <1>3 DEF PrepareCommit

\* rollback is DecideAbort; a second one, or one that reaches nobody, decides
\* nothing.
LEMMA RollbackIsDecideAbort ==
  ASSUME TxInv, Rollback
  PROVE  AC!DecideAbort \/ UNCHANGED AC!avars
<1>1. UNCHANGED <<TxReady, qlate, outcome>>
  BY DEF Rollback, snVars, TxReady
<1>2. \A u, m : Sent(u, m)' <=> Sent(u, m) \/ (u = "rollback" /\ m \in Participants)
  BY SentAfter DEF Rollback
<1>3. TxMembers' = TxMembers
  BY <1>2 DEF TxMembers
<1>4. \A n \in TxNodes : ~Sent("commit", n) /\ ~Sent("commit", n)'
  BY <1>2 DEF TxInv, DecisionInv, Rollback
<1>5. TxDecision \in {"none", "abort"} /\ TxDecision' \in {"none", "abort"}
  BY <1>4 DEF TxDecision
<1>6. TxDecision = "abort" => TxDecision' = "abort"
  BY <1>2, <1>4 DEF TxDecision
<1> QED
  BY <1>1, <1>3, <1>5, <1>6 DEF AC!DecideAbort, AC!avars

\* A step that sends none of the coordinator's messages.
LEMMA NothingTold ==
  ASSUME NEW t \in {"prepare", "ack", "committed"}, NEW ns,
         msgs' = msgs \/ msgs' = msgs \cup Msg(t, ns)
  PROVE  UNCHANGED <<TxMembers, TxDecision>>
<1>1. \A m : /\ Sent("write", m)' <=> Sent("write", m)
             /\ Sent("commit", m)' <=> Sent("commit", m)
             /\ Sent("rollback", m)' <=> Sent("rollback", m)
  <2>1. CASE msgs' = msgs
    BY <2>1 DEF Sent
  <2>2. CASE msgs' = msgs \cup Msg(t, ns)
    BY <2>2, SentAfter
  <2> QED
    BY <2>1, <2>2
<1> QED
  BY <1>1 DEF TxMembers, TxDecision

\* prepare on a storage node is Ready, or Expire when its timer has run out.
LEMMA SnPrepareRefines ==
  ASSUME TxInv, NEW n \in TxNodes, SnPrepare(n)
  PROVE  AC!Ready(n) \/ AC!Expire(n)
<1>1. UNCHANGED <<TxMembers, TxDecision, qlate>>
  BY NothingTold DEF SnPrepare, qnVars
<1>2. CASE slate[n] /\ End(n, "RolledBack", {"expired"})
  <2>1. qlate
    BY <1>2 DEF TxInv, PromiseInv
  <2>2. TxReady' = TxReady \ {n}
    BY <1>2 DEF End, TxInv, TxType, TxReady
  <2> QED
    BY <1>1, <1>2, <2>1, <2>2 DEF End, AC!Expire, AC!End
<1>3. CASE sn' = [sn EXCEPT ![n] = "Prepared"] /\ UNCHANGED outcome
  <2>1. n \in TxMembers
    BY DEF SnPrepare, TxInv, PartsInv, TxMembers
  <2>2. TxReady' = TxReady \cup {n}
    BY <1>3 DEF TxInv, TxType, TxReady
  <2> QED
    BY <1>1, <1>3, <2>1, <2>2 DEF AC!Ready
<1> QED
  BY <1>2, <1>3 DEF SnPrepare

\* commit on a storage node is Commit.
LEMMA SnCommitIsCommit ==
  ASSUME TxInv, NEW n \in TxNodes, SnCommit(n)
  PROVE  AC!Commit(n)
<1>1. UNCHANGED <<TxMembers, TxDecision, qlate>>
  BY NothingTold DEF SnCommit, qnVars
<1>2. TxDecision = "commit"
  BY DEF SnCommit, TxDecision
<1>3. n \in TxReady /\ TxReady' = TxReady
  BY DEF SnCommit, End, TxInv, TxType, TxReady
<1> QED
  BY <1>1, <1>2, <1>3 DEF SnCommit, End, AC!Commit, AC!End

\* rollback on a storage node is RollBack.
LEMMA SnRollbackIsRollBack ==
  ASSUME TxInv, NEW n \in TxNodes, SnRollback(n)
  PROVE  AC!RollBack(n)
<1>1. UNCHANGED <<TxMembers, TxDecision, qlate>>
  BY NothingTold DEF SnRollback, qnVars
<1>2. TxDecision = "abort"
  BY DEF SnRollback, TxDecision, TxInv, DecisionInv
<1>3. TxReady' = TxReady \ {n}
  BY DEF SnRollback, End, TxInv, TxType, TxReady
<1> QED
  BY <1>1, <1>2, <1>3 DEF SnRollback, End, AC!RollBack, AC!End

\* cleanup_timed_out on a storage node is Expire for a transaction that is
\* still open, and Forget for one that has ended.
LEMMA SnCleanupRefines ==
  ASSUME TxInv, NEW n \in TxNodes, SnCleanup(n)
  PROVE  AC!Expire(n) \/ AC!Forget(n)
<1>1. UNCHANGED <<TxMembers, TxDecision, qlate>>
  BY NothingTold DEF SnCleanup, qnVars
<1>2. TxReady' = TxReady \ {n}
  BY NoTxAssumption DEF SnCleanup, End, TxInv, TxType, TxReady
<1>3. CASE slate[n] /\ End(n, NoTx, {"expired"})
  BY <1>1, <1>2, <1>3 DEF TxInv, PromiseInv, End, AC!Expire, AC!End
<1>4. CASE sn[n] \in {"Committed", "RolledBack"} /\ End(n, NoTx, {})
  <2>1. outcome[n] # {} /\ outcome' = outcome
    BY <1>4 DEF TxInv, TxType, PromiseInv, End
  <2> QED
    BY <1>1, <1>2, <2>1 DEF AC!Forget
<1> QED
  BY <1>3, <1>4 DEF SnCleanup

\* Every step of the managers and the coordinator is a step of AtomicCommit,
\* or leaves what it speaks of as it was.
LEMMA RefinesNext ==
  ASSUME TxInv, [TxNext]_txVars
  PROVE  [AC!ANext]_(AC!avars)
<1>1. ASSUME NEW n \in TxNodes, RegisterParticipant(n) PROVE AC!ANext
  BY <1>1, RegisterIsJoin DEF AC!ANext
<1>2. ASSUME NEW n \in TxNodes, SnPrepare(n) PROVE AC!ANext
  BY <1>2, SnPrepareRefines DEF AC!ANext
<1>3. ASSUME NEW n \in TxNodes, SnCommit(n) PROVE AC!ANext
  BY <1>3, SnCommitIsCommit DEF AC!ANext
<1>4. ASSUME NEW n \in TxNodes, SnRollback(n) PROVE AC!ANext
  BY <1>4, SnRollbackIsRollBack DEF AC!ANext
<1>5. ASSUME NEW n \in TxNodes, SnCleanup(n) PROVE AC!ANext
  BY <1>5, SnCleanupRefines DEF AC!ANext
<1>6. CASE PrepareCommit
  BY <1>6, PrepareCommitIsDecideCommit DEF AC!ANext
<1>7. CASE Rollback
  BY <1>7, RollbackIsDecideAbort DEF AC!ANext
<1>8. CASE QnTimeout
  <2>1. UNCHANGED <<TxMembers, TxDecision, TxReady, outcome>> /\ qlate' = TRUE
    BY <1>8, NothingTold DEF QnTimeout, snVars, TxReady
  <2> QED
    BY <2>1 DEF AC!ANext, AC!Pass
<1>9. CASE \/ \E n \in TxNodes : ReceivePrepareAck(n) \/ ReceiveCommitAck(n) \/ SnTimeout(n)
           \/ MarkCommitted \/ QnCleanup \/ SendPrepare
  <2>1. UNCHANGED <<sn, qlate, outcome>> /\ (msgs' = msgs \/ msgs' = msgs \cup Msg("prepare", Participants))
    BY <1>9 DEF ReceivePrepareAck, ReceiveCommitAck, SnTimeout, MarkCommitted, QnCleanup, SendPrepare, snVars, qnVars
  <2>2. UNCHANGED <<TxMembers, TxDecision>>
    BY <2>1, NothingTold
  <2> QED
    BY <2>1, <2>2 DEF TxReady, AC!avars
<1>10. ASSUME NEW n \in TxNodes, SnRegister(n) PROVE UNCHANGED AC!avars
  <2>1. UNCHANGED <<TxMembers, TxDecision, qlate, outcome>>
    BY <1>10, NothingTold DEF SnRegister, qnVars
  <2>2. TxReady' = TxReady
    BY <1>10, NoTxAssumption DEF SnRegister, TxInv, TxType, TxReady
  <2> QED
    BY <2>1, <2>2 DEF AC!avars
<1>11. CASE UNCHANGED txVars
  <2>1. UNCHANGED <<TxMembers, TxDecision, TxReady, qlate, outcome>>
    BY <1>11, NothingTold DEF txVars, TxReady
  <2> QED
    BY <2>1 DEF AC!avars
<1> QED
  BY <1>1, <1>2, <1>3, <1>4, <1>5, <1>6, <1>7, <1>8, <1>9, <1>10, <1>11 DEF TxNext

\* The managers of transaction.rs, driven as their interface asks, implement
\* AtomicCommit: one decision, commit only while every participant is Prepared,
\* and every end of a transaction on a node is one the decision allows.
THEOREM Refinement == TxSpec => ImplementsAtomicCommit
<1>1. TxInit => AC!AInit
  BY RefinesInit
<1>2. TxInv /\ [TxNext]_txVars => [AC!ANext]_(AC!avars)
  BY RefinesNext
<1> QED
  BY <1>1, <1>2, TxInvariant, PTL DEF TxSpec, ImplementsAtomicCommit, AC!ASpec

\* No storage node rolls back on request what another has committed, whatever
\* the order of messages, timeouts and cleanups.
THEOREM ManagersAtomic == TxSpec => []AC!Atomicity
  BY Refinement, AC!AtomicityTheorem, PTL DEF ImplementsAtomicCommit
==============================================================================
