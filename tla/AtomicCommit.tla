----------------------------- MODULE AtomicCommit ----------------------------
(***************************************************************************)
(* What the two transaction managers promise together: a transaction gets  *)
(* at most one decision; "commit" is decided only while every member is    *)
(* ready and before the deadline; a member commits only after the decision *)
(* to commit and rolls back on request only after the decision to abort.   *)
(* After the deadline a member may give up by itself ("expired"), the one  *)
(* way in which members can end differently.                               *)
(***************************************************************************)
EXTENDS TLAPS

CONSTANT Nodes

VARIABLES
  members,     \* nodes that take part
  ready,       \* nodes that hold the transaction prepared or committed
  decision,    \* "none", "commit" or "abort"
  deadline,    \* the deadline has passed
  result       \* how the transaction has ended on a node

avars == <<members, ready, decision, deadline, result>>

AInit ==
  /\ members = {} /\ ready = {}
  /\ decision = "none"
  /\ deadline = FALSE
  /\ result = [n \in Nodes |-> {}]

Join(n) == /\ decision = "none"
           /\ members' = members \cup {n}
           /\ UNCHANGED <<ready, decision, deadline, result>>

\* A late copy of the rows may bring an ended transaction back on a node.
Ready(n) == /\ n \in members
            /\ ready' = ready \cup {n}
            /\ UNCHANGED <<members, decision, deadline, result>>

Pass == deadline' = TRUE /\ UNCHANGED <<members, ready, decision, result>>

DecideCommit == /\ decision = "none" /\ ~deadline
                /\ members \subseteq ready
                /\ decision' = "commit"
                /\ UNCHANGED <<members, ready, deadline, result>>

DecideAbort == /\ decision = "none"
               /\ decision' = "abort"
               /\ UNCHANGED <<members, ready, deadline, result>>

End(n, how) == /\ result' = [result EXCEPT ![n] = @ \cup {how}]
               /\ UNCHANGED <<members, decision, deadline>>

Commit(n) == decision = "commit" /\ n \in ready /\ End(n, "committed") /\ UNCHANGED ready
RollBack(n) == decision = "abort" /\ End(n, "rolledback") /\ ready' = ready \ {n}
Expire(n) == deadline /\ End(n, "expired") /\ ready' = ready \ {n}

\* An ended transaction is forgotten.
Forget(n) == /\ result[n] # {}
             /\ ready' = ready \ {n}
             /\ UNCHANGED <<members, decision, deadline, result>>

ANext == \/ \E n \in Nodes : \/ Join(n) \/ Ready(n) \/ Commit(n) \/ RollBack(n) \/ Expire(n)
                             \/ Forget(n)
         \/ Pass \/ DecideCommit \/ DecideAbort

ASpec == AInit /\ [][ANext]_avars

\* No node rolls back, on request, a transaction another node has committed.
Atomicity == \A m, n \in Nodes : ~("committed" \in result[m] /\ "rolledback" \in result[n])

-----------------------------------------------------------------------------
(* Atomicity, for any set of nodes.  A node's result alone does not say why  *)
(* it got there: the invariant ties every result to the one decision, which  *)
(* never changes once taken.  TwoPhaseCommitProofs shows that the managers   *)
(* implement ASpec, so they inherit it.                                      *)

Type ==
  /\ decision \in {"none", "commit", "abort"}
  /\ result \in [Nodes -> SUBSET {"committed", "rolledback", "expired"}]

\* Who committed was told to, and who rolled back was told to.
ByDecision ==
  \A n \in Nodes : /\ "committed" \in result[n] => decision = "commit"
                   /\ "rolledback" \in result[n] => decision = "abort"

AInv == Type /\ ByDecision

\* A node ends the transaction in the way the decision allows.
LEMMA EndKeeps ==
  ASSUME AInv, NEW n \in Nodes, NEW how \in {"committed", "rolledback", "expired"},
         End(n, how),
         how = "committed" => decision = "commit",
         how = "rolledback" => decision = "abort"
  PROVE  AInv'
<1>1. \A m \in Nodes : result'[m] = IF m = n THEN result[m] \cup {how} ELSE result[m]
  BY DEF End, AInv, Type
<1>2. decision' = decision
  BY DEF End
<1>3. Type'
  BY <1>2 DEF End, AInv, Type
<1>4. ByDecision'
  BY <1>1, <1>2 DEF AInv, ByDecision
<1> QED
  BY <1>3, <1>4 DEF AInv

\* The invariant holds initially and every step of AtomicCommit keeps it: only
\* the two decisions change `decision`, and they find it undecided.
THEOREM AtomicInvariant == ASpec => []AInv
<1>1. AInit => AInv
  BY DEF AInit, AInv, Type, ByDecision
<1>2. AInv /\ [ANext]_avars => AInv'
  <2> SUFFICES ASSUME AInv, [ANext]_avars PROVE AInv'
    OBVIOUS
  <2>1. CASE UNCHANGED <<decision, result>>
    BY <2>1 DEF AInv, Type, ByDecision
  <2>2. ASSUME NEW n \in Nodes, Commit(n) PROVE AInv'
    BY <2>2, EndKeeps DEF Commit
  <2>3. ASSUME NEW n \in Nodes, RollBack(n) PROVE AInv'
    BY <2>3, EndKeeps DEF RollBack
  <2>4. ASSUME NEW n \in Nodes, Expire(n) PROVE AInv'
    BY <2>4, EndKeeps DEF Expire
  <2>5. CASE DecideCommit \/ DecideAbort
    BY <2>5 DEF DecideCommit, DecideAbort, AInv, Type, ByDecision
  <2>6. CASE \E n \in Nodes : Join(n) \/ Ready(n) \/ Forget(n)
    BY <2>1, <2>6 DEF Join, Ready, Forget
  <2>7. CASE Pass
    BY <2>1, <2>7 DEF Pass
  <2>8. CASE UNCHANGED avars
    BY <2>1, <2>8 DEF avars
  <2> QED
    BY <2>2, <2>3, <2>4, <2>5, <2>6, <2>7, <2>8 DEF ANext
<1> QED
  BY <1>1, <1>2, PTL DEF ASpec

\* No node rolls back on request what another has committed: what the query
\* node's and the storage nodes' transaction managers promise together.
THEOREM AtomicityTheorem == ASpec => []Atomicity
<1>1. AInv => Atomicity
  BY DEF AInv, ByDecision, Atomicity
<1> QED
  BY <1>1, AtomicInvariant, PTL
==============================================================================
