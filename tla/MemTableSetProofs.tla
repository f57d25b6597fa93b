-------------------------- MODULE MemTableSetProofs --------------------------
(***************************************************************************)
(* For every number of writers, every set of rows and every threshold: an  *)
(* inserted row is in exactly one MemTable, tables are handed on in the    *)
(* order of their sequence numbers, and a frozen table is never written.   *)
(*                                                                         *)
(* The inductive invariant IInv says where each table is (Chain), what an  *)
(* insert in progress owns (CallInv) and how the versions stored so far    *)
(* relate to it (SeqInv, RowInv).                                          *)
(***************************************************************************)
EXTENDS MemTableSet, SequenceTheorems, TLAPS

Busy(w) == pc[w] # "idle"
Inside(w) == pc[w] \in {"claimed", "put"}
EntryOf(w) == [row |-> call[w].row, seq |-> call[w].seq]
InTables(e) == \E i \in 1 .. Len(tables) : e \in tables[i].entries

\* freeze_lock has at most one holder.
LockInv == \A v, w \in Freezers : v = w

\* flushed, immutable and the table between swap and push are, in this order,
\* the tables before the active one.
Pending == IF \E w \in Writers : pc[w] = "push" THEN 1 ELSE 0
Chain ==
  /\ Len(tables) = Len(flushed) + Len(immutable) + Pending + 1
  /\ \A i \in 1 .. Len(flushed) : flushed[i] = tables[i]
  /\ \A i \in 1 .. Len(immutable) : immutable[i] = tables[Len(flushed) + i]

\* A running insert has a call; inside the read lock it refers to the active
\* table.  Calls differ in row and number.
CallInv ==
  /\ \A w \in Writers : Busy(w) => /\ call[w] # NoCall
                                   /\ call[w].seq < seq_gen
                                   /\ call[w].row \notin done
                                   /\ Inside(w) => call[w].tab = Len(tables)
  /\ \A v, w \in Writers : Busy(v) /\ Busy(w) /\ v # w =>
       call[v].row # call[w].row /\ call[v].seq # call[w].seq

\* Stored numbers were drawn, identify the entry and grow from table to table;
\* a number drawn but not stored is newer than every older table.
SeqInv ==
  /\ \A i \in 1 .. Len(tables) : \A e \in tables[i].entries : e.seq < seq_gen
  /\ \A i, j \in 1 .. Len(tables) : i < j =>
       \A e \in tables[i].entries, f \in tables[j].entries : e.seq < f.seq
  /\ \A i \in 1 .. Len(tables) : \A e, f \in tables[i].entries : e.seq = f.seq => e = f
  /\ \A w \in Writers : pc[w] = "claimed" =>
       /\ \A i \in 1 .. Len(tables) : \A e \in tables[i].entries : e.seq # call[w].seq
       /\ \A i \in 1 .. Len(tables) - 1 : \A e \in tables[i].entries : e.seq < call[w].seq

\* Returned rows and rows past map.insert are stored; no row is stored twice,
\* and none before its insert has reached map.insert.
RowInv ==
  /\ \A r \in done : \E i \in 1 .. Len(tables) : \E e \in tables[i].entries : e.row = r
  /\ \A w \in Writers : Busy(w) /\ pc[w] # "claimed" => InTables(EntryOf(w))
  /\ \A i, j \in 1 .. Len(tables) : \A e \in tables[i].entries, f \in tables[j].entries :
       e.row = f.row => e = f /\ i = j
  /\ \A i \in 1 .. Len(tables) : \A e \in tables[i].entries : e.row \in Begun
  /\ \A w \in Writers : pc[w] = "claimed" =>
       \A i \in 1 .. Len(tables) : \A e \in tables[i].entries : e.row # call[w].row

IInv == TypeOK /\ LockInv /\ Chain /\ CallInv /\ SeqInv /\ RowInv
-----------------------------------------------------------------------------
\* IInv holds of the empty set.
LEMMA InitIInv == Init => IInv
<1> SUFFICES ASSUME Init PROVE IInv
  OBVIOUS
<1> USE SizesAssumption DEF Init, NewTable, PCs
<1>1. TypeOK
  BY DEF TypeOK, Table, Entry
<1>2. Pending = 0
  BY DEF Pending
<1>3. LockInv /\ Chain /\ CallInv /\ SeqInv /\ RowInv
  BY <1>2 DEF LockInv, Freezers, Chain, CallInv, Busy, SeqInv, RowInv
<1> QED
  BY <1>1, <1>3 DEF IInv

\* The call of a running insert is well formed.
LEMMA BusyType ==
  ASSUME IInv, NEW w \in Writers, Busy(w)
  PROVE  /\ call[w] \in [row : Rows, seq : Nat, tab : Nat]
         /\ EntryOf(w) \in Entry
BY DEF IInv, TypeOK, CallInv, EntryOf, Entry

\* tables is a non-empty sequence: facts about its length.
LEMMA TablesType ==
  ASSUME TypeOK
  PROVE  /\ Len(tables) \in Nat \ {0}
         /\ Len(tables) \in 1 .. Len(tables)
         /\ \A i \in 1 .. Len(tables) :
              /\ tables[i] \in Table
              /\ tables[i].entries \subseteq Entry
              /\ tables[i].size \in Nat
<1>1. tables \in Seq(Table) /\ tables # <<>>
  BY DEF TypeOK
<1>2. Len(tables) \in Nat \ {0}
  BY <1>1, EmptySeq
<1>3. \A i \in 1 .. Len(tables) : tables[i] \in Table
  BY <1>1, ElementOfSeq
<1>4. \A t \in Table : t.entries \subseteq Entry /\ t.size \in Nat
  BY DEF Table
<1> QED
  BY <1>2, <1>3, <1>4

\* Put adds one entry to the active table.
LEMMA PutTables ==
  ASSUME IInv, NEW w \in Writers, Put(w)
  PROVE  /\ tables' \in Seq(Table) /\ tables' # <<>>
         /\ Len(tables') = Len(tables)
         /\ \A i \in 1 .. Len(tables) - 1 : tables'[i] = tables[i]
         /\ tables'[Len(tables)].entries = tables[Len(tables)].entries \cup {EntryOf(w)}
<1> DEFINE n == Len(tables)
           t == [entries |-> tables[n].entries \cup {EntryOf(w)}, size |-> tables[n].size]
<1>1. call[w].tab = n /\ EntryOf(w) \in Entry
  BY BusyType DEF Put, Busy, Inside, CallInv, IInv
<1>2. n \in Nat \ {0} /\ n \in 1 .. Len(tables) /\ tables[n].entries \subseteq Entry /\ tables[n].size \in Nat
  BY TablesType DEF IInv
<1>3. t \in Table
  BY <1>1, <1>2 DEF Table
<1>4. tables' = [tables EXCEPT ![n] = t]
  BY <1>1 DEF Put, EntryOf
<1>5. tables \in Seq(Table)
  BY DEF IInv, TypeOK
<1> HIDE DEF n, t
<1>6. /\ tables' \in Seq(Table) /\ Len(tables') = Len(tables)
      /\ \A j \in 1 .. Len(tables) : tables'[j] = IF j = n THEN t ELSE tables[j]
  BY <1>2, <1>3, <1>4, <1>5, ExceptSeq
<1>7. tables' # <<>>
  BY <1>2, <1>6, EmptySeq DEF n
<1>8. tables'[n] = t
  BY <1>2, <1>6
<1>9. \A i \in 1 .. Len(tables) - 1 : tables'[i] = tables[i]
  BY <1>2, <1>6 DEF n
<1> QED
  BY <1>6, <1>7, <1>8, <1>9 DEF n, t

\* Account changes only the size of the active table.
LEMMA AccountTables ==
  ASSUME IInv, NEW w \in Writers, Account(w)
  PROVE  /\ tables' \in Seq(Table) /\ tables' # <<>>
         /\ Len(tables') = Len(tables)
         /\ \A i \in 1 .. Len(tables) - 1 : tables'[i] = tables[i]
         /\ tables'[Len(tables)].entries = tables[Len(tables)].entries
<1> DEFINE n == Len(tables)
           t == [entries |-> tables[n].entries, size |-> tables[n].size + RowSize[call[w].row]]
<1>1. call[w].tab = n /\ call[w].row \in Rows
  BY BusyType DEF Account, Busy, Inside, CallInv, IInv
<1>2. n \in Nat \ {0} /\ n \in 1 .. Len(tables) /\ tables[n].entries \subseteq Entry /\ tables[n].size \in Nat
  BY TablesType DEF IInv
<1>3. t \in Table
  <2>1. RowSize[call[w].row] \in Nat
    BY <1>1, SizesAssumption
  <2> QED
    BY <1>2, <2>1 DEF Table
<1>4. tables' = [tables EXCEPT ![n] = t]
  BY <1>1 DEF Account
<1>5. tables \in Seq(Table)
  BY DEF IInv, TypeOK
<1> HIDE DEF n, t
<1>6. /\ tables' \in Seq(Table) /\ Len(tables') = Len(tables)
      /\ \A j \in 1 .. Len(tables) : tables'[j] = IF j = n THEN t ELSE tables[j]
  BY <1>2, <1>3, <1>4, <1>5, ExceptSeq
<1>7. tables' # <<>>
  BY <1>2, <1>6, EmptySeq DEF n
<1>8. tables'[n] = t
  BY <1>2, <1>6
<1>9. \A i \in 1 .. Len(tables) - 1 : tables'[i] = tables[i]
  BY <1>2, <1>6 DEF n
<1> QED
  BY <1>6, <1>7, <1>8, <1>9 DEF n, t

\* Swap adds an empty active table.
LEMMA SwapTables ==
  ASSUME IInv, NEW w \in Writers, Swap(w)
  PROVE  /\ tables' \in Seq(Table) /\ tables' # <<>>
         /\ Len(tables') = Len(tables) + 1
         /\ \A i \in 1 .. Len(tables) : tables'[i] = tables[i]
         /\ tables'[Len(tables) + 1].entries = {}
<1>1. tables \in Seq(Table)
  BY DEF IInv, TypeOK
<1>2. NewTable \in Table /\ NewTable.entries = {}
  BY DEF NewTable, Table
<1>3. tables' = Append(tables, NewTable)
  BY DEF Swap
<1> QED
  BY <1>1, <1>2, <1>3, AppendProperties

\* A step that leaves the tables and every writer's place in try_freeze alone
\* keeps Chain.
LEMMA ChainStutter ==
  ASSUME IInv, Len(tables') = Len(tables), UNCHANGED <<flushed, immutable>>,
         \A i \in 1 .. Len(tables) - 1 : tables'[i] = tables[i],
         Pending' = Pending
  PROVE  Chain'
<1>1. Len(tables) \in Nat /\ Len(flushed) \in Nat /\ Len(immutable) \in Nat /\ Pending \in {0, 1}
  BY LenProperties DEF IInv, TypeOK, Pending
<1>2. \A i \in 1 .. Len(flushed) : i \in 1 .. Len(tables) - 1
  BY <1>1 DEF IInv, Chain
<1>3. \A i \in 1 .. Len(immutable) : Len(flushed) + i \in 1 .. Len(tables) - 1
  BY <1>1 DEF IInv, Chain
<1> QED
  BY <1>1, <1>2, <1>3 DEF IInv, Chain

\* Drawing a number: the new call owns a row nobody has and a number larger
\* than every stored one.
LEMMA ClaimStep ==
  ASSUME IInv, NEW w \in Writers, NEW r \in Rows, Claim(w, r)
  PROVE  IInv'
<1> USE DEF IInv
<1>1. TypeOK'
  BY DEF Claim, TypeOK, PCs, Goto, Active, Entry
<1>2. LockInv'
  BY DEF Claim, LockInv, Freezers, Goto, TypeOK
<1>3. Chain'
  <2>1. Pending' = Pending
    BY DEF Claim, Pending, Goto, TypeOK
  <2> QED
    BY <2>1, ChainStutter DEF Claim
<1>4. CallInv'
  BY SizesAssumption DEF Claim, CallInv, Busy, Inside, Goto, TypeOK, Active, Begun
<1>5. SeqInv'
  BY TablesType, SMTT(20) DEF Claim, SeqInv, CallInv, Busy, Goto, TypeOK, Entry
<1>6. RowInv'
  BY TablesType DEF Claim, RowInv, InTables, EntryOf, CallInv, Busy, Goto, TypeOK, Begun, Entry
<1> QED
  BY <1>1, <1>2, <1>3, <1>4, <1>5, <1>6

\* Storing the row.
LEMMA PutStep ==
  ASSUME IInv, NEW w \in Writers, Put(w)
  PROVE  IInv'
<1> USE DEF IInv
<1>1. TypeOK'
  BY PutTables, Zenon DEF Put, TypeOK, PCs, Goto
<1>2. LockInv'
  BY DEF Put, LockInv, Freezers, Goto, TypeOK
<1>3. Chain'
  <2>1. Pending' = Pending
    BY DEF Put, Pending, Goto, TypeOK
  <2> QED
    BY <2>1, ChainStutter, PutTables, Zenon DEF Put
<1>4. CallInv'
  BY PutTables DEF Put, CallInv, Busy, Inside, Goto, TypeOK
<1> DEFINE n == Len(tables)
           new == EntryOf(w)
<1>5. /\ n \in Nat \ {0} /\ n \in 1 .. n /\ Len(tables') = n
      /\ \A i \in 1 .. n : \A e \in tables'[i].entries :
           e \in tables[i].entries \/ (i = n /\ e = new)
      /\ \A i \in 1 .. n : \A e \in tables[i].entries : e \in tables'[i].entries
      /\ new \in tables'[n].entries
  <2>1. \A i \in 1 .. n : i = n \/ i \in 1 .. n - 1
    BY TablesType
  <2> QED
    BY <2>1, TablesType, PutTables
<1>6. /\ new.seq = call[w].seq /\ new.row = call[w].row /\ new \in Entry
      /\ \A i \in 1 .. n : \A e \in tables[i].entries : e \in Entry
      /\ pc[w] = "claimed" /\ pc' = [pc EXCEPT ![w] = "put"]
      /\ UNCHANGED <<call, done, seq_gen>>
  BY TablesType, BusyType, Zenon DEF Put, Busy, EntryOf, Goto
<1>7. pc'[w] = "put" /\ \A v \in Writers : v # w => pc'[v] = pc[v]
  BY <1>6 DEF TypeOK
<1>8. /\ call[w].seq < seq_gen /\ call[w].seq \in Nat /\ seq_gen \in Nat
      /\ \A v \in Writers : pc[v] = "claimed" /\ v # w =>
           call[v].seq # call[w].seq /\ call[v].row # call[w].row
  BY <1>6, BusyType DEF CallInv, TypeOK, Busy
<1> HIDE DEF n, new
<1>9. SeqInv'
  <2> USE <1>5, <1>6, <1>7, <1>8
  <2>1. \A i \in 1 .. n : \A e \in tables'[i].entries : e.seq < seq_gen
    BY DEF SeqInv, n
  <2>2. ASSUME NEW i \in 1 .. n, NEW j \in 1 .. n, i < j,
               NEW e \in tables'[i].entries, NEW f \in tables'[j].entries
        PROVE  e.seq < f.seq
    <3>1. i # n /\ e \in tables[i].entries /\ i \in 1 .. n - 1
      BY <2>2
    <3>2. CASE f \in tables[j].entries
      BY <2>2, <3>1, <3>2 DEF SeqInv, n
    <3>3. CASE f = new
      BY <2>2, <3>1, <3>3 DEF SeqInv, n
    <3> QED
      BY <3>2, <3>3
  <2>3. \A i \in 1 .. n : \A e, f \in tables'[i].entries : e.seq = f.seq => e = f
    BY DEF SeqInv, n
  <2>4. ASSUME NEW v \in Writers, pc'[v] = "claimed"
        PROVE  /\ \A i \in 1 .. n : \A e \in tables'[i].entries : e.seq # call[v].seq
               /\ \A i \in 1 .. n - 1 : \A e \in tables'[i].entries : e.seq < call[v].seq
    BY <2>4 DEF SeqInv, n
  <2> QED
    BY <2>1, <2>2, <2>3, <2>4 DEF SeqInv
<1>10. RowInv'
  <2> USE <1>5, <1>6, <1>7, <1>8
  <2>1. \A r \in done : \E i \in 1 .. n : \E e \in tables'[i].entries : e.row = r
    BY DEF RowInv, n
  <2>2. \A v \in Writers : Busy(v)' /\ pc'[v] # "claimed" =>
          \E i \in 1 .. n : EntryOf(v) \in tables'[i].entries
    BY DEF RowInv, InTables, Busy, n, new
  <2>3. \A i, j \in 1 .. n : \A e \in tables'[i].entries, f \in tables'[j].entries :
          e.row = f.row => e = f /\ i = j
    BY DEF RowInv, n
  <2>4. \A i \in 1 .. n : \A e \in tables'[i].entries : e.row \in Begun'
    <3>1. Begun' = Begun
      BY DEF Begun
    <3>2. call[w].row \in Begun
      BY DEF Begun
    <3> QED
      BY <3>1, <3>2 DEF RowInv, n
  <2>5. \A v \in Writers : pc'[v] = "claimed" =>
          \A i \in 1 .. n : \A e \in tables'[i].entries : e.row # call[v].row
    BY DEF RowInv, n
  <2>6. \A v \in Writers : EntryOf(v)' = EntryOf(v)
    BY DEF EntryOf
  <2> QED
    BY <2>1, <2>2, <2>3, <2>4, <2>5, <2>6 DEF RowInv, InTables
<1> QED
  BY <1>1, <1>2, <1>3, <1>4, <1>9, <1>10

\* A step that stores nothing and draws no number.
SameEntries ==
  /\ Len(tables') = Len(tables)
  /\ \A i \in 1 .. Len(tables) : tables'[i].entries = tables[i].entries
  /\ UNCHANGED seq_gen

\* A writer past map.insert goes on to a later point of try_freeze.
LEMMA GotoStep ==
  ASSUME IInv, SameEntries, NEW w \in Writers, Busy(w), pc[w] # "claimed",
         NEW l \in {"full", "check", "swap"}, Goto(w, l), UNCHANGED <<call, done>>
  PROVE  CallInv' /\ SeqInv' /\ RowInv'
<1> USE DEF IInv, SameEntries
<1>1. pc'[w] = l /\ \A v \in Writers : v # w => pc'[v] = pc[v]
  BY DEF TypeOK, Goto
<1>2. \A v \in Writers : /\ Busy(v)' = Busy(v) /\ EntryOf(v)' = EntryOf(v)
                         /\ (pc'[v] = "claimed") = (pc[v] = "claimed")
                         /\ Inside(v)' => Inside(v)
  BY <1>1 DEF Busy, EntryOf, Inside
<1>3. CallInv'
  BY <1>2 DEF CallInv
<1>4. SeqInv'
  BY <1>2 DEF SeqInv
<1>5. RowInv'
  <2>1. Begun' = Begun
    BY <1>1 DEF Begun, Busy
  <2>2. \A v \in Writers : Busy(v)' /\ pc'[v] # "claimed" => InTables(EntryOf(v))
    BY <1>2 DEF RowInv
  <2>3. call' = call /\ done' = done
    OBVIOUS
  <2> QED
    BY <1>2, <2>1, <2>2, <2>3, SMTT(20) DEF RowInv, InTables
<1> QED
  BY <1>3, <1>4, <1>5

\* A writer past map.insert returns to its caller.
LEMMA ReturnStep ==
  ASSUME IInv, SameEntries, NEW w \in Writers, Busy(w), pc[w] # "claimed", Return(w)
  PROVE  CallInv' /\ SeqInv' /\ RowInv'
<1> USE DEF IInv, SameEntries
<1>1. /\ pc'[w] = "idle" /\ \A v \in Writers : v # w => pc'[v] = pc[v]
      /\ \A v \in Writers : v # w => call'[v] = call[v]
      /\ done' = done \cup {call[w].row}
  BY DEF TypeOK, Goto, Return
<1>2. /\ ~Busy(w)'
      /\ \A v \in Writers : v # w => /\ Busy(v)' = Busy(v) /\ EntryOf(v)' = EntryOf(v)
                                     /\ (pc'[v] = "claimed") = (pc[v] = "claimed")
                                     /\ Inside(v)' = Inside(v)
  BY <1>1 DEF Busy, EntryOf, Inside
<1>3. CallInv'
  BY <1>1, <1>2 DEF CallInv
<1>4. SeqInv'
  BY <1>1, <1>2, SMTT(20) DEF SeqInv
<1>5. RowInv'
  <2>1. \A r \in done' : \E i \in 1 .. Len(tables) : \E e \in tables[i].entries : e.row = r
    <3>1. InTables(EntryOf(w)) /\ EntryOf(w).row = call[w].row
      BY DEF RowInv, EntryOf
    <3> QED
      BY <1>1, <3>1 DEF RowInv, InTables
  <2>2. Begun \subseteq Begun'
    <3> SUFFICES ASSUME NEW r \in Begun PROVE r \in Begun'
      OBVIOUS
    <3>1. r \in done \/ \E v \in Writers : pc[v] # "idle" /\ r = call[v].row
      BY DEF Begun
    <3>2. r \in done' \/ \E v \in Writers : pc'[v] # "idle" /\ r = call'[v].row
      BY <1>1, <3>1, SMTT(20)
    <3> QED
      BY <3>2 DEF Begun
  <2>3. \A v \in Writers : Busy(v)' /\ pc'[v] # "claimed" => InTables(EntryOf(v))
    BY <1>1, <1>2 DEF RowInv
  <2>4. \A v \in Writers : pc'[v] = "claimed" => pc[v] = "claimed" /\ call'[v] = call[v]
    BY <1>1
  <2>5. \A v \in Writers : Busy(v)' => EntryOf(v)' = EntryOf(v)
    BY <1>2
  <2>6. \A r \in done' : \E i \in 1 .. Len(tables') : \E e \in tables'[i].entries : e.row = r
    BY <2>1
  <2>7. \A v \in Writers : Busy(v)' /\ pc'[v] # "claimed" => InTables(EntryOf(v))'
    BY <2>3, <2>5 DEF InTables
  <2>8. \A i, j \in 1 .. Len(tables') : \A e \in tables'[i].entries, f \in tables'[j].entries :
          e.row = f.row => e = f /\ i = j
    BY DEF RowInv
  <2>9. \A i \in 1 .. Len(tables') : \A e \in tables'[i].entries : e.row \in Begun'
    BY <2>2 DEF RowInv
  <2>10. \A v \in Writers : pc'[v] = "claimed" =>
           \A i \in 1 .. Len(tables') : \A e \in tables'[i].entries : e.row # call'[v].row
    BY <2>4 DEF RowInv
  <2> QED
    BY <2>6, <2>7, <2>8, <2>9, <2>10 DEF RowInv
<1> QED
  BY <1>3, <1>4, <1>5

\* Accounting for the stored row.
LEMMA AccountStep ==
  ASSUME IInv, NEW w \in Writers, Account(w)
  PROVE  IInv'
<1> USE DEF IInv
<1>1. TypeOK'
  BY AccountTables, BusyType, ZenonT(40) DEF Account, Return, TypeOK, PCs, Goto, Busy
<1>2. LockInv'
  BY ZenonT(40) DEF Account, Return, LockInv, Freezers, Goto, TypeOK
<1>3. Pending' = Pending
  BY DEF Account, Return, Pending, Goto, TypeOK
<1>4. Chain'
  BY <1>3, ChainStutter, AccountTables, ZenonT(40) DEF Account
<1>5. SameEntries
  <2>1. \A i \in 1 .. Len(tables) : i = Len(tables) \/ i \in 1 .. Len(tables) - 1
    BY TablesType
  <2> QED
    BY <2>1, AccountTables, Zenon DEF Account, SameEntries
<1>6. CallInv' /\ SeqInv' /\ RowInv'
  <2>1. Busy(w) /\ pc[w] # "claimed"
    BY DEF Account, Busy
  <2>2. (Goto(w, "full") /\ UNCHANGED <<call, done>>) \/ Return(w)
    BY DEF Account
  <2> QED
    BY <1>5, <2>1, <2>2, GotoStep, ReturnStep
<1> QED
  BY <1>1, <1>2, <1>4, <1>6, Zenon

\* try_lock and the double-check.
LEMMA LockStep ==
  ASSUME IInv, NEW w \in Writers, TryLock(w) \/ Recheck(w)
  PROVE  IInv'
<1> USE DEF IInv
<1>1. TypeOK'
  BY BusyType, Zenon DEF TryLock, Recheck, Return, TypeOK, PCs, Goto, Busy
<1>2. LockInv'
  BY DEF TryLock, Recheck, Return, LockInv, Freezers, Goto, TypeOK
<1>3. Pending' = Pending
  BY DEF TryLock, Recheck, Return, Pending, Goto, TypeOK
<1>4. Chain'
  BY <1>3, ChainStutter DEF TryLock, Recheck
<1>5. SameEntries
  BY DEF TryLock, Recheck, SameEntries
<1>6. CallInv' /\ SeqInv' /\ RowInv'
  <2>1. Busy(w) /\ pc[w] # "claimed"
    BY DEF TryLock, Recheck, Busy
  <2>2. \/ \E l \in {"check", "swap"} : Goto(w, l) /\ UNCHANGED <<call, done>>
        \/ Return(w)
    BY DEF TryLock, Recheck
  <2> QED
    BY <1>5, <2>1, <2>2, GotoStep, ReturnStep
<1> QED
  BY <1>1, <1>2, <1>4, <1>6

\* A new active table.  Nobody is inside the read lock, so no call refers to
\* the old one.
LEMMA SwapStep ==
  ASSUME IInv, NEW w \in Writers, Swap(w)
  PROVE  IInv'
<1> USE DEF IInv
<1> DEFINE n == Len(tables)
<1>1. TypeOK'
  BY SwapTables, Zenon DEF Swap, TypeOK, PCs, Goto
<1>2. LockInv'
  BY DEF Swap, LockInv, Freezers, Goto, TypeOK
<1>3. /\ pc'[w] = "push" /\ \A v \in Writers : v # w => pc'[v] = pc[v]
      /\ pc[w] = "swap"
      /\ UNCHANGED <<call, done, seq_gen, flushed, immutable>>
  BY DEF TypeOK, Goto, Swap
<1>4. \A v \in Writers : ~Inside(v) /\ ~Inside(v)' /\ pc'[v] # "claimed"
  BY <1>3 DEF Swap, Readers, Inside
<1>5. \A v \in Writers : Busy(v)' = Busy(v) /\ EntryOf(v)' = EntryOf(v)
  BY <1>3 DEF Busy, EntryOf
<1>6. /\ n \in Nat \ {0} /\ Len(tables') = n + 1
      /\ \A i \in 1 .. n : tables'[i] = tables[i]
      /\ \A i \in 1 .. n + 1 : \A e \in tables'[i].entries : i \in 1 .. n /\ e \in tables[i].entries
      /\ \A i \in 1 .. n : i \in 1 .. n + 1
  <2>1. \A i \in 1 .. n + 1 : i \in 1 .. n \/ i = n + 1
    BY TablesType
  <2> QED
    BY <2>1, TablesType, SwapTables
<1> HIDE DEF n
<1>7. Chain'
  <2>1. Pending = 0 /\ Pending' = 1
    <3>1. \A v \in Writers : pc[v] # "push"
      BY <1>3 DEF LockInv, Freezers
    <3> QED
      BY <1>3, <3>1 DEF Pending
  <2>2. Len(flushed) \in Nat /\ Len(immutable) \in Nat
    BY LenProperties DEF TypeOK
  <2>3. \A i \in 1 .. Len(flushed) : i \in 1 .. n
    BY <1>6, <2>1, <2>2 DEF Chain, n
  <2>4. \A i \in 1 .. Len(immutable) : Len(flushed) + i \in 1 .. n
    BY <1>6, <2>1, <2>2 DEF Chain, n
  <2> QED
    BY <1>3, <1>6, <2>1, <2>2, <2>3, <2>4 DEF Chain, n
<1>8. CallInv'
  BY <1>3, <1>4, <1>5, SMTT(20) DEF CallInv
<1>9. SeqInv'
  BY <1>3, <1>4, <1>6, SMTT(20) DEF SeqInv, n
<1>10. RowInv'
  <2>1. Begun' = Begun
    BY <1>3 DEF Begun
  <2>2. \A v \in Writers : Busy(v) => pc[v] # "claimed"
    BY <1>4, SMTT(20) DEF Inside
  <2>3. \A r \in done : \E i \in 1 .. n + 1 : \E e \in tables'[i].entries : e.row = r
    BY <1>6 DEF RowInv, n
  <2>4. \A v \in Writers : Busy(v) => \E i \in 1 .. n + 1 : EntryOf(v) \in tables'[i].entries
    BY <1>6, <2>2 DEF RowInv, InTables, n
  <2>5. \A i, j \in 1 .. n + 1 : \A e \in tables'[i].entries, f \in tables'[j].entries :
          e.row = f.row => e = f /\ i = j
    BY <1>6 DEF RowInv, n
  <2>6. \A i \in 1 .. n + 1 : \A e \in tables'[i].entries : e.row \in Begun
    BY <1>6 DEF RowInv, n
  <2> QED
    BY <1>3, <1>4, <1>5, <1>6, <2>1, <2>3, <2>4, <2>5, <2>6 DEF RowInv, InTables
<1> QED
  BY <1>1, <1>2, <1>7, <1>8, <1>9, <1>10

\* The old table joins the immutable list.
LEMMA PushStep ==
  ASSUME IInv, NEW w \in Writers, Push(w)
  PROVE  IInv'
<1> USE DEF IInv
<1>1. Pending = 1 /\ Pending' = 0
  <2>1. \A v \in Writers : pc'[v] # "push"
    BY DEF Push, Return, Goto, LockInv, Freezers, TypeOK
  <2> QED
    BY <2>1 DEF Pending, Push
<1>2. Len(flushed) \in Nat /\ Len(immutable) \in Nat /\ Len(tables) \in Nat
  BY LenProperties DEF TypeOK
<1>3. Len(tables) - 1 \in 1 .. Len(tables) /\ Len(tables) - 1 = Len(flushed) + Len(immutable) + 1
  BY <1>1, <1>2 DEF Chain
<1>4. tables[Len(tables) - 1] \in Table /\ immutable \in Seq(Table)
  BY <1>3, TablesType DEF TypeOK
<1>5. /\ immutable' \in Seq(Table) /\ Len(immutable') = Len(immutable) + 1
      /\ \A i \in 1 .. Len(immutable) : immutable'[i] = immutable[i]
      /\ immutable'[Len(immutable) + 1] = tables[Len(tables) - 1]
  BY <1>4, AppendProperties DEF Push, Active
<1>6. TypeOK'
  BY <1>5, BusyType, SMTT(20) DEF Push, Return, TypeOK, PCs, Goto, Busy
<1>7. LockInv'
  BY DEF Push, Return, LockInv, Freezers, Goto, TypeOK
<1>8. Chain'
  <2>1. tables' = tables /\ flushed' = flushed
    BY DEF Push
  <2>2. \A i \in 1 .. Len(immutable) + 1 : i \in 1 .. Len(immutable) \/ i = Len(immutable) + 1
    BY <1>2
  <2>3. \A i \in 1 .. Len(immutable') : immutable'[i] = tables[Len(flushed) + i]
    BY <1>2, <1>3, <1>5, <2>2 DEF Chain
  <2> QED
    BY <1>1, <1>2, <1>5, <2>1, <2>3 DEF Chain
<1>9. CallInv' /\ SeqInv' /\ RowInv'
  BY ReturnStep DEF Push, SameEntries, Busy
<1> QED
  BY <1>6, <1>7, <1>8, <1>9

\* The flusher takes the oldest immutable table.
LEMMA PopStep ==
  ASSUME IInv, PopImmutable
  PROVE  IInv'
<1> USE DEF IInv
<1>1. /\ immutable \in Seq(Table) /\ flushed \in Seq(Table) /\ immutable # <<>>
      /\ Len(flushed) \in Nat /\ Len(immutable) \in Nat \ {0}
  BY LenProperties, EmptySeq DEF TypeOK, PopImmutable
<1>2. /\ immutable' \in Seq(Table) /\ Len(immutable') = Len(immutable) - 1
      /\ \A i \in 1 .. Len(immutable') : immutable'[i] = immutable[i + 1]
  BY <1>1, HeadTailProperties DEF PopImmutable
<1>3. Head(immutable) = immutable[1] /\ Head(immutable) \in Table
  BY <1>1, HeadTailProperties
<1>4. /\ flushed' \in Seq(Table) /\ Len(flushed') = Len(flushed) + 1
      /\ \A i \in 1 .. Len(flushed) : flushed'[i] = flushed[i]
      /\ flushed'[Len(flushed) + 1] = immutable[1]
  BY <1>1, <1>3, AppendProperties DEF PopImmutable
<1>5. TypeOK'
  BY <1>2, <1>4 DEF PopImmutable, TypeOK
<1>6. Chain'
  <2>1. tables' = tables /\ Pending' = Pending /\ Pending \in {0, 1}
    BY DEF PopImmutable, Pending
  <2>2. \A i \in 1 .. Len(flushed') : flushed'[i] = tables[i]
    <3>1. immutable[1] = tables[Len(flushed) + 1]
      BY <1>1 DEF Chain
    <3>2. \A i \in 1 .. Len(flushed) + 1 : i \in 1 .. Len(flushed) \/ i = Len(flushed) + 1
      BY <1>1
    <3> QED
      BY <1>1, <1>4, <3>1, <3>2 DEF Chain
  <2>3. ASSUME NEW i \in 1 .. Len(immutable')
        PROVE  immutable'[i] = tables[Len(flushed') + i]
    <3>1. i + 1 \in 1 .. Len(immutable) /\ Len(flushed') + i = Len(flushed) + (i + 1)
      BY <1>1, <1>2, <1>4, SMTT(20)
    <3> QED
      BY <1>2, <3>1, SMTT(20) DEF Chain
  <2> QED
    BY <1>1, <1>2, <1>4, <2>1, <2>2, <2>3 DEF Chain
<1>7. LockInv' /\ CallInv' /\ SeqInv' /\ RowInv'
  BY DEF PopImmutable, LockInv, Freezers, CallInv, Busy, Inside, SeqInv, RowInv, InTables,
         EntryOf, Begun
<1> QED
  BY <1>5, <1>6, <1>7

\* Every step of insert, try_freeze and pop_immutable keeps IInv.
LEMMA NextIInv == IInv /\ [Next]_vars => IInv'
<1> SUFFICES ASSUME IInv, [Next]_vars PROVE IInv'
  OBVIOUS
<1>1. ASSUME NEW w \in Writers, NEW r \in Rows, Claim(w, r) PROVE IInv'
  BY <1>1, ClaimStep
<1>2. ASSUME NEW w \in Writers, WriterStep(w) PROVE IInv'
  BY <1>2, PutStep, AccountStep, LockStep, SwapStep, PushStep DEF WriterStep
<1>3. CASE PopImmutable
  BY <1>3, PopStep
<1>4. CASE UNCHANGED vars
  <2> USE <1>4 DEF vars, IInv
  <2>1. TypeOK' /\ LockInv'
    BY DEF TypeOK, LockInv, Freezers
  <2>2. Chain'
    BY DEF Chain, Pending
  <2>3. CallInv' /\ SeqInv'
    BY DEF CallInv, Busy, Inside, SeqInv
  <2>4. RowInv'
    BY DEF RowInv, Busy, InTables, EntryOf, Begun
  <2> QED
    BY <2>1, <2>2, <2>3, <2>4
<1> QED
  BY <1>1, <1>2, <1>3, <1>4 DEF Next

\* IInv is an invariant of the MemTableSet.
THEOREM Invariant == Spec => []IInv
<1>1. Init => IInv
  BY InitIInv
<1>2. IInv /\ [Next]_vars => IInv'
  BY NextIInv
<1> QED
  BY <1>1, <1>2, PTL DEF Spec

\* The state of the MemTableSet is well typed.
THEOREM TypeCorrect == Spec => []TypeOK
<1>1. IInv => TypeOK
  BY DEF IInv
<1> QED
  BY <1>1, Invariant, PTL

\* A prefix of t, extended by the next element of t, is a prefix of t.
LEMMA ExtendPrefix ==
  ASSUME NEW S, NEW t \in Seq(S), NEW s \in Seq(S), Len(s) < Len(t),
         \A i \in 1 .. Len(s) : s[i] = t[i]
  PROVE  /\ s \o <<t[Len(s) + 1]>> \in Seq(S)
         /\ Len(s \o <<t[Len(s) + 1]>>) = Len(s) + 1
         /\ \A i \in 1 .. Len(s) + 1 : (s \o <<t[Len(s) + 1]>>)[i] = t[i]
<1> DEFINE x == t[Len(s) + 1]
<1>1. Len(s) \in Nat /\ Len(t) \in Nat
  BY LenProperties
<1>2. x \in S
  BY <1>1, ElementOfSeq
<1> HIDE DEF x
<1>3. s \o <<x>> = Append(s, x)
  BY <1>2, AppendIsConcat
<1>4. /\ s \o <<x>> \in Seq(S) /\ Len(s \o <<x>>) = Len(s) + 1
      /\ \A i \in 1 .. Len(s) : (s \o <<x>>)[i] = s[i]
      /\ (s \o <<x>>)[Len(s) + 1] = x
  BY <1>2, <1>3, AppendProperties
<1>5. \A i \in 1 .. Len(s) + 1 : i \in 1 .. Len(s) \/ i = Len(s) + 1
  BY <1>1
<1>6. \A i \in 1 .. Len(s) + 1 : (s \o <<x>>)[i] = t[i]
  BY <1>4, <1>5 DEF x
<1> QED
  BY <1>4, <1>6 DEF x

\* What readers and the flusher see is the sequence of tables ever made, none
\* missing, none twice, in the order they were active.
LEMMA GenerationsAreTables == IInv => Generations = tables
<1> SUFFICES ASSUME IInv PROVE Generations = tables
  OBVIOUS
<1> DEFINE nf == Len(flushed)
           ni == Len(immutable)
           fi == flushed \o immutable
<1>1. /\ tables \in Seq(Table) /\ flushed \in Seq(Table) /\ immutable \in Seq(Table)
      /\ nf \in Nat /\ ni \in Nat /\ Len(tables) \in Nat \ {0}
      /\ \A i \in 1 .. Len(tables) : tables[i] \in Table
  BY LenProperties, TablesType DEF IInv, TypeOK
<1>2. /\ fi \in Seq(Table) /\ Len(fi) = nf + ni
      /\ \A i \in 1 .. nf + ni : fi[i] = tables[i]
  <2>1. /\ fi \in Seq(Table) /\ Len(fi) = nf + ni
        /\ \A i \in 1 .. nf + ni : fi[i] = IF i <= nf THEN flushed[i] ELSE immutable[i - nf]
    BY <1>1, ConcatProperties
  <2>2. ASSUME NEW i \in 1 .. nf + ni PROVE fi[i] = tables[i]
    <3>1. CASE i <= nf
      BY <1>1, <2>1, <3>1 DEF IInv, Chain
    <3>2. CASE ~(i <= nf)
      <4>1. i - nf \in 1 .. ni /\ nf + (i - nf) = i
        BY <1>1, <3>2
      <4> QED
        BY <1>1, <2>1, <3>2, <4>1 DEF IInv, Chain
    <3> QED
      BY <3>1, <3>2
  <2> QED
    BY <2>1, <2>2
<1> HIDE DEF nf, ni, fi
<1>3. CASE Pending = 0
  <2>1. Swapped = <<>> /\ Len(tables) = Len(fi) + 1
    BY <1>1, <1>2, <1>3 DEF Pending, Swapped, IInv, Chain, nf, ni
  <2>2. Generations = fi \o <<tables[Len(fi) + 1]>>
    BY <1>2, <2>1, ConcatEmptySeq DEF Generations, Active, fi
  <2>3. /\ Generations \in Seq(Table) /\ Len(Generations) = Len(tables)
        /\ \A i \in 1 .. Len(tables) : Generations[i] = tables[i]
    BY <1>1, <1>2, <2>1, <2>2, ExtendPrefix
  <2> QED
    BY <1>1, <2>3, SeqEqual
<1>4. CASE Pending = 1
  <2> DEFINE fs == fi \o <<tables[Len(fi) + 1]>>
  <2>1. Swapped = <<tables[Len(fi) + 1]>> /\ Len(tables) = Len(fi) + 2
    BY <1>1, <1>2, <1>4 DEF Pending, Swapped, Active, IInv, Chain, nf, ni
  <2>2. /\ fs \in Seq(Table) /\ Len(fs) = Len(fi) + 1
        /\ \A i \in 1 .. Len(fs) : fs[i] = tables[i]
    BY <1>1, <1>2, <2>1, ExtendPrefix
  <2>3. Generations = fs \o <<tables[Len(fs) + 1]>>
    BY <1>1, <1>2, <2>1, <2>2 DEF Generations, Active, fi
  <2> HIDE DEF fs
  <2>4. /\ Generations \in Seq(Table) /\ Len(Generations) = Len(tables)
        /\ \A i \in 1 .. Len(tables) : Generations[i] = tables[i]
    BY <1>1, <1>2, <2>1, <2>2, <2>3, ExtendPrefix
  <2> QED
    BY <1>1, <2>4, SeqEqual
<1>5. Pending = 0 \/ Pending = 1
  BY DEF Pending
<1> QED
  BY <1>3, <1>4, <1>5

\* Every returned insert left its row in exactly one table, whatever freezes
\* and flushes ran beside it.
THEOREM ExactlyOnceTheorem == Spec => []ExactlyOnce
<1>1. IInv => ExactlyOnce
  <2> SUFFICES ASSUME IInv PROVE ExactlyOnce
    OBVIOUS
  <2>1. Generations = tables /\ DOMAIN tables = 1 .. Len(tables)
    BY GenerationsAreTables, LenProperties DEF IInv, TypeOK
  <2> QED
    BY <2>1 DEF IInv, RowInv, ExactlyOnce
<1> QED
  BY <1>1, Invariant, PTL

\* Older tables hold older versions, and a number names one version.
THEOREM OrderTheorem == Spec => [](GenerationsOrdered /\ SeqUnique)
<1>1. IInv => GenerationsOrdered /\ SeqUnique
  <2> SUFFICES ASSUME IInv PROVE GenerationsOrdered /\ SeqUnique
    OBVIOUS
  <2>1. Generations = tables /\ DOMAIN tables = 1 .. Len(tables)
    BY GenerationsAreTables, LenProperties DEF IInv, TypeOK
  <2>2. /\ Len(tables) \in Nat
        /\ \A i \in 1 .. Len(tables) : \A e \in tables[i].entries : e.seq \in Nat
    BY TablesType DEF IInv, Entry
  <2>3. GenerationsOrdered
    BY <2>1 DEF IInv, SeqInv, GenerationsOrdered
  <2>4. SeqUnique
    BY <2>1, <2>2 DEF IInv, SeqInv, SeqUnique
  <2> QED
    BY <2>3, <2>4
<1> QED
  BY <1>1, Invariant, PTL

\* No step writes a table that is not active.
THEOREM FrozenTheorem == Spec => FrozenNeverWritten
<1>1. IInv /\ [Next]_vars =>
        [\A i \in 1 .. Len(tables) - 1 : tables'[i] = tables[i]]_vars
  <2> SUFFICES ASSUME IInv, Next
               PROVE  \A i \in 1 .. Len(tables) - 1 : tables'[i] = tables[i]
    OBVIOUS
  <2>1. ASSUME NEW w \in Writers, Put(w) \/ Account(w)
        PROVE  \A i \in 1 .. Len(tables) - 1 : tables'[i] = tables[i]
    BY <2>1, PutTables, AccountTables
  <2>2. ASSUME NEW w \in Writers, Swap(w)
        PROVE  \A i \in 1 .. Len(tables) - 1 : tables'[i] = tables[i]
    BY <2>2, SwapTables, TablesType DEF IInv
  <2>3. ASSUME NEW w \in Writers, TryLock(w) \/ Recheck(w) \/ Push(w)
        PROVE  tables' = tables
    BY <2>3 DEF TryLock, Recheck, Push
  <2>4. ASSUME NEW w \in Writers, NEW r \in Rows, Claim(w, r)
        PROVE  tables' = tables
    BY <2>4 DEF Claim
  <2>5. PopImmutable => tables' = tables
    BY DEF PopImmutable
  <2> QED
    BY <2>1, <2>2, <2>3, <2>4, <2>5 DEF Next, WriterStep
<1> QED
  BY <1>1, Invariant, PTL DEF Spec, FrozenNeverWritten
==============================================================================
