----------------------------- MODULE MemTableSet -----------------------------
(***************************************************************************)
(* The active/immutable MemTable coordinator of a storage-node partition   *)
(* (storage-node/src/lsm/memtable.rs).                                     *)
(*                                                                         *)
(* Writers insert rows into the active MemTable under the read half of an  *)
(* RwLock.  A writer whose insert fills the table tries to take            *)
(* freeze_lock, re-checks, swaps in a new table under the write half, and  *)
(* pushes the old one to the immutable list, from which a flusher pops.    *)
(* Each action is one atomic operation on shared memory; acquiring a lock  *)
(* is merged with the first access made under it, releasing it with the    *)
(* last one.                                                               *)
(*                                                                         *)
(* The locks are not variables: who holds one follows from the writers'    *)
(* program counters.                                                       *)
(***************************************************************************)
EXTENDS Naturals, Sequences, FiniteSets, FiniteSetsExt

CONSTANTS
  Writers,      \* threads that call MemTableSet::insert
  Rows,         \* the rows they insert, each in one call
  RowSize,      \* estimate_row_size of each row
  Threshold,    \* MemTable threshold in bytes
  NoCall        \* a writer outside insert

ASSUME SizesAssumption ==
  /\ RowSize \in [Rows -> Nat \ {0}]      \* 64 bytes of overhead at least
  /\ Threshold \in Nat \ {0}
  /\ NoCall \notin [row : Rows, seq : Nat, tab : Nat]

VARIABLES
  seq_gen,      \* AtomicU64 shared by every MemTable of the set
  tables,       \* the MemTables ever made active, oldest first; the last
                \* one is active: [entries, size]
  immutable,    \* Mutex<Vec<ImmutableMemTable>>
  flushed,      \* what pop_immutable has handed out, in that order
  pc,           \* control state of each writer
  call,         \* the writer's insert call: its row, the sequence number it
                \* drew and the table its read guard refers to
  done          \* rows whose insert has returned

vars == <<seq_gen, tables, immutable, flushed, pc, call, done>>

PCs == {"idle", "claimed", "put", "full", "check", "swap", "push"}

MutReadersNone == {}              \* Arc cloned, guard dropped
\* The guard is still held in try_freeze.
MutReadersHeld == {w \in Writers : pc[w] \in {"claimed", "put", "full", "check", "swap"}}

\* Writers inside `active.read()`.
Readers == {w \in Writers : pc[w] \in {"claimed", "put"}}
\* The writer that holds freeze_lock, if any.
Freezers == {w \in Writers : pc[w] \in {"check", "swap", "push"}}

Active == Len(tables)
NewTable == [entries |-> {}, size |-> 0]
IsFull(table) == table.size >= Threshold

Init ==
  /\ seq_gen = 0
  /\ tables = <<NewTable>>
  /\ immutable = <<>>
  /\ flushed = <<>>
  /\ pc = [w \in Writers |-> "idle"]
  /\ call = [w \in Writers |-> NoCall]
  /\ done = {}

\* Rows some call has already taken.
Begun == done \cup {call[w].row : w \in {v \in Writers : pc[v] # "idle"}}

Goto(w, label) == pc' = [pc EXCEPT ![w] = label]

\* insert returns to its caller.
Return(w) == /\ Goto(w, "idle")
             /\ done' = done \cup {call[w].row}
             /\ call' = [call EXCEPT ![w] = NoCall]

\* active.read(), then the fetch_add on seq_gen.  The writers that hold the
\* write half never wait inside it, so read() does not block here.
Claim(w, r) ==
  /\ pc[w] = "idle"
  /\ r \notin Begun
  /\ call' = [call EXCEPT ![w] = [row |-> r, seq |-> seq_gen, tab |-> Active]]
  /\ seq_gen' = seq_gen + 1
  /\ Goto(w, "claimed")
  /\ UNCHANGED <<tables, immutable, flushed, done>>

\* map.insert(key, row) in the table the guard refers to.
Put(w) ==
  /\ pc[w] = "claimed"
  /\ tables' = [tables EXCEPT ![call[w].tab] =
                   [entries |-> @.entries \cup {[row |-> call[w].row, seq |-> call[w].seq]},
                    size    |-> @.size]]
  /\ Goto(w, "put")
  /\ UNCHANGED <<seq_gen, immutable, flushed, call, done>>

\* size_bytes.fetch_add, and the read guard is dropped.
Account(w) ==
  LET total == tables[call[w].tab].size + RowSize[call[w].row] IN
  /\ pc[w] = "put"
  /\ tables' = [tables EXCEPT ![call[w].tab] = [entries |-> @.entries, size |-> total]]
  /\ \/ /\ total >= Threshold
        /\ Goto(w, "full")
        /\ UNCHANGED <<call, done>>
     \/ /\ total < Threshold
        /\ Return(w)
  /\ UNCHANGED <<seq_gen, immutable, flushed>>

\* Another thread freezes: insert the row again, into the new table.
MutTryLockReinsert(w) ==
  /\ pc[w] = "full"
  /\ Goto(w, IF Freezers = {} THEN "check" ELSE "claimed")
  /\ call' = [call EXCEPT ![w].tab = Active]
  /\ UNCHANGED <<seq_gen, tables, immutable, flushed, done>>

\* freeze_lock.try_lock(): skip the freeze when another thread holds it.
TryLock(w) ==
  /\ pc[w] = "full"
  /\ \/ /\ Freezers = {}
        /\ Goto(w, "check")
        /\ UNCHANGED <<call, done>>
     \/ /\ Freezers # {}
        /\ Return(w)
  /\ UNCHANGED <<seq_gen, tables, immutable, flushed>>

MutRecheckNone(w) ==
  /\ pc[w] = "check"
  /\ Goto(w, "swap")
  /\ UNCHANGED <<seq_gen, tables, immutable, flushed, call, done>>

\* The double-check of is_full() under freeze_lock.
Recheck(w) ==
  /\ pc[w] = "check"
  /\ \/ /\ IsFull(tables[Active])
        /\ Goto(w, "swap")
        /\ UNCHANGED <<call, done>>
     \/ /\ ~IsFull(tables[Active])
        /\ Return(w)
  /\ UNCHANGED <<seq_gen, tables, immutable, flushed>>

\* active.write() waits for the readers; the new table becomes active.
Swap(w) ==
  /\ pc[w] = "swap"
  /\ Readers = {}
  /\ tables' = Append(tables, NewTable)
  /\ Goto(w, "push")
  /\ UNCHANGED <<seq_gen, immutable, flushed, call, done>>

\* The old table is frozen, pushed, and freeze_lock is released.  Nobody
\* clones the Arc of the active table, so try_unwrap succeeds; the snapshot
\* taken otherwise has the same contents.
Push(w) ==
  /\ pc[w] = "push"
  /\ immutable' = Append(immutable, tables[Active - 1])
  /\ Return(w)
  /\ UNCHANGED <<seq_gen, tables, flushed>>

\* Vec::pop: last in, first out.
MutPopImmutable ==
  /\ immutable # <<>>
  /\ flushed' = Append(flushed, immutable[Len(immutable)])
  /\ immutable' = SubSeq(immutable, 1, Len(immutable) - 1)
  /\ UNCHANGED <<seq_gen, tables, pc, call, done>>

\* pop_immutable: first in, first out.
PopImmutable ==
  /\ immutable # <<>>
  /\ flushed' = Append(flushed, Head(immutable))
  /\ immutable' = Tail(immutable)
  /\ UNCHANGED <<seq_gen, tables, pc, call, done>>

WriterStep(w) == Put(w) \/ Account(w) \/ TryLock(w) \/ Recheck(w) \/ Swap(w) \/ Push(w)

Next ==
  \/ \E w \in Writers, r \in Rows : Claim(w, r)
  \/ \E w \in Writers : WriterStep(w)
  \/ PopImmutable

\* The scheduler runs every thread that is not blocked; calls may stop
\* coming.  Swap waits for readers that hold the lock for a bounded time.
Fairness == \A w \in Writers : WF_vars(WriterStep(w))

Spec == Init /\ [][Next]_vars /\ Fairness
-----------------------------------------------------------------------------
Entry == [row : Rows, seq : Nat]
Table == [entries : SUBSET Entry, size : Nat]

TypeOK ==
  /\ seq_gen \in Nat
  /\ tables \in Seq(Table) /\ tables # <<>>
  /\ immutable \in Seq(Table)
  /\ flushed \in Seq(Table)
  /\ pc \in [Writers -> PCs]
  /\ call \in [Writers -> [row : Rows, seq : Nat, tab : Nat] \cup {NoCall}]
  /\ done \subseteq Rows

\* What readers and the flusher can find of the rows, oldest table first:
\* handed to the flusher, immutable, swapped out but not pushed, active.
Swapped == IF \E w \in Writers : pc[w] = "push" THEN <<tables[Active - 1]>> ELSE <<>>
Generations == flushed \o immutable \o Swapped \o <<tables[Active]>>

\* A row whose insert has returned is in exactly one table, once: freezing
\* while others insert neither loses a row nor inserts it twice
\* (MemTableSet::insert, "a row is inserted exactly once").
ExactlyOnce ==
  \A r \in done :
    \E i \in DOMAIN Generations : \E e \in Generations[i].entries :
      /\ e.row = r
      /\ \A j \in DOMAIN Generations : \A f \in Generations[j].entries :
           f.row = r => f = e /\ j = i

\* Tables are handed on in the order of the sequence numbers in them: every
\* version in an older table is older than every version in a newer one, so
\* a flusher that takes tables first in, first out writes MVCC versions in
\* order.  It needs insert to draw its number under the read lock.
GenerationsOrdered ==
  \A i, j \in DOMAIN Generations : i < j =>
    \A e \in Generations[i].entries, f \in Generations[j].entries : e.seq < f.seq

\* The MVCC sequence number identifies the version across all tables,
\* because the new active table shares seq_gen with the old one.
SeqUnique ==
  \A i, j \in DOMAIN Generations :
    \A e \in Generations[i].entries, f \in Generations[j].entries :
      e.seq = f.seq => e = f /\ i = j

\* A table given up by the writers is full and its size counter is exact:
\* no freeze of an empty new table by a second thread that saw the old one
\* full, and no insert still between map.insert and size_bytes.fetch_add.
FrozenExact ==
  \A i \in 1 .. Len(Generations) - 1 :
    /\ IsFull(Generations[i])
    /\ Generations[i].size = MapThenSumSet(LAMBDA e : RowSize[e.row], Generations[i].entries)

\* What is handed on is well formed: numbered once and frozen when full.
TablesExact == TypeOK /\ SeqUnique /\ FrozenExact

\* A table that is no longer active never changes: swapping waits for every
\* insert that reached the old table.
FrozenNeverWritten ==
  [][\A i \in 1 .. Len(tables) - 1 : tables'[i] = tables[i]]_vars

\* Every insert returns: the read lock, freeze_lock and the write lock are
\* never waited for in a cycle.
InsertReturns == \A w \in Writers : pc[w] # "idle" ~> pc[w] = "idle"
==============================================================================
