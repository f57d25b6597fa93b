----------------------------- MODULE TabletProofs ----------------------------
(***************************************************************************)
(* The write path of a tablet, for every set of rows, MemTable threshold   *)
(* and number of restarts, drops, I/O errors and rollbacks: WriteAhead,    *)
(* RowsInPlace and TruncatedGone hold in every state.                      *)
(*                                                                         *)
(* None of the three is inductive.  TabletInv adds where a row can be at   *)
(* each point of its way (Owned, Logged, Places), that SSTable numbers are *)
(* not shared by the flush tasks of a process (Numbers), and that nothing  *)
(* dropped is still on its way to the disk (Gone); all that only as long   *)
(* as no drop_tablet has overlapped another operation (raced).             *)
(***************************************************************************)
EXTENDS Tablet, TLAPS

SSTable == [seq : Nat, rows : SUBSET Rows]
Writer == [mem : SUBSET Rows, tombs : Nat, levels : SUBSET SSTable, next : Nat, epoch : Nat]
Task == [writer : Nat, rows : SUBSET Rows, seq : Nat, pc : {"spawned", "cols", "meta"}]
Call == [pc : {"new", "writer", "logged", "acked", "lost"}, writer : Nat]

Open == InState({"writer", "logged"})
Inserted == InState({"acked", "lost"})
MemRows == IF reg = 0 THEN {} ELSE writers[reg].mem
Levels == IF reg = 0 THEN {} ELSE writers[reg].levels

\* Types of the writers; every listed SSTable got its number from the counter
\* of its writer.
WritersOK ==
  /\ writers \in Seq(Writer)
  /\ reg \in 0 .. Len(writers)
  /\ \A i \in 1 .. Len(writers) :
       /\ writers[i].tombs <= bound["rollback"]
       /\ writers[i].epoch <= epoch
       /\ \A s \in writers[i].levels : s.seq < writers[i].next

CallsOK ==
  /\ calls \in [Rows -> Call]
  /\ \A r \in Rows : /\ calls[r].writer <= Len(writers)
                     /\ r \in Open => calls[r].writer >= 1
  /\ purged \subseteq Acked

\* So did a flush task that has a number.
TasksOK ==
  /\ tasks \subseteq Task
  /\ \A t \in tasks : /\ t.writer \in 1 .. Len(writers)
                      /\ t.pc # "spawned" => t.seq < writers[t.writer].next

BoundOK == bound \in [DOMAIN Bounds -> Nat] /\ bound["rollback"] <= MaxRollbacks
DiskOK == /\ epoch \in Nat /\ wal \subseteq Rows
          /\ DOMAIN cols \subseteq Nat /\ DOMAIN meta \subseteq Nat
FlagsOK == dropping \in BOOLEAN /\ raced \in BOOLEAN

Types == WritersOK /\ CallsOK /\ TasksOK /\ BoundOK /\ DiskOK /\ FlagsOK

\* Calls and flushes under way belong to the registered writer, whose log is
\* the one in the directory; none is under way while the tablet is dropped.
Owned ==
  /\ \A r \in Open : reg # 0 /\ calls[r].writer = reg
  /\ \A t \in tasks : reg # 0 /\ t.writer = reg
  /\ reg # 0 => writers[reg].epoch = epoch
  /\ dropping => reg = 0 /\ Acked \subseteq purged

\* A row is in the log before it is inserted, and stays there.
Logged ==
  /\ \A r \in Rows : calls[r].pc = "logged" => r \in wal
  /\ \A r \in Acked : r \notin purged => r \in wal
  /\ \A r \in wal : calls[r].pc \notin {"new", "writer"}
  /\ reg = 0 /\ ~dropping => \A r \in wal : r \notin failed

\* No row is in two places, none is in any before it is inserted, and every
\* acknowledged row is in one.
Places ==
  /\ MemRows \subseteq Inserted /\ failed \subseteq Inserted
  /\ \A r \in MemRows : r \notin failed
  /\ \A t \in tasks : t.rows # {} /\ t.rows \subseteq Inserted
  /\ \A t \in tasks : \A r \in t.rows :
       /\ r \notin MemRows /\ r \notin failed
       /\ \A s \in Levels : r \notin s.rows
       /\ \A u \in tasks : r \in u.rows => t = u
  /\ \A s \in Levels : s.rows \subseteq Inserted
  /\ \A s \in Levels : \A r \in s.rows :
       /\ r \notin MemRows /\ r \notin failed
       /\ \A u \in Levels : r \in u.rows => s = u
  /\ reg # 0 => \A r \in Acked : r \notin purged =>
       \/ r \in MemRows \/ r \in failed
       \/ \E t \in tasks : r \in t.rows
       \/ \E s \in Levels : r \in s.rows

\* Numbers are not shared, so what is listed stays on disk as it was written.
Numbers ==
  /\ \A t, u \in tasks : t # u /\ t.pc # "spawned" /\ u.pc # "spawned" => t.seq # u.seq
  /\ \A t \in tasks, s \in Levels : t.pc # "spawned" => t.seq # s.seq
  /\ \A t \in tasks : t.pc = "meta" => t.seq \in DOMAIN cols /\ cols[t.seq] = t.rows
  /\ \A s \in Levels : /\ s.seq \in DOMAIN meta /\ s.seq \in DOMAIN cols
                       /\ meta[s.seq] = s.rows /\ cols[s.seq] = s.rows

\* Nothing of before the last drop is left, nor on its way to the disk.
Gone ==
  ~dropping => \A r \in purged :
    /\ r \notin wal /\ r \notin MemRows
    /\ \A t \in tasks : r \notin t.rows
    /\ \A s \in DOMAIN cols : r \notin cols[s]
    /\ \A s \in DOMAIN meta : r \notin meta[s]

Sound == Owned /\ Logged /\ Places /\ Numbers /\ Gone
TabletInv == Types /\ (~raced => Sound)

-------------------------------------------------------------------------------
\* The fields of a writer, one by one.
LEMMA WriterFields ==
  ASSUME NEW w \in Writer
  PROVE  /\ w.mem \subseteq Rows /\ w.tombs \in Nat /\ w.next \in Nat /\ w.epoch \in Nat
         /\ \A s \in w.levels : s.seq \in Nat /\ s.rows \subseteq Rows
BY DEF Writer, SSTable

\* A writer is replaced: the others stay.
LEMMA ReplaceWriter ==
  ASSUME writers \in Seq(Writer), NEW i \in 1 .. Len(writers), NEW w \in Writer, Replace(i, w)
  PROVE  /\ writers' \in Seq(Writer) /\ Len(writers') = Len(writers)
         /\ writers'[i] = w
         /\ \A j \in 1 .. Len(writers) : j # i => writers'[j] = writers[j]
BY DEF Replace

\* A writer is added: the others stay.
LEMMA AddWriter ==
  ASSUME writers \in Seq(Writer), NEW w \in Writer, writers' = Append(writers, w)
  PROVE  /\ writers' \in Seq(Writer) /\ Len(writers') = Len(writers) + 1
         /\ writers'[Len(writers) + 1] = w
         /\ \A j \in 1 .. Len(writers) : writers'[j] = writers[j]
OBVIOUS

\* The constants are the bounds they are meant to be.
LEMMA BoundsFacts ==
  /\ DOMAIN Bounds = {"crash", "drop", "failure", "rollback"}
  /\ Bounds["rollback"] = MaxRollbacks
  /\ MaxRollbacks \in Nat
BY ThresholdAssumption DEF Bounds

\* An operation other than rollback is counted.
LEMMA CountKeeps ==
  ASSUME BoundOK, NEW what \in {"crash", "drop", "failure"}, Count(what)
  PROVE  BoundOK' /\ bound'["rollback"] = bound["rollback"]
BY BoundsFacts DEF Count, BoundOK

\* A new version x of writer i, which may have a higher counter.
LEMMA WritersAfter ==
  ASSUME WritersOK, BoundOK, NEW i \in 1 .. Len(writers), NEW x \in Writer, Replace(i, x),
         UNCHANGED <<reg, epoch>>, bound'["rollback"] \in Nat,
         bound["rollback"] <= bound'["rollback"],
         x.tombs <= bound'["rollback"], x.epoch = writers[i].epoch,
         \A s \in x.levels : s.seq < x.next
  PROVE  WritersOK'
<1>1. /\ writers' \in Seq(Writer) /\ Len(writers') = Len(writers) /\ writers'[i] = x
      /\ \A j \in 1 .. Len(writers) : j # i => writers'[j] = writers[j]
  BY ReplaceWriter DEF WritersOK
<1>2. ASSUME NEW j \in 1 .. Len(writers')
      PROVE  /\ writers'[j].tombs <= bound'["rollback"]
             /\ writers'[j].epoch <= epoch
             /\ \A s \in writers'[j].levels : s.seq < writers'[j].next
  <2>1. writers[j].tombs <= bound["rollback"] /\ writers[j].epoch <= epoch
        /\ \A s \in writers[j].levels : s.seq < writers[j].next
    BY <1>1, <1>2 DEF WritersOK
  <2>2. writers[j].tombs \in Nat
    <3>1. writers[j] \in Writer
      BY <1>1, <1>2 DEF WritersOK
    <3> QED
      BY <3>1, WriterFields
  <2>3. bound["rollback"] \in Nat
    BY BoundsFacts DEF BoundOK
  <2>4. CASE j = i
    BY <1>1, <2>1, <2>4
  <2>5. CASE j # i
    BY <1>1, <2>1, <2>2, <2>3, <2>5
  <2> QED
    BY <2>4, <2>5
<1> QED
  BY <1>1, <1>2 DEF WritersOK

\* The flush tasks after such a step: those there were, and perhaps u.
LEMMA TasksAfter ==
  ASSUME WritersOK, TasksOK, NEW i \in 1 .. Len(writers), NEW x \in Writer, Replace(i, x),
         x.next >= writers[i].next,
         NEW u \in Task, u.writer = i, u.pc # "spawned" => u.seq < x.next,
         tasks' \subseteq tasks \cup {u}
  PROVE  TasksOK'
<1>1. /\ Len(writers') = Len(writers) /\ writers'[i] = x
      /\ \A j \in 1 .. Len(writers) : j # i => writers'[j] = writers[j]
  BY ReplaceWriter DEF WritersOK
<1>2. writers[i].next \in Nat /\ x.next \in Nat
  <2>1. writers[i] \in Writer
    BY DEF WritersOK
  <2> QED
    BY <2>1, WriterFields
<1>3. ASSUME NEW z \in tasks'
      PROVE  /\ z.writer \in 1 .. Len(writers')
             /\ z.pc # "spawned" => z.seq < writers'[z.writer].next
  <2>1. CASE z = u
    BY <1>1, <2>1
  <2>2. CASE z \in tasks
    <3>1. /\ z.writer \in 1 .. Len(writers) /\ z.seq \in Nat
          /\ z.pc # "spawned" => z.seq < writers[z.writer].next
      BY <2>2 DEF TasksOK, Task
    <3> QED
      BY <1>1, <1>2, <3>1
  <2> QED
    BY <1>3, <2>1, <2>2
<1> QED
  BY <1>3 DEF TasksOK

\* The sets of rows that the calls determine.
LEMMA SameCalls ==
  ASSUME UNCHANGED calls
  PROVE  UNCHANGED <<Acked, Inserted, Open>>
BY DEF Acked, Inserted, Open, InState

\* What the registered writer determines.
LEMMA SameWriter ==
  ASSUME UNCHANGED <<reg, writers>>
  PROVE  UNCHANGED <<MemRows, Levels>>
BY DEF MemRows, Levels

\* A storage node starts with an empty directory and no writer.
LEMMA TabletInit ==
  ASSUME Init
  PROVE  TabletInv
<1>1. Acked = {} /\ Open = {} /\ Inserted = {} /\ MemRows = {} /\ Levels = {}
  BY DEF Init, Acked, Open, Inserted, InState, MemRows, Levels
<1>2. Types
  <2>1. WritersOK /\ TasksOK
    <3>1. writers \in Seq(Writer) /\ Len(writers) = 0 /\ reg = 0 /\ tasks = {}
      BY DEF Init
    <3> QED
      BY <3>1 DEF WritersOK, TasksOK
  <2>2. CallsOK
    <3>1. calls \in [Rows -> Call] /\ \A r \in Rows : calls[r].writer = 0
      BY DEF Init, Call
    <3> QED
      BY <1>1, <3>1 DEF CallsOK, Init
  <2>3. BoundOK
    BY BoundsFacts DEF Init, BoundOK
  <2>4. DiskOK
    BY DEF Init, NoFiles, DiskOK
  <2>5. FlagsOK
    BY ZenonT(30) DEF Init, FlagsOK
  <2> QED
    BY <2>1, <2>2, <2>3, <2>4, <2>5 DEF Types
<1>3. Owned /\ Logged
  BY <1>1 DEF Init, Owned, Logged
<1>4. Places /\ Numbers /\ Gone
  BY <1>1 DEF Init, Places, Numbers, Gone
<1> QED
  BY <1>2, <1>3, <1>4 DEF TabletInv, Sound

\* get_or_create makes a writer from the log only when none is registered and,
\* unless it races with a drop, nothing is under way.
LEMMA GetOrCreateKeeps ==
  ASSUME TabletInv, NEW i \in 1 .. Len(writers) + 1, GetOrCreate(i),
         calls' \in [Rows -> Call],
         \A r \in Rows : \/ calls'[r] = calls[r]
                         \/ calls[r].pc = "new" /\ calls'[r] = [pc |-> "writer", writer |-> i],
         UNCHANGED <<tasks, dropping, epoch, wal, cols, meta, bound, purged, failed>>
  PROVE  TabletInv'
<1>1. WritersOK /\ CallsOK /\ TasksOK /\ BoundOK /\ DiskOK /\ FlagsOK
  BY DEF TabletInv, Types
<1>2. /\ Acked' = Acked /\ Inserted' = Inserted /\ Open \subseteq Open'
      /\ \A r \in Open' : (r \in Open /\ calls'[r] = calls[r]) \/ calls'[r].writer = i
      /\ \A r \in Rows : /\ calls'[r].pc = "logged" => calls[r].pc = "logged"
                         /\ calls'[r].pc \in {"new", "writer"} <=> calls[r].pc \in {"new", "writer"}
                         /\ calls'[r].writer = calls[r].writer \/ calls'[r].writer = i
                         /\ r \in Open => calls'[r] = calls[r]
  BY DEF Acked, Inserted, Open, InState
<1>3. BoundOK' /\ DiskOK'
  BY <1>1 DEF BoundOK, DiskOK
<1>4. CASE reg # 0 /\ i = reg /\ UNCHANGED <<reg, writers, raced>>
  <2>1. WritersOK' /\ TasksOK' /\ FlagsOK'
    BY <1>1, <1>4 DEF WritersOK, TasksOK, FlagsOK
  <2>2. CallsOK'
    <3>1. i <= Len(writers) /\ i >= 1 /\ Len(writers) \in Nat
      BY <1>1, <1>4 DEF WritersOK
    <3> QED
      BY <1>1, <1>2, <1>4, <3>1 DEF CallsOK, Call
  <2>3. MemRows' = MemRows /\ Levels' = Levels
    BY <1>4, SameWriter
  <2>4. ASSUME ~raced PROVE Sound'
    <3>1. Sound
      BY <2>4 DEF TabletInv
    <3>2. Owned'
      BY <1>2, <1>4, <3>1 DEF Sound, Owned
    <3>3. Logged'
      BY <1>1, <1>2, <1>4, <3>1 DEF DiskOK, Sound, Logged
    <3>4. Gone'
      BY <1>4, <2>3, <3>1 DEF Sound, Gone
    <3>5. Places'
      BY <1>2, <1>4, <2>3, <3>1 DEF Sound, Places
    <3>6. Numbers'
      BY <2>3, <3>1 DEF Sound, Numbers
    <3> QED
      BY <3>2, <3>3, <3>4, <3>5, <3>6 DEF Sound
  <2> QED
    BY <1>3, <1>4, <2>1, <2>2, <2>4 DEF TabletInv, Types
<1>5. CASE /\ reg = 0 /\ i = Len(writers) + 1 /\ reg' = i
           /\ writers' = Append(writers, NewWriter) /\ raced' = (raced \/ dropping)
  <2>1. NewWriter \in Writer
    BY <1>1 DEF NewWriter, Writer, DiskOK
  <2>2. /\ writers' \in Seq(Writer) /\ Len(writers') = Len(writers) + 1
        /\ writers'[Len(writers) + 1] = NewWriter
        /\ \A j \in 1 .. Len(writers) : writers'[j] = writers[j]
    BY <1>1, <1>5, <2>1, AddWriter DEF WritersOK
  <2>3. Len(writers) \in Nat
    BY <1>1 DEF WritersOK
  <2>4. WritersOK'
    <3>1. \A j \in 1 .. Len(writers') :
            /\ writers'[j].tombs <= bound["rollback"]
            /\ writers'[j].epoch <= epoch
            /\ \A s \in writers'[j].levels : s.seq < writers'[j].next
      <4>1. bound["rollback"] \in Nat /\ epoch \in Nat
        BY <1>1, BoundsFacts DEF BoundOK, DiskOK
      <4>2. NewWriter.tombs = 0 /\ NewWriter.epoch = epoch /\ NewWriter.levels = {}
        BY DEF NewWriter
      <4> QED
        BY <1>1, <2>2, <2>3, <4>1, <4>2 DEF WritersOK
    <3> QED
      BY <1>5, <2>2, <2>3, <3>1 DEF WritersOK
  <2>5. CallsOK'
    BY <1>1, <1>2, <1>5, <2>2, <2>3 DEF CallsOK, Call
  <2>6. TasksOK'
    BY <1>1, <2>2, <2>3 DEF TasksOK
  <2>7. FlagsOK'
    BY <1>1, <1>5 DEF FlagsOK
  <2>8. reg' # 0 /\ MemRows = {} /\ Levels = {} /\ MemRows' = wal /\ Levels' = {}
    BY <1>5, <2>2, <2>3 DEF MemRows, Levels, NewWriter
  <2>9. ASSUME ~raced' PROVE Sound'
    <3>1. Sound /\ ~dropping
      BY <1>5, <2>9, ZenonT(30) DEF TabletInv
    <3>2. tasks = {} /\ Open = {}
      BY <1>5, <3>1 DEF Sound, Owned
    <3>3. Owned'
      BY <1>2, <1>5, <2>2, <3>1, <3>2 DEF Owned, NewWriter
    <3>4. Logged'
      BY <1>1, <1>2, <2>8, <3>1 DEF DiskOK, Sound, Logged
    <3>5. wal \subseteq Inserted
      BY <1>1, <3>1, <3>2 DEF Sound, Logged, Open, Inserted, InState, CallsOK, DiskOK, Call
    <3>6. \A r \in wal : r \notin failed
      BY <1>5, <3>1 DEF Sound, Logged
    <3>7. \A r \in Acked : r \notin purged => r \in wal
      BY <3>1 DEF Sound, Logged
    <3>8. Places'
      BY <1>2, <2>8, <3>1, <3>2, <3>5, <3>6, <3>7 DEF Sound, Places
    <3>9. Numbers'
      BY <2>8, <3>2 DEF Numbers
    <3>10. Gone'
      BY <2>8, <3>1, <3>2 DEF Sound, Gone
    <3> QED
      BY <3>3, <3>4, <3>8, <3>9, <3>10 DEF Sound
  <2> QED
    BY <1>3, <2>4, <2>5, <2>6, <2>7, <2>9 DEF TabletInv, Types
<1> QED
  BY <1>4, <1>5 DEF GetOrCreate

\* WriteRows gets the writer first.
LEMMA WriteRowsKeeps ==
  ASSUME TabletInv, NEW r \in Rows, NEW i \in 1 .. Len(writers) + 1, WriteRows(r, i)
  PROVE  TabletInv'
<1>1. calls \in [Rows -> Call] /\ i \in Nat
  BY DEF TabletInv, Types, CallsOK
<1>2. calls[r].pc = "new" /\ calls' = [calls EXCEPT ![r] = [pc |-> "writer", writer |-> i]]
  BY DEF WriteRows
<1>3. calls' \in [Rows -> Call]
  BY <1>1, <1>2 DEF Call
<1>4. \A x \in Rows : \/ calls'[x] = calls[x]
                      \/ calls[x].pc = "new" /\ calls'[x] = [pc |-> "writer", writer |-> i]
  BY <1>1, <1>2
<1>5. GetOrCreate(i) /\ UNCHANGED <<tasks, dropping, epoch, wal, cols, meta, bound, purged, failed>>
  BY DEF WriteRows, disk
<1> QED
  BY <1>3, <1>4, <1>5, GetOrCreateKeeps

\* So does ScanTablet.
LEMMA ScanTabletKeeps ==
  ASSUME TabletInv, NEW i \in 1 .. Len(writers) + 1, ScanTablet(i)
  PROVE  TabletInv'
<1>1. calls' = calls /\ calls \in [Rows -> Call]
  BY DEF ScanTablet, TabletInv, Types, CallsOK
<1>2. GetOrCreate(i) /\ UNCHANGED <<tasks, dropping, epoch, wal, cols, meta, bound, purged, failed>>
  BY DEF ScanTablet, disk
<1> QED
  BY <1>1, <1>2, GetOrCreateKeeps

\* The row is logged in the directory there is.
LEMMA LogRowKeeps ==
  ASSUME TabletInv, NEW r \in Rows, LogRow(r)
  PROVE  TabletInv'
<1>1. WritersOK /\ CallsOK /\ TasksOK /\ BoundOK /\ DiskOK /\ FlagsOK
  BY DEF TabletInv, Types
<1>2. /\ UNCHANGED <<reg, writers, tasks, dropping, epoch, cols, meta, bound, purged, failed, raced>>
      /\ calls[r].pc = "writer"
      /\ wal' = IF writers[calls[r].writer].epoch = epoch THEN wal \cup {r} ELSE wal
      /\ calls' = [calls EXCEPT ![r].pc = "logged"]
  BY DEF LogRow, history
<1>3. /\ calls' \in [Rows -> Call]
      /\ \A x \in Rows : /\ x # r => calls'[x] = calls[x]
                         /\ calls'[x].writer = calls[x].writer
      /\ calls'[r].pc = "logged"
  BY <1>1, <1>2 DEF CallsOK, Call
<1>4. Acked' = Acked /\ Inserted' = Inserted /\ Open' = Open /\ r \in Open /\ r \notin Acked
  BY <1>2, <1>3 DEF Acked, Inserted, Open, InState
<1>5. MemRows' = MemRows /\ Levels' = Levels
  BY <1>2, SameWriter
<1>6. WritersOK' /\ TasksOK' /\ BoundOK' /\ FlagsOK'
  BY <1>1, <1>2 DEF WritersOK, TasksOK, BoundOK, FlagsOK
<1>7. CallsOK' /\ DiskOK'
  BY <1>1, <1>2, <1>3, <1>4 DEF CallsOK, DiskOK
<1>8. ASSUME ~raced PROVE Sound'
  <2>1. Sound
    BY <1>8 DEF TabletInv
  <2>2. wal' = wal \cup {r} /\ reg # 0
    BY <1>2, <1>4, <2>1 DEF Sound, Owned
  <2>3. Owned'
    BY <1>2, <1>3, <1>4, <2>1 DEF Sound, Owned, Open, InState
  <2>4. Logged'
    BY <1>1, <1>2, <1>3, <1>4, <2>1, <2>2 DEF DiskOK, Sound, Logged
  <2>5. Places'
    BY <1>2, <1>4, <1>5, <2>1 DEF Sound, Places
  <2>6. Numbers'
    BY <1>2, <1>5, <2>1 DEF Sound, Numbers
  <2>7. Gone'
    BY <1>1, <1>2, <1>4, <1>5, <2>1, <2>2 DEF CallsOK, Sound, Gone
  <2> QED
    BY <2>3, <2>4, <2>5, <2>6, <2>7 DEF Sound
<1> QED
  BY <1>2, <1>6, <1>7, <1>8 DEF TabletInv, Types

\* The row joins the MemTable, or leaves it again with all others in the
\* snapshot of a new flush task.
LEMMA InsertRowKeeps ==
  ASSUME TabletInv, NEW r \in Rows, InsertRow(r)
  PROVE  TabletInv'
<1> DEFINE i == calls[r].writer
           mem == writers[i].mem \cup {r}
           w == [writers[i] EXCEPT !.mem = @ \cup {r}]
           nt == [writer |-> i, rows |-> w.mem, seq |-> 0, pc |-> "spawned"]
<1>1. WritersOK /\ CallsOK /\ TasksOK /\ BoundOK /\ DiskOK /\ FlagsOK
  BY DEF TabletInv, Types
<1>2. /\ UNCHANGED <<reg, dropping, epoch, wal, cols, meta, bound, purged, failed, raced>>
      /\ calls[r].pc = "logged" /\ calls' = [calls EXCEPT ![r].pc = "acked"]
      /\ \/ /\ tasks' = tasks \cup {nt}
            /\ Replace(i, [w EXCEPT !.mem = {}, !.tombs = 0])
         \/ tasks' = tasks /\ Replace(i, w)
  BY DEF InsertRow, disk, history
<1>3. /\ calls' \in [Rows -> Call]
      /\ \A x \in Rows : /\ x # r => calls'[x] = calls[x]
                         /\ calls'[x].writer = calls[x].writer
      /\ calls'[r].pc = "acked"
  BY <1>1, <1>2 DEF CallsOK, Call
<1>4. r \notin Acked /\ r \notin Inserted /\ r \in Open /\ r \notin purged
  BY <1>1, <1>2 DEF CallsOK, Acked, Inserted, Open, InState
<1>5. Acked' = Acked \cup {r} /\ Inserted' = Inserted \cup {r} /\ Open' = Open \ {r}
  BY <1>2, <1>3 DEF Acked, Inserted, Open, InState
<1>6. i \in 1 .. Len(writers) /\ writers[i] \in Writer
  BY <1>1, <1>4 DEF CallsOK, WritersOK, Call
<1>7. /\ w \in Writer /\ w.mem = mem /\ w.tombs = writers[i].tombs
      /\ w.levels = writers[i].levels /\ w.next = writers[i].next /\ w.epoch = writers[i].epoch
  BY <1>6, SMTT(30) DEF Writer
<1>8. nt \in Task /\ nt.rows = mem /\ nt.pc = "spawned" /\ nt.writer = i
  <2>1. mem \subseteq Rows /\ i \in Nat
    BY <1>6, WriterFields
  <2> QED
    BY <1>7, <2>1 DEF Task
<1>9. PICK x \in Writer :
        /\ Replace(i, x) /\ x.levels = writers[i].levels /\ x.next = writers[i].next
        /\ x.epoch = writers[i].epoch /\ x.tombs \in {0, writers[i].tombs}
        /\ \/ tasks' = tasks \cup {nt} /\ x.mem = {}
           \/ tasks' = tasks /\ x.mem = mem
  <2>1. CASE tasks' = tasks \cup {nt} /\ Replace(i, [w EXCEPT !.mem = {}, !.tombs = 0])
    <3> DEFINE y == [w EXCEPT !.mem = {}, !.tombs = 0]
    <3>1. /\ y \in Writer /\ y.mem = {} /\ y.tombs = 0
          /\ y.levels = w.levels /\ y.next = w.next /\ y.epoch = w.epoch
      BY <1>7, ZenonT(30) DEF Writer
    <3> QED
      BY <1>7, <2>1, <3>1, ZenonT(30)
  <2>2. CASE tasks' = tasks /\ Replace(i, w)
    BY <1>7, <2>2, ZenonT(30)
  <2> QED
    BY <1>2, <2>1, <2>2, ZenonT(30)
<1> HIDE DEF i, w, nt
<1>10. /\ Len(writers') = Len(writers) /\ writers'[i] = x
       /\ \A j \in 1 .. Len(writers) : j # i => writers'[j] = writers[j]
  BY <1>1, <1>6, <1>9, ReplaceWriter DEF WritersOK
<1>11. WritersOK'
  <2>1. bound["rollback"] \in Nat
    BY <1>1, BoundsFacts DEF BoundOK
  <2>2. writers[i].tombs <= bound["rollback"] /\ \A s \in writers[i].levels : s.seq < writers[i].next
    BY <1>1, <1>6 DEF WritersOK
  <2>3. x.tombs <= bound["rollback"]
    BY <1>9, <2>1, <2>2
  <2> QED
    BY <1>1, <1>2, <1>6, <1>9, <2>1, <2>2, <2>3, WritersAfter
<1>12. TasksOK'
  <2>1. x.next >= writers[i].next
    BY <1>6, <1>9, WriterFields
  <2> QED
    BY <1>1, <1>6, <1>8, <1>9, <2>1, TasksAfter
<1>13. CallsOK'
  BY <1>1, <1>2, <1>3, <1>5, <1>10 DEF CallsOK
<1>14. BoundOK' /\ DiskOK' /\ FlagsOK'
  BY <1>1, <1>2 DEF BoundOK, DiskOK, FlagsOK
<1>15. ASSUME ~raced PROVE Sound'
  <2>1. Sound
    BY <1>15 DEF TabletInv
  <2>2. reg # 0 /\ i = reg
    BY <1>4, <2>1 DEF Sound, Owned, i
  <2>3. /\ Levels' = Levels /\ mem = MemRows \cup {r}
        /\ \/ tasks' = tasks \cup {nt} /\ MemRows' = {}
           \/ tasks' = tasks /\ MemRows' = mem
    BY <1>2, <1>9, <1>10, <2>2 DEF Levels, MemRows
  <2>4. Owned'
    BY <1>2, <1>3, <1>5, <1>8, <1>9, <1>10, <2>1, <2>2 DEF Sound, Owned, Open, InState
  <2>5. Logged'
    BY <1>1, <1>2, <1>3, <1>5, <2>1 DEF DiskOK, Sound, Logged
  <2>6. Numbers'
    BY <1>2, <1>8, <2>1, <2>3 DEF Sound, Numbers
  <2>7. Gone'
    BY <1>2, <1>4, <1>8, <2>1, <2>3 DEF Sound, Gone
  <2>8. Places'
    <3>1. /\ r \notin MemRows /\ r \notin failed
          /\ \A t \in tasks : r \notin t.rows
          /\ \A s \in Levels : r \notin s.rows
      BY <1>4, <2>1 DEF Sound, Places
    <3>2. CASE tasks' = tasks \cup {nt} /\ MemRows' = {}
      BY <1>2, <1>5, <1>8, <2>1, <2>3, <3>1, <3>2 DEF Sound, Places
    <3>3. CASE tasks' = tasks /\ MemRows' = mem
      BY <1>2, <1>5, <2>1, <2>3, <3>1, <3>3 DEF Sound, Places
    <3> QED
      BY <2>3, <3>2, <3>3
  <2> QED
    BY <2>4, <2>5, <2>6, <2>7, <2>8 DEF Sound
<1> QED
  BY <1>2, <1>11, <1>12, <1>13, <1>14, <1>15 DEF TabletInv, Types

\* A flush task takes the next number of its writer, which no other task and no
\* listed SSTable has.
LEMMA FlushStartKeeps ==
  ASSUME TabletInv, NEW t \in tasks, FlushStart(t)
  PROVE  TabletInv'
<1> DEFINE i == t.writer
           w == writers[i]
           u == [t EXCEPT !.seq = w.next, !.pc = "cols"]
           x == [w EXCEPT !.next = @ + 1]
<1>1. WritersOK /\ CallsOK /\ TasksOK /\ BoundOK /\ DiskOK /\ FlagsOK
  BY DEF TabletInv, Types
<1>2. /\ UNCHANGED <<reg, calls, dropping, epoch, wal, cols, meta, bound, purged, failed, raced>>
      /\ t.pc = "spawned" /\ tasks' = (tasks \ {t}) \cup {u} /\ Replace(i, x)
  BY DEF FlushStart, Advance, disk, history
<1>3. i \in 1 .. Len(writers) /\ w \in Writer /\ t \in Task
  BY <1>1 DEF WritersOK, TasksOK
<1>4. w.next \in Nat /\ w.next + 1 \in Nat /\ w.tombs \in Nat
  BY <1>3, WriterFields
<1>5. /\ x \in Writer /\ x.mem = w.mem /\ x.tombs = w.tombs /\ x.levels = w.levels
      /\ x.next = w.next + 1 /\ x.epoch = w.epoch
  BY <1>3, <1>4, SMTT(30) DEF Writer
<1>6. u \in Task /\ u.writer = i /\ u.rows = t.rows /\ u.seq = w.next /\ u.pc = "cols"
  BY <1>3, <1>4, ZenonT(30) DEF Task
<1> HIDE DEF u, x
<1>7. /\ Len(writers') = Len(writers) /\ writers'[i] = x
      /\ \A j \in 1 .. Len(writers) : j # i => writers'[j] = writers[j]
  BY <1>1, <1>2, <1>3, <1>5, ReplaceWriter DEF WritersOK
<1>8. Acked' = Acked /\ Inserted' = Inserted /\ Open' = Open
  BY <1>2, SameCalls
<1>9. \A s \in w.levels : s.seq < w.next /\ s.seq \in Nat
  BY <1>1, <1>3, WriterFields DEF WritersOK
<1>10. WritersOK'
  <2>1. bound["rollback"] \in Nat /\ w.tombs <= bound["rollback"]
    BY <1>1, <1>3, BoundsFacts DEF BoundOK, WritersOK
  <2>2. \A s \in x.levels : s.seq < x.next
    BY <1>4, <1>5, <1>9
  <2> QED
    BY <1>1, <1>2, <1>3, <1>5, <2>1, <2>2, WritersAfter
<1>11. TasksOK'
  <2>1. x.next >= w.next /\ u.seq < x.next
    BY <1>4, <1>5, <1>6
  <2> QED
    BY <1>1, <1>2, <1>3, <1>5, <1>6, <2>1, TasksAfter
<1>12. CallsOK'
  BY <1>1, <1>2, <1>7, <1>8 DEF CallsOK
<1>13. BoundOK' /\ DiskOK' /\ FlagsOK'
  BY <1>1, <1>2 DEF BoundOK, DiskOK, FlagsOK
<1>14. ASSUME ~raced PROVE Sound'
  <2>1. Sound
    BY <1>14 DEF TabletInv
  <2>2. reg # 0 /\ i = reg
    BY <2>1 DEF Sound, Owned
  <2>3. MemRows' = MemRows /\ Levels' = Levels
    BY <1>2, <1>5, <1>7, <2>2 DEF MemRows, Levels
  <2>4. Owned'
    BY <1>2, <1>5, <1>6, <1>7, <1>8, <2>1, <2>2 DEF Sound, Owned
  <2>5. Logged'
    BY <1>2, <1>8, <2>1 DEF Sound, Logged
  <2>6. Numbers'
    <3>1. \A z \in tasks : z.pc # "spawned" => z.seq # w.next
      <4> TAKE z \in tasks
      <4>1. z.writer = i
        BY <2>1, <2>2 DEF Sound, Owned
      <4>2. z.pc # "spawned" => z.seq < w.next
        BY <1>1, <4>1 DEF TasksOK
      <4> QED
        BY <1>4, <4>2
    <3>2. \A s \in Levels : s.seq # w.next
      BY <1>4, <1>9, <2>2 DEF Levels
    <3> QED
      BY <1>2, <1>6, <2>1, <2>3, <3>1, <3>2 DEF Sound, Numbers
  <2>7. Gone'
    BY <1>2, <1>6, <2>1, <2>3 DEF Sound, Gone
  <2>8. Places'
    BY <1>2, <1>6, <1>8, <2>1, <2>3 DEF Sound, Places
  <2> QED
    BY <2>4, <2>5, <2>6, <2>7, <2>8 DEF Sound
<1> QED
  BY <1>2, <1>10, <1>11, <1>12, <1>13, <1>14 DEF TabletInv, Types

\* The column files of a task: under its own number, so of no listed SSTable.
LEMMA FlushColsKeeps ==
  ASSUME TabletInv, NEW t \in tasks, FlushCols(t)
  PROVE  TabletInv'
<1> DEFINE u == [t EXCEPT !.pc = "meta"]
<1>1. WritersOK /\ CallsOK /\ TasksOK /\ BoundOK /\ DiskOK /\ FlagsOK
  BY DEF TabletInv, Types
<1>2. /\ UNCHANGED <<reg, writers, calls, dropping, epoch, wal, meta, bound, purged, failed, raced>>
      /\ t.pc = "cols" /\ tasks' = (tasks \ {t}) \cup {u} /\ cols' = Put(cols, t.seq, t.rows)
  BY DEF FlushCols, Advance, history
<1>3. t \in Task /\ t.seq \in Nat
  BY <1>1 DEF TasksOK, Task
<1>4. u \in Task /\ u.writer = t.writer /\ u.rows = t.rows /\ u.seq = t.seq /\ u.pc = "meta"
  BY <1>3 DEF Task
<1> HIDE DEF u
<1>5. /\ DOMAIN cols' = DOMAIN cols \cup {t.seq} /\ cols'[t.seq] = t.rows
      /\ \A s \in DOMAIN cols : s # t.seq => cols'[s] = cols[s]
  BY <1>2 DEF Put
<1>6. /\ Acked' = Acked /\ Inserted' = Inserted /\ Open' = Open
      /\ MemRows' = MemRows /\ Levels' = Levels
  BY <1>2, SameCalls, SameWriter
<1>7. WritersOK' /\ CallsOK' /\ BoundOK' /\ FlagsOK'
  BY <1>1, <1>2, <1>6 DEF WritersOK, CallsOK, BoundOK, FlagsOK
<1>8. TasksOK'
  BY <1>1, <1>2, <1>4 DEF TasksOK
<1>9. DiskOK'
  BY <1>1, <1>2, <1>3, <1>5 DEF DiskOK
<1>10. ASSUME ~raced PROVE Sound'
  <2>1. Sound
    BY <1>10 DEF TabletInv
  <2>2. Owned' /\ Logged'
    BY <1>2, <1>4, <1>6, <2>1 DEF Sound, Owned, Logged
  <2>3. Numbers'
    BY <1>2, <1>4, <1>5, <1>6, <2>1 DEF Sound, Numbers
  <2>4. Gone'
    BY <1>2, <1>4, <1>5, <1>6, <2>1 DEF Sound, Gone
  <2>5. Places'
    BY <1>2, <1>4, <1>6, <2>1 DEF Sound, Places
  <2> QED
    BY <2>2, <2>3, <2>4, <2>5 DEF Sound
<1> QED
  BY <1>2, <1>7, <1>8, <1>9, <1>10 DEF TabletInv, Types

\* The _meta file and levels.add: the rows move from the task to the list.
LEMMA FlushMetaKeeps ==
  ASSUME TabletInv, NEW t \in tasks, FlushMeta(t)
  PROVE  TabletInv'
<1> DEFINE i == t.writer
           w == writers[i]
           sst == [seq |-> t.seq, rows |-> t.rows]
           x == [w EXCEPT !.levels = @ \cup {sst}]
<1>1. WritersOK /\ CallsOK /\ TasksOK /\ BoundOK /\ DiskOK /\ FlagsOK
  BY DEF TabletInv, Types
<1>2. /\ UNCHANGED <<reg, calls, dropping, epoch, wal, cols, bound, purged, failed, raced>>
      /\ t.pc = "meta" /\ tasks' = tasks \ {t} /\ Replace(i, x) /\ meta' = Put(meta, t.seq, t.rows)
  BY DEF FlushMeta, history
<1>3. i \in 1 .. Len(writers) /\ w \in Writer /\ t \in Task /\ t.seq \in Nat
  BY <1>1 DEF WritersOK, TasksOK, Task
<1>4. sst \in SSTable /\ sst.seq = t.seq /\ sst.rows = t.rows
  BY <1>3 DEF Task, SSTable
<1> HIDE DEF sst
<1>5. /\ x \in Writer /\ x.mem = w.mem /\ x.tombs = w.tombs /\ x.levels = w.levels \cup {sst}
      /\ x.next = w.next /\ x.epoch = w.epoch
  BY <1>3, <1>4 DEF Writer
<1> HIDE DEF x
<1>6. /\ Len(writers') = Len(writers) /\ writers'[i] = x
      /\ \A j \in 1 .. Len(writers) : j # i => writers'[j] = writers[j]
  BY <1>1, <1>2, <1>3, <1>5, ReplaceWriter DEF WritersOK
<1>7. Acked' = Acked /\ Inserted' = Inserted /\ Open' = Open
  BY <1>2, SameCalls
<1>8. /\ DOMAIN meta' = DOMAIN meta \cup {t.seq} /\ meta'[t.seq] = t.rows
      /\ \A s \in DOMAIN meta : s # t.seq => meta'[s] = meta[s]
  BY <1>2 DEF Put
<1>9. WritersOK'
  <2>1. bound["rollback"] \in Nat /\ w.tombs <= bound["rollback"]
    BY <1>1, <1>3, BoundsFacts, SMTT(30) DEF BoundOK, WritersOK
  <2>2. t.seq < w.next
    BY <1>1, <1>2 DEF TasksOK
  <2>3. \A s \in w.levels : s.seq < w.next
    BY <1>1, <1>3 DEF WritersOK
  <2>4. \A s \in x.levels : s.seq < x.next
    BY <1>4, <1>5, <2>2, <2>3
  <2> QED
    BY <1>1, <1>2, <1>3, <1>5, <2>1, <2>4, WritersAfter
<1>10. TasksOK'
  <2>1. x.next >= w.next /\ (t.pc # "spawned" => t.seq < x.next)
    BY <1>1, <1>3, <1>5, WriterFields DEF TasksOK
  <2>2. tasks' \subseteq tasks \cup {t}
    BY <1>2
  <2> QED
    BY <1>1, <1>2, <1>3, <1>5, <2>1, <2>2, TasksAfter
<1>11. CallsOK'
  BY <1>1, <1>2, <1>6, <1>7 DEF CallsOK
<1>12. BoundOK' /\ DiskOK' /\ FlagsOK'
  BY <1>1, <1>2, <1>3, <1>8 DEF BoundOK, DiskOK, FlagsOK
<1>13. ASSUME ~raced PROVE Sound'
  <2>1. Sound
    BY <1>13 DEF TabletInv
  <2>2. reg # 0 /\ i = reg
    BY <2>1 DEF Sound, Owned
  <2>3. MemRows' = MemRows /\ Levels' = Levels \cup {sst}
    BY <1>2, <1>5, <1>6, <2>2 DEF MemRows, Levels
  <2>4. Owned'
    BY <1>2, <1>5, <1>6, <1>7, <2>1, <2>2, SMTT(30) DEF Sound, Owned
  <2>5. Logged'
    BY <1>2, <1>7, <2>1 DEF Sound, Logged
  <2>6. Numbers'
    BY <1>2, <1>4, <1>8, <2>1, <2>3, SMTT(30) DEF Sound, Numbers
  <2>7. Gone'
    BY <1>2, <1>8, <2>1, <2>3 DEF Sound, Gone
  <2>8. Places'
    BY <1>2, <1>4, <1>7, <2>1, <2>3 DEF Sound, Places
  <2> QED
    BY <2>4, <2>5, <2>6, <2>7, <2>8 DEF Sound
<1> QED
  BY <1>2, <1>9, <1>10, <1>11, <1>12, <1>13 DEF TabletInv, Types

\* An I/O error: the rows of the snapshot are accounted for as failed.
LEMMA FlushFailsKeeps ==
  ASSUME TabletInv, NEW t \in tasks, FlushFails(t)
  PROVE  TabletInv'
<1>1. WritersOK /\ CallsOK /\ TasksOK /\ BoundOK /\ DiskOK /\ FlagsOK
  BY DEF TabletInv, Types
<1>2. /\ UNCHANGED <<reg, writers, calls, dropping, epoch, wal, cols, meta, purged, raced>>
      /\ tasks' = tasks \ {t} /\ failed' = failed \cup t.rows
  BY DEF FlushFails, disk
<1>3. BoundOK' /\ bound'["rollback"] = bound["rollback"]
  BY <1>1, CountKeeps DEF FlushFails
<1>4. /\ Acked' = Acked /\ Inserted' = Inserted /\ Open' = Open
      /\ MemRows' = MemRows /\ Levels' = Levels
  BY <1>2, SameCalls, SameWriter
<1>5. WritersOK' /\ CallsOK' /\ FlagsOK'
  BY <1>1, <1>2, <1>3, <1>4 DEF WritersOK, CallsOK, FlagsOK
<1>6. TasksOK' /\ DiskOK'
  BY <1>1, <1>2 DEF TasksOK, DiskOK
<1>7. ASSUME ~raced PROVE Sound'
  <2>1. Sound
    BY <1>7 DEF TabletInv
  <2>2. Owned'
    BY <1>2, <1>4, <2>1 DEF Sound, Owned
  <2>3. Logged'
    BY <1>2, <1>4, <2>1, <2>2 DEF Sound, Owned, Logged
  <2>4. Numbers' /\ Gone'
    BY <1>2, <1>4, <2>1 DEF Sound, Numbers, Gone
  <2>5. Places'
    BY <1>2, <1>4, <2>1 DEF Sound, Places
  <2> QED
    BY <2>2, <2>3, <2>4, <2>5 DEF Sound
<1> QED
  BY <1>2, <1>3, <1>5, <1>6, <1>7 DEF TabletInv, Types

\* A tombstone: the MemTable keeps its rows.
LEMMA RollbackKeeps ==
  ASSUME TabletInv, Rollback
  PROVE  TabletInv'
<1> DEFINE w == writers[reg]
           x == [w EXCEPT !.tombs = @ + 1]
<1>1. WritersOK /\ CallsOK /\ TasksOK /\ BoundOK /\ DiskOK /\ FlagsOK
  BY DEF TabletInv, Types
<1>2. /\ UNCHANGED <<reg, calls, tasks, dropping, epoch, wal, cols, meta, purged, failed, raced>>
      /\ reg # 0 /\ Replace(reg, x)
  BY DEF Rollback, disk, history
<1>3. /\ bound["rollback"] \in Nat /\ bound["rollback"] < MaxRollbacks
      /\ bound' \in [DOMAIN Bounds -> Nat] /\ bound'["rollback"] = bound["rollback"] + 1
  BY <1>1, BoundsFacts DEF Rollback, Count, BoundOK
<1>4. reg \in 1 .. Len(writers) /\ w \in Writer
  BY <1>1, <1>2 DEF WritersOK
<1>5. w.tombs \in Nat /\ w.tombs + 1 \in Nat /\ w.next \in Nat
  BY <1>4, WriterFields
<1>6. /\ x \in Writer /\ x.mem = w.mem /\ x.tombs = w.tombs + 1 /\ x.levels = w.levels
      /\ x.next = w.next /\ x.epoch = w.epoch
  BY <1>4, <1>5 DEF Writer
<1> HIDE DEF x
<1>7. /\ Len(writers') = Len(writers) /\ writers'[reg] = x
      /\ \A j \in 1 .. Len(writers) : j # reg => writers'[j] = writers[j]
  BY <1>1, <1>2, <1>4, <1>6, ReplaceWriter DEF WritersOK
<1>8. Acked' = Acked /\ Inserted' = Inserted /\ Open' = Open
  BY <1>2, SameCalls
<1>9. MemRows' = MemRows /\ Levels' = Levels
  BY <1>2, <1>6, <1>7 DEF MemRows, Levels
<1>10. WritersOK'
  <2>1. w.tombs <= bound["rollback"] /\ \A s \in w.levels : s.seq < w.next
    BY <1>1, <1>4 DEF WritersOK
  <2>2. /\ x.tombs <= bound'["rollback"] /\ bound'["rollback"] \in Nat
        /\ bound["rollback"] <= bound'["rollback"]
    BY <1>3, <1>5, <1>6, <2>1
  <2> QED
    BY <1>1, <1>2, <1>4, <1>6, <2>1, <2>2, WritersAfter
<1>11. TasksOK'
  BY <1>1, <1>2, <1>6, <1>7 DEF TasksOK
<1>12. CallsOK'
  BY <1>1, <1>2, <1>7, <1>8 DEF CallsOK
<1>13. BoundOK'
  BY <1>3, BoundsFacts DEF BoundOK
<1>14. DiskOK' /\ FlagsOK'
  BY <1>1, <1>2 DEF DiskOK, FlagsOK
<1>15. ASSUME ~raced PROVE Sound'
  <2>1. Sound
    BY <1>15 DEF TabletInv
  <2>2. Owned' /\ Logged'
    BY <1>2, <1>6, <1>7, <1>8, <2>1 DEF Sound, Owned, Logged
  <2>3. Numbers' /\ Gone'
    BY <1>2, <1>9, <2>1 DEF Sound, Numbers, Gone
  <2>4. Places'
    BY <1>2, <1>8, <1>9, <2>1 DEF Sound, Places
  <2> QED
    BY <2>2, <2>3, <2>4 DEF Sound
<1> QED
  BY <1>2, <1>10, <1>11, <1>12, <1>13, <1>14, <1>15 DEF TabletInv, Types

\* drop_tablet begins: unless it races, nothing is under way.
LEMMA UnregisterKeeps ==
  ASSUME TabletInv, Unregister
  PROVE  TabletInv'
<1>1. WritersOK /\ CallsOK /\ TasksOK /\ BoundOK /\ DiskOK /\ FlagsOK
  BY DEF TabletInv, Types
<1>2. /\ UNCHANGED <<writers, calls, tasks, epoch, wal, cols, meta, failed>>
      /\ dropping' = TRUE /\ reg' = 0 /\ purged' = Acked
      /\ raced' = (raced \/ tasks # {} \/ Open # {})
  BY DEF Unregister, disk, Open
<1>3. BoundOK' /\ bound'["rollback"] = bound["rollback"]
  BY <1>1, CountKeeps DEF Unregister
<1>4. /\ Acked' = Acked /\ Inserted' = Inserted /\ Open' = Open
      /\ MemRows' = {} /\ Levels' = {}
  BY <1>2, SameCalls DEF MemRows, Levels
<1>5. WritersOK' /\ TasksOK' /\ DiskOK'
  BY <1>1, <1>2, <1>3 DEF WritersOK, TasksOK, DiskOK
<1>6. CallsOK'
  BY <1>1, <1>2, <1>4 DEF CallsOK
<1>7. FlagsOK'
  BY <1>2 DEF FlagsOK
<1>8. ASSUME ~raced' PROVE Sound'
  <2>1. Sound /\ tasks = {} /\ Open = {}
    BY <1>2, <1>8, ZenonT(30) DEF TabletInv
  <2>2. Owned' /\ Logged'
    BY <1>2, <1>4, <2>1 DEF Sound, Owned, Logged
  <2>3. Numbers' /\ Gone'
    BY <1>2, <1>4, <2>1 DEF Sound, Numbers, Gone
  <2>4. Places'
    BY <1>2, <1>4, <2>1 DEF Sound, Places
  <2> QED
    BY <2>2, <2>3, <2>4 DEF Sound
<1> QED
  BY <1>3, <1>5, <1>6, <1>7, <1>8 DEF TabletInv, Types

\* remove_dir_all empties the directory, or fails and counts as a race.
LEMMA PurgeKeeps ==
  ASSUME TabletInv, Purge
  PROVE  TabletInv'
<1>1. WritersOK /\ CallsOK /\ TasksOK /\ BoundOK /\ DiskOK /\ FlagsOK
  BY DEF TabletInv, Types
<1>2. /\ UNCHANGED <<reg, writers, calls, tasks, purged, failed>>
      /\ dropping /\ dropping' = FALSE
  BY DEF Purge
<1>3. /\ Acked' = Acked /\ Inserted' = Inserted /\ Open' = Open
      /\ MemRows' = MemRows /\ Levels' = Levels
  BY <1>2, SameCalls, SameWriter
<1>4. CallsOK' /\ TasksOK'
  BY <1>1, <1>2, <1>3 DEF CallsOK, TasksOK
<1>5. CASE /\ epoch' = epoch + 1 /\ wal' = {} /\ cols' = NoFiles /\ meta' = NoFiles
           /\ UNCHANGED <<bound, raced>>
  <2>1. DOMAIN cols' = {} /\ DOMAIN meta' = {}
    BY <1>5 DEF NoFiles
  <2>2. WritersOK'
    <3>1. \A j \in 1 .. Len(writers) : writers[j].epoch <= epoch + 1
      <4> TAKE j \in 1 .. Len(writers)
      <4>1. writers[j] \in Writer /\ writers[j].epoch <= epoch /\ epoch \in Nat
        BY <1>1 DEF WritersOK, DiskOK
      <4> QED
        BY <4>1, WriterFields
    <3> QED
      BY <1>1, <1>2, <1>5, <3>1 DEF WritersOK
  <2>3. BoundOK' /\ FlagsOK'
    BY <1>1, <1>2, <1>5, ZenonT(30) DEF BoundOK, FlagsOK
  <2>4. DiskOK'
    BY <1>1, <1>5, <2>1 DEF DiskOK
  <2>5. ASSUME ~raced PROVE Sound'
    <3>1. Sound /\ reg = 0 /\ tasks = {} /\ Open = {} /\ Acked \subseteq purged
      BY <1>2, <2>5 DEF TabletInv, Sound, Owned
    <3>2. MemRows = {} /\ Levels = {}
      BY <3>1 DEF MemRows, Levels
    <3>3. \A r \in Rows : calls[r].pc # "logged"
      BY <3>1 DEF Open, InState
    <3>4. Owned' /\ Logged'
      BY <1>2, <1>3, <1>5, <3>1, <3>3 DEF Owned, Logged
    <3>5. Numbers' /\ Gone'
      BY <1>2, <1>3, <1>5, <2>1, <3>1, <3>2 DEF Numbers, Gone
    <3>6. Places'
      BY <1>2, <1>3, <3>1, <3>2 DEF Sound, Places
    <3> QED
      BY <3>4, <3>5, <3>6 DEF Sound
  <2> QED
    BY <1>4, <1>5, <2>2, <2>3, <2>4, <2>5 DEF TabletInv, Types
<1>6. CASE Count("failure") /\ raced' = TRUE /\ UNCHANGED disk
  <2>1. BoundOK' /\ bound'["rollback"] = bound["rollback"]
    BY <1>1, <1>6, CountKeeps
  <2>2. FlagsOK'
    BY <1>2, <1>6, ZenonT(30) DEF FlagsOK
  <2>3. WritersOK' /\ DiskOK'
    BY <1>1, <1>2, <1>6, <2>1 DEF disk, WritersOK, DiskOK
  <2> QED
    BY <1>4, <1>6, <2>1, <2>2, <2>3 DEF TabletInv, Types
<1> QED
  BY <1>5, <1>6, ZenonT(30) DEF Purge

\* A restart keeps what is on disk and forgets the rest; calls under way are
\* lost, though their row may be in the log.
LEMMA CrashKeeps ==
  ASSUME TabletInv, Crash
  PROVE  TabletInv'
<1>1. WritersOK /\ CallsOK /\ TasksOK /\ BoundOK /\ DiskOK /\ FlagsOK
  BY DEF TabletInv, Types
<1>2. /\ UNCHANGED <<epoch, wal, cols, meta, purged>>
      /\ reg' = 0 /\ writers' = <<>> /\ tasks' = {} /\ failed' = {} /\ dropping' = FALSE
      /\ raced' = (raced \/ dropping)
  BY DEF Crash, disk
<1>3. BoundOK' /\ bound'["rollback"] = bound["rollback"]
  BY <1>1, CountKeeps DEF Crash
<1>4. /\ calls' \in [Rows -> Call]
      /\ \A r \in Rows : /\ calls'[r].writer = 0
                         /\ calls[r].pc \in {"writer", "logged"} => calls'[r].pc = "lost"
                         /\ calls[r].pc \notin {"writer", "logged"} => calls'[r].pc = calls[r].pc
  BY <1>1 DEF Crash, CallsOK, Call
<1>5. /\ Acked' = Acked /\ Open' = {} /\ MemRows' = {} /\ Levels' = {}
  BY <1>2, <1>4 DEF Acked, Open, InState, MemRows, Levels
<1>6. writers' \in Seq(Writer) /\ Len(writers') = 0
  BY <1>2
<1>7. WritersOK' /\ TasksOK' /\ DiskOK'
  BY <1>1, <1>2, <1>6 DEF WritersOK, TasksOK, DiskOK
<1>8. CallsOK'
  BY <1>1, <1>2, <1>4, <1>5, <1>6 DEF CallsOK
<1>9. FlagsOK'
  BY <1>2, ZenonT(30) DEF FlagsOK
<1>10. ASSUME ~raced' PROVE Sound'
  <2>1. Sound /\ ~dropping
    BY <1>2, <1>10, ZenonT(30) DEF TabletInv
  <2>2. Owned'
    BY <1>2, <1>5 DEF Owned
  <2>3. Logged'
    BY <1>1, <1>2, <1>4, <1>5, <2>1 DEF DiskOK, Sound, Logged
  <2>4. Numbers' /\ Gone'
    BY <1>2, <1>5, <2>1 DEF Sound, Numbers, Gone
  <2>5. Places'
    BY <1>2, <1>5 DEF Places
  <2> QED
    BY <2>2, <2>3, <2>4, <2>5 DEF Sound
<1> QED
  BY <1>3, <1>7, <1>8, <1>9, <1>10 DEF TabletInv, Types

\* A step that changes nothing.
LEMMA StutterKeeps ==
  ASSUME TabletInv, UNCHANGED vars
  PROVE  TabletInv'
<1>1. /\ UNCHANGED <<reg, writers, calls, tasks, dropping, epoch, wal, cols, meta, bound>>
      /\ UNCHANGED <<purged, failed, raced>>
  BY DEF vars
<1>2. /\ Acked' = Acked /\ Inserted' = Inserted /\ Open' = Open
      /\ MemRows' = MemRows /\ Levels' = Levels
  BY <1>1, SameCalls, SameWriter
<1>3. WritersOK' /\ CallsOK' /\ TasksOK'
  BY <1>1, <1>2 DEF TabletInv, Types, WritersOK, CallsOK, TasksOK
<1>4. BoundOK' /\ DiskOK' /\ FlagsOK'
  BY <1>1 DEF TabletInv, Types, BoundOK, DiskOK, FlagsOK
<1>5. ASSUME Sound PROVE Sound'
  <2>1. Owned' /\ Logged'
    BY <1>1, <1>2, <1>5 DEF Sound, Owned, Logged
  <2>2. Numbers' /\ Gone'
    BY <1>1, <1>2, <1>5, SMTT(30) DEF Sound, Numbers, Gone
  <2>3. Places'
    BY <1>1, <1>2, <1>5 DEF Sound, Places
  <2> QED
    BY <2>1, <2>2, <2>3 DEF Sound
<1> QED
  BY <1>1, <1>3, <1>4, <1>5 DEF TabletInv, Types

\* Every step of the tablet keeps the invariant.
THEOREM TabletInvariant == Spec => []TabletInv
<1>1. Init => TabletInv
  BY TabletInit
<1>2. TabletInv /\ [Next]_vars => TabletInv'
  <2> SUFFICES ASSUME TabletInv, [Next]_vars PROVE TabletInv'
    OBVIOUS
  <2>1. CASE \E r \in Rows, i \in 1 .. Len(writers) + 1 : WriteRows(r, i)
    BY <2>1, WriteRowsKeeps
  <2>2. CASE \E i \in 1 .. Len(writers) + 1 : ScanTablet(i)
    BY <2>2, ScanTabletKeeps
  <2>3. CASE \E r \in Rows : LogRow(r) \/ InsertRow(r)
    BY <2>3, LogRowKeeps, InsertRowKeeps
  <2>4. CASE \E t \in tasks : FlushStart(t) \/ FlushCols(t) \/ FlushMeta(t) \/ FlushFails(t)
    BY <2>4, FlushStartKeeps, FlushColsKeeps, FlushMetaKeeps, FlushFailsKeeps
  <2>5. CASE Rollback \/ Unregister \/ Purge \/ Crash
    BY <2>5, RollbackKeeps, UnregisterKeeps, PurgeKeeps, CrashKeeps
  <2>6. CASE UNCHANGED vars
    BY <2>6, StutterKeeps
  <2> QED
    BY <2>1, <2>2, <2>3, <2>4, <2>5, <2>6 DEF Next
<1> QED
  BY <1>1, <1>2, PTL DEF Spec

-------------------------------------------------------------------------------
\* write_rows: an acknowledged row is in the log, whatever the flushes, the
\* restarts and the drops do.
THEOREM WriteAheadTheorem == Spec => []WriteAhead
<1>1. TabletInv => WriteAhead
  BY DEF TabletInv, Sound, Logged, WriteAhead
<1> QED
  BY <1>1, TabletInvariant, PTL

\* drop_tablet: what was acknowledged before it is in the log, the MemTable
\* and the files no more.
THEOREM TruncatedGoneTheorem == Spec => []TruncatedGone
<1>1. TabletInv => TruncatedGone
  <2> DEFINE m == IF reg = 0 THEN {} ELSE writers[reg].mem
             c == UNION {cols[s] : s \in DOMAIN cols}
             d == UNION {meta[s] : s \in DOMAIN meta}
  <2> SUFFICES ASSUME TabletInv, ~raced, ~dropping
               PROVE  purged \cap (wal \cup m \cup c \cup d) = {}
    BY DEF TruncatedGone
  <2> SUFFICES ASSUME NEW r \in purged
               PROVE  r \notin wal /\ r \notin m /\ r \notin c /\ r \notin d
    OBVIOUS
  <2>1. /\ r \notin wal /\ r \notin m
        /\ \A s \in DOMAIN cols : r \notin cols[s]
        /\ \A s \in DOMAIN meta : r \notin meta[s]
    BY DEF TabletInv, Sound, Gone, MemRows
  <2>2. r \notin c
    BY <2>1
  <2>3. r \notin d
    BY <2>1
  <2> QED
    BY <2>1, <2>2, <2>3
<1> QED
  BY <1>1, TabletInvariant, PTL

\* The places of an acknowledged row.
LEMMA TabletOnePlace ==
  ASSUME TabletInv, ~raced, reg # 0, NEW r \in Acked, r \notin purged
  PROVE  \E p \in PlacesOf(r) : PlacesOf(r) = {p}
<1> DEFINE T == {<<"snapshot", t>> : t \in {u \in tasks : r \in u.rows}}
           S == {<<"sstable", s>> : s \in {u \in writers[reg].levels : r \in u.rows}}
           M == IF r \in writers[reg].mem THEN {<<"memtable", r>>} ELSE {}
           F == IF r \in failed THEN {<<"failed", r>>} ELSE {}
<1>1. Places /\ MemRows = writers[reg].mem /\ Levels = writers[reg].levels
  BY SMTT(30) DEF TabletInv, Sound, MemRows, Levels
<1>2. /\ T # {} => S = {} /\ M = {} /\ F = {}
      /\ S # {} => M = {} /\ F = {}
      /\ M # {} => F = {}
  BY <1>1 DEF Places
<1>3. T # {} \/ S # {} \/ M # {} \/ F # {}
  <2>1. \/ r \in MemRows \/ r \in failed
        \/ \E t \in tasks : r \in t.rows
        \/ \E s \in Levels : r \in s.rows
    BY <1>1 DEF Places
  <2> QED
    BY <1>1, <2>1, ZenonT(30)
<1>4. \A x, y \in T : x = y
  BY <1>1 DEF Places
<1>5. \A x, y \in S : x = y
  BY <1>1 DEF Places
<1>6. PlacesOf(r) = T \cup S \cup M \cup F
  BY DEF PlacesOf
<1>7. \A x, y \in M : x = y
  OBVIOUS
<1>8. \A x, y \in F : x = y
  OBVIOUS
<1> HIDE DEF T, S, M, F
<1> QED
  BY <1>2, <1>3, <1>4, <1>5, <1>6, <1>7, <1>8

\* The types of Tablet.
LEMMA TabletTypes ==
  ASSUME TabletInv
  PROVE  TypeOK
<1>1. WritersOK /\ CallsOK /\ TasksOK /\ BoundOK /\ DiskOK /\ FlagsOK
  BY DEF TabletInv, Types
<1>2. ASSUME NEW i \in 1 .. Len(writers)
      PROVE  LET w == writers[i] IN
             /\ w.mem \subseteq Rows /\ w.tombs \in 0 .. MaxRollbacks /\ w.epoch \in 0 .. epoch
             /\ \A s \in w.levels : s.seq < w.next /\ s.rows \subseteq Rows
  <2>1. writers[i] \in Writer
    BY <1>1, <1>2 DEF WritersOK
  <2>2. /\ writers[i].tombs <= bound["rollback"] /\ writers[i].epoch <= epoch
        /\ \A s \in writers[i].levels : s.seq < writers[i].next
    BY <1>1, <1>2 DEF WritersOK
  <2>3. bound["rollback"] \in Nat /\ bound["rollback"] <= MaxRollbacks /\ epoch \in Nat
    BY <1>1, BoundsFacts DEF BoundOK, DiskOK
  <2> QED
    BY <2>1, <2>2, <2>3, WriterFields, BoundsFacts
<1>3. calls \in [Rows -> [pc : {"new", "writer", "logged", "acked", "lost"}, writer : 0 .. Len(writers)]]
  <2>1. Len(writers) \in Nat
    BY <1>1 DEF WritersOK
  <2> QED
    BY <1>1, <2>1 DEF CallsOK, Call
<1>4. \A t \in tasks : t.writer \in 1 .. Len(writers) /\ t.pc \in {"spawned", "cols", "meta"}
  BY <1>1 DEF TasksOK, Task
<1>5. reg \in 0 .. Len(writers)
  BY <1>1 DEF WritersOK
<1> QED
  BY <1>1, <1>2, <1>3, <1>4, <1>5 DEF DiskOK, TypeOK

\* The write path and the flush tasks: an acknowledged row is in exactly one
\* place of the registered writer, and the SSTables it lists are on disk.
THEOREM RowsInPlaceTheorem == Spec => []RowsInPlace
<1>1. TabletInv => TypeOK
  BY TabletTypes
<1>2. TabletInv => OnePlace
  BY TabletOnePlace DEF OnePlace
<1>3. TabletInv => LevelsOnDisk
  BY DEF TabletInv, Sound, Numbers, Levels, LevelsOnDisk
<1> QED
  BY <1>1, <1>2, <1>3, TabletInvariant, PTL DEF RowsInPlace
==============================================================================
