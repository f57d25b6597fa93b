------------------------------ MODULE WalProofs ------------------------------
(***************************************************************************)
(* The write-ahead log, for every set of entries, every segment size and   *)
(* every number of faults: AckedReplayed, ReplayGrows, and the order of    *)
(* the records in the segments.                                            *)
(*                                                                         *)
(* An entry goes from group_buf to a flusher's batch, to the BufWriter and *)
(* to the file.  Waking says where the entries are that a flusher will     *)
(* acknowledge, and that they are stored when it does; Pending, that an    *)
(* entry still to be written is with one party and its caller waits.  So   *)
(* a record written later is of a caller not yet answered, which is what   *)
(* keeps the segments in order (FilesInOrder, BufInOrder, WaitingInOrder). *)
(***************************************************************************)
EXTENDS Wal, WellFoundedInduction, TLAPS

\* The records in the segment files, readable or not.
Stored == UNION {Range(files[s]) : s \in DOMAIN files}

\* Where an acknowledged entry is, or why it need not be anywhere.
Safe == Stored \cup errored \cup truncated

CallsOK ==
  /\ status \in [Entries -> {"new", "waiting", "acked", "crashed"}]
  /\ before \in [Entries -> SUBSET Entries]
  /\ group_buf \in Seq(Entries)

FlushersOK ==
  /\ fpc \in [Flushers -> {"idle", "lock", "write", "notify", "final"}]
  /\ batch \in [Flushers -> Seq(Entries)]
  /\ wake \in [Flushers -> SUBSET Entries]

\* The current segment is the latest.
LogOK ==
  /\ files = [s \in DOMAIN files |-> files[s]]
  /\ DOMAIN files \subseteq Nat
  /\ \A s \in DOMAIN files : files[s] \in Seq(Record)
  /\ cur \in DOMAIN files
  /\ \A s \in DOMAIN files : s <= cur
  /\ size \in Nat
  /\ buf \in Seq(Record)

OneWriter == \A f, g \in Flushers : fpc[f] = "write" /\ fpc[g] = "write" => f = g

\* The entries a flusher will notify: first in its batch, then on their way
\* through the BufWriter, at last in the files.
Waking ==
  \A f \in Flushers :
    /\ fpc[f] = "lock" => wake[f] \subseteq Range(batch[f])
    /\ fpc[f] = "write" => wake[f] \subseteq Range(batch[f]) \cup Range(buf) \cup Safe
    /\ fpc[f] = "notify" => wake[f] \subseteq Safe

AckedSafe == Acked \subseteq Safe

\* An entry is with one flusher or in group_buf, and its caller waits.
Pending ==
  /\ \A f \in Flushers : /\ Range(batch[f]) \subseteq wake[f]
                         /\ fpc[f] \notin {"lock", "write"} => batch[f] = <<>>
                         /\ fpc[f] \in {"idle", "final"} => wake[f] = {}
                         /\ wake[f] \cap Range(group_buf) = {}
                         /\ \A e \in wake[f] : status[e] = "waiting"
  /\ \A f, g \in Flushers : f # g => wake[f] \cap wake[g] = {}
  /\ \A e \in Range(group_buf) : status[e] = "waiting"

\* The callers that had been answered when another began; a new entry is not
\* in the log.
Callers ==
  /\ \A e \in Entries : before[e] \subseteq Acked
  /\ \A e \in Entries \cap (Stored \cup Range(buf)) : status[e] # "new"

\* One record may be in the log before another.
Placed(b, x, y) == x \in Entries /\ y \in Entries => x # y /\ y \notin b[x]
InOrder(b, q) == \A i, j \in DOMAIN q : i < j => Placed(b, q[i], q[j])
AllBefore(b, S, T) == \A x \in S, y \in T : Placed(b, x, y)

\* No entry is twice in the files, and none is before another that was
\* acknowledged when it was appended; and so it stays when the BufWriter, the
\* batches and group_buf are written.
FilesInOrder ==
  /\ \A s \in DOMAIN files : InOrder(before, files[s])
  /\ \A s, t \in DOMAIN files : s < t => AllBefore(before, Range(files[s]), Range(files[t]))

BufInOrder ==
  InOrder(before, buf) /\ AllBefore(before, Stored, Range(buf))

WaitingInOrder ==
  /\ \A f \in Flushers : /\ InOrder(before, batch[f])
                         /\ AllBefore(before, Stored \cup Range(buf), Range(batch[f]))
  /\ InOrder(before, group_buf)
  /\ AllBefore(before, Stored \cup Range(buf), Range(group_buf))

WalInv ==
  /\ CallsOK /\ FlushersOK /\ LogOK
  /\ OneWriter /\ Waking /\ AckedSafe
  /\ Pending /\ Callers
  /\ FilesInOrder /\ BufInOrder /\ WaitingInOrder
-----------------------------------------------------------------------------
\* A non-empty set of natural numbers has a least element.
LEMMA LeastNat ==
  ASSUME NEW T \in SUBSET Nat, T # {}
  PROVE  \E n \in T : \A m \in T : n <= m
<1> DEFINE R == OpToRel(<, Nat)
<1>1. IsWellFoundedOn(R, Nat)
  BY NatLessThanWellFounded, Zenon
<1>2. \A x, y \in Nat : x < y => <<x, y>> \in R
  BY DEF OpToRel
<1> HIDE DEF R
<1>3. PICK n \in T : \A m \in T : ~ (<<m, n>> \in R)
  BY <1>1, WFMin, ZenonT(30)
<1>4. ASSUME NEW m \in T PROVE n <= m
  <2>1. n \in Nat /\ m \in Nat
    OBVIOUS
  <2>2. ~ (m < n)
    BY <1>2, <1>3, <2>1, ZenonT(30)
  <2> QED
    BY <2>1, <2>2
<1> QED
  BY <1>4

\* The records replay_segment returns are those with no torn record up to them.
LEMMA ReplaySegmentFacts ==
  ASSUME NEW r \in Seq(Record)
  PROVE  Range(ReplaySegment(r)) =
           {r[i] : i \in {k \in DOMAIN r : \A j \in 1 .. k : r[j] # Torn}}
<1> DEFINE Whole(k) == \A j \in 1 .. k : r[j] # Torn
           P(k) == Whole(k) /\ (k < Len(r) => r[k + 1] = Torn)
           I == {i \in 1 .. Len(r) : r[i] = Torn}
<1>1. DOMAIN r = 1 .. Len(r) /\ Len(r) \in Nat
  OBVIOUS
<1>2. \E k \in 0 .. Len(r) : P(k)
  <2>1. CASE I = {}
    <3>1. Len(r) \in 0 .. Len(r) /\ P(Len(r))
      BY <1>1, <2>1
    <3> QED
      BY <3>1
  <2>2. CASE I # {}
    <3>1. I \in SUBSET Nat
      BY <1>1
    <3>2. PICK n \in I : \A m \in I : n <= m
      BY <2>2, <3>1, LeastNat, ZenonT(30)
    <3>3. n - 1 \in 0 .. Len(r) /\ (n - 1) + 1 = n /\ r[n] = Torn
      BY <1>1, <3>2
    <3>4. Whole(n - 1)
      BY <1>1, <3>2
    <3> QED
      BY <3>3, <3>4, ZenonT(30)
  <2> QED
    BY <2>1, <2>2
<1>3. PICK last \in 0 .. Len(r) : P(last) /\ ReplaySegment(r) = SubSeq(r, 1, last)
  BY <1>2, ZenonT(30) DEF ReplaySegment
<1>4. /\ DOMAIN SubSeq(r, 1, last) = 1 .. last
      /\ \A i \in 1 .. last : SubSeq(r, 1, last)[i] = r[i]
  BY <1>1
<1>5. {k \in DOMAIN r : Whole(k)} = 1 .. last
  <2>1. ASSUME NEW k \in 1 .. last PROVE k \in DOMAIN r /\ Whole(k)
    BY <1>1, <1>3
  <2>2. ASSUME NEW k \in DOMAIN r, Whole(k) PROVE k \in 1 .. last
    BY <1>1, <1>3, <2>2
  <2> QED
    BY <2>1, <2>2
<1>6. Range(ReplaySegment(r)) = {r[i] : i \in 1 .. last}
  BY <1>3, <1>4, ZenonT(30) DEF Range
<1> QED
  BY <1>5, <1>6

\* What is appended to a segment hides nothing that was readable.
LEMMA ReplayExtends ==
  ASSUME NEW r \in Seq(Record), NEW x \in Seq(Record)
  PROVE  Range(ReplaySegment(r)) \subseteq Range(ReplaySegment(r \o x))
<1>1. r \o x \in Seq(Record) /\ DOMAIN r = 1 .. Len(r) /\ Len(r) \in Nat
  OBVIOUS
<1>2. DOMAIN (r \o x) = 1 .. Len(r) + Len(x) /\ Len(x) \in Nat
  OBVIOUS
<1>3. \A i \in 1 .. Len(r) : (r \o x)[i] = r[i]
  OBVIOUS
<1>4. ASSUME NEW k \in DOMAIN r, \A j \in 1 .. k : r[j] # Torn
      PROVE  k \in DOMAIN (r \o x) /\ (\A j \in 1 .. k : (r \o x)[j] # Torn) /\ (r \o x)[k] = r[k]
  BY <1>1, <1>2, <1>3, <1>4
<1>5. Range(ReplaySegment(r)) = {r[i] : i \in {k \in DOMAIN r : \A j \in 1 .. k : r[j] # Torn}}
  BY ReplaySegmentFacts
<1>6. Range(ReplaySegment(r \o x)) =
        {(r \o x)[i] : i \in {k \in DOMAIN (r \o x) : \A j \in 1 .. k : (r \o x)[j] # Torn}}
  BY <1>1, ReplaySegmentFacts, ZenonT(30)
<1>7. ASSUME NEW k \in DOMAIN r, \A j \in 1 .. k : r[j] # Torn
      PROVE  r[k] \in Range(ReplaySegment(r \o x))
  BY <1>4, <1>6, <1>7
<1> QED
  BY <1>5, <1>7

\* The records of joined sequences.
LEMMA JoinFacts ==
  ASSUME NEW S, NEW r \in Seq(S), NEW x \in Seq(S)
  PROVE  r \o x \in Seq(S) /\ Range(r \o x) = Range(r) \cup Range(x)
<1>1. DOMAIN r = 1 .. Len(r) /\ Len(r) \in Nat /\ DOMAIN x = 1 .. Len(x) /\ Len(x) \in Nat
  OBVIOUS
<1>2. DOMAIN (r \o x) = 1 .. Len(r) + Len(x)
  OBVIOUS
<1>3. \A i \in 1 .. Len(r) : (r \o x)[i] = r[i]
  OBVIOUS
<1>4. \A i \in 1 .. Len(x) : (r \o x)[Len(r) + i] = x[i]
  OBVIOUS
<1>5. ASSUME NEW i \in DOMAIN (r \o x) PROVE (r \o x)[i] \in Range(r) \cup Range(x)
  <2>1. CASE i <= Len(r)
    BY <1>1, <1>2, <1>3, <2>1 DEF Range
  <2>2. CASE i > Len(r)
    <3>1. i - Len(r) \in 1 .. Len(x) /\ Len(r) + (i - Len(r)) = i
      BY <1>1, <1>2, <2>2
    <3> QED
      BY <1>1, <1>4, <3>1 DEF Range
  <2> QED
    BY <1>1, <1>2, <2>1, <2>2
<1>6. ASSUME NEW i \in DOMAIN r PROVE r[i] \in Range(r \o x)
  BY <1>1, <1>2, <1>3 DEF Range
<1>7. ASSUME NEW i \in DOMAIN x PROVE x[i] \in Range(r \o x)
  <2>1. Len(r) + i \in DOMAIN (r \o x)
    BY <1>1, <1>2
  <2> QED
    BY <1>1, <1>4, <2>1 DEF Range
<1>8. Range(r \o x) \subseteq Range(r) \cup Range(x)
  BY <1>5 DEF Range
<1>9. Range(r) \subseteq Range(r \o x)
  BY <1>6 DEF Range
<1>10. Range(x) \subseteq Range(r \o x)
  BY <1>7 DEF Range
<1> QED
  BY <1>8, <1>9, <1>10

\* The records of a sequence and one more.
LEMMA AppendFacts ==
  ASSUME NEW S, NEW r \in Seq(S), NEW a \in S
  PROVE  Append(r, a) \in Seq(S) /\ Range(Append(r, a)) = Range(r) \cup {a}
<1>1. DOMAIN r = 1 .. Len(r) /\ Len(r) \in Nat
  OBVIOUS
<1>2. DOMAIN Append(r, a) = 1 .. Len(r) + 1
  OBVIOUS
<1>3. \A i \in 1 .. Len(r) : Append(r, a)[i] = r[i]
  OBVIOUS
<1>4. Append(r, a)[Len(r) + 1] = a
  OBVIOUS
<1> QED
  BY <1>1, <1>2, <1>3, <1>4 DEF Range

\* The records of a sequence without its first.
LEMMA TailFacts ==
  ASSUME NEW S, NEW r \in Seq(S), r # <<>>
  PROVE  /\ Head(r) \in S /\ Tail(r) \in Seq(S)
         /\ Range(r) = {Head(r)} \cup Range(Tail(r))
<1>1. DOMAIN r = 1 .. Len(r) /\ Len(r) \in Nat /\ Len(r) > 0
  OBVIOUS
<1>2. DOMAIN Tail(r) = 1 .. Len(r) - 1
  OBVIOUS
<1>3. \A i \in 1 .. Len(r) - 1 : Tail(r)[i] = r[i + 1]
  OBVIOUS
<1>4. Head(r) = r[1]
  OBVIOUS
<1>5. ASSUME NEW i \in DOMAIN r PROVE r[i] \in {Head(r)} \cup Range(Tail(r))
  <2>1. CASE i = 1
    BY <1>4, <2>1
  <2>2. CASE i # 1
    <3>1. i - 1 \in DOMAIN Tail(r) /\ (i - 1) + 1 = i
      BY <1>1, <1>2, <2>2
    <3> QED
      BY <1>2, <1>3, <3>1 DEF Range
  <2> QED
    BY <2>1, <2>2
<1>6. ASSUME NEW i \in DOMAIN Tail(r) PROVE Tail(r)[i] \in Range(r)
  BY <1>1, <1>2, <1>3 DEF Range
<1>7. Head(r) \in Range(r)
  BY <1>1, <1>4 DEF Range
<1>8. Range(r) \subseteq {Head(r)} \cup Range(Tail(r))
  BY <1>5 DEF Range
<1>9. Range(Tail(r)) \subseteq Range(r)
  BY <1>6 DEF Range
<1> QED
  BY <1>1, <1>4, <1>7, <1>8, <1>9

\* A sequence cut in two.
LEMMA CutFacts ==
  ASSUME NEW S, NEW r \in Seq(S), NEW k \in 0 .. Len(r)
  PROVE  /\ SubSeq(r, 1, k) \in Seq(S)
         /\ SubSeq(r, k + 1, Len(r)) \in Seq(S)
         /\ Range(r) = Range(SubSeq(r, 1, k)) \cup Range(SubSeq(r, k + 1, Len(r)))
<1>1. DOMAIN r = 1 .. Len(r) /\ Len(r) \in Nat /\ k \in Nat /\ k <= Len(r)
  OBVIOUS
<1>2. /\ SubSeq(r, 1, k) \in Seq(S)
      /\ DOMAIN SubSeq(r, 1, k) = 1 .. k
      /\ \A i \in 1 .. k : SubSeq(r, 1, k)[i] = r[i]
  BY <1>1
<1>3. /\ SubSeq(r, k + 1, Len(r)) \in Seq(S)
      /\ DOMAIN SubSeq(r, k + 1, Len(r)) = 1 .. Len(r) - k
      /\ \A i \in 1 .. Len(r) - k : SubSeq(r, k + 1, Len(r))[i] = r[k + i]
  BY <1>1
<1>4. ASSUME NEW i \in DOMAIN r
      PROVE  r[i] \in Range(SubSeq(r, 1, k)) \cup Range(SubSeq(r, k + 1, Len(r)))
  <2>1. CASE i <= k
    BY <1>1, <1>2, <2>1 DEF Range
  <2>2. CASE i > k
    <3>1. i - k \in 1 .. Len(r) - k /\ k + (i - k) = i
      BY <1>1, <2>2
    <3> QED
      BY <1>3, <3>1 DEF Range
  <2> QED
    BY <1>1, <2>1, <2>2
<1>5. ASSUME NEW i \in 1 .. k PROVE SubSeq(r, 1, k)[i] \in Range(r)
  BY <1>1, <1>2 DEF Range
<1>6. ASSUME NEW i \in 1 .. Len(r) - k PROVE SubSeq(r, k + 1, Len(r))[i] \in Range(r)
  <2>1. k + i \in DOMAIN r
    BY <1>1
  <2> QED
    BY <1>3, <2>1 DEF Range
<1> QED
  BY <1>2, <1>3, <1>4, <1>5, <1>6, SMTT(30) DEF Range

\* Joining two ordered sequences, one all before the other.
LEMMA OrderJoin ==
  ASSUME NEW b, NEW S, NEW r \in Seq(S), NEW x \in Seq(S),
         InOrder(b, r), InOrder(b, x), AllBefore(b, Range(r), Range(x))
  PROVE  InOrder(b, r \o x)
<1>1. DOMAIN r = 1 .. Len(r) /\ Len(r) \in Nat /\ DOMAIN x = 1 .. Len(x) /\ Len(x) \in Nat
  OBVIOUS
<1>2. DOMAIN (r \o x) = 1 .. Len(r) + Len(x)
  OBVIOUS
<1>3. \A i \in 1 .. Len(r) : (r \o x)[i] = r[i]
  OBVIOUS
<1>4. \A i \in 1 .. Len(r) + Len(x) : i > Len(r) => (r \o x)[i] = x[i - Len(r)]
  OBVIOUS
<1>5. SUFFICES ASSUME NEW i \in DOMAIN (r \o x), NEW j \in DOMAIN (r \o x), i < j
               PROVE  Placed(b, (r \o x)[i], (r \o x)[j])
  BY DEF InOrder
<1>6. CASE j <= Len(r)
  <2>1. i \in DOMAIN r /\ j \in DOMAIN r
    BY <1>1, <1>2, <1>5, <1>6
  <2> QED
    BY <1>1, <1>3, <1>5, <2>1 DEF InOrder
<1>7. CASE i > Len(r)
  <2>1. i - Len(r) \in DOMAIN x /\ j - Len(r) \in DOMAIN x /\ i - Len(r) < j - Len(r) /\ j > Len(r)
    BY <1>1, <1>2, <1>5, <1>7
  <2> QED
    BY <1>2, <1>4, <1>7, <2>1 DEF InOrder
<1>8. CASE i <= Len(r) /\ j > Len(r)
  <2>1. i \in DOMAIN r /\ j - Len(r) \in DOMAIN x
    BY <1>1, <1>2, <1>8
  <2>2. r[i] \in Range(r) /\ x[j - Len(r)] \in Range(x)
    BY <2>1 DEF Range
  <2> QED
    BY <1>1, <1>2, <1>3, <1>4, <1>8, <2>1, <2>2 DEF AllBefore
<1> QED
  BY <1>1, <1>2, <1>6, <1>7, <1>8

\* One more record, all the others before it.
LEMMA OrderAppend ==
  ASSUME NEW b, NEW S, NEW r \in Seq(S), NEW a \in S,
         InOrder(b, r), AllBefore(b, Range(r), {a})
  PROVE  InOrder(b, Append(r, a))
<1>1. DOMAIN r = 1 .. Len(r) /\ Len(r) \in Nat
  OBVIOUS
<1>2. DOMAIN Append(r, a) = 1 .. Len(r) + 1
  OBVIOUS
<1>3. \A i \in 1 .. Len(r) : Append(r, a)[i] = r[i]
  OBVIOUS
<1>4. Append(r, a)[Len(r) + 1] = a
  OBVIOUS
<1>5. SUFFICES ASSUME NEW i \in DOMAIN Append(r, a), NEW j \in DOMAIN Append(r, a), i < j
               PROVE  Placed(b, Append(r, a)[i], Append(r, a)[j])
  BY DEF InOrder
<1>6. i \in DOMAIN r /\ Append(r, a)[i] = r[i] /\ r[i] \in Range(r)
  BY <1>1, <1>2, <1>3, <1>5 DEF Range
<1>7. CASE j \in DOMAIN r
  BY <1>1, <1>3, <1>5, <1>6, <1>7 DEF InOrder
<1>8. CASE j = Len(r) + 1
  BY <1>4, <1>6, <1>8 DEF AllBefore
<1> QED
  BY <1>1, <1>2, <1>7, <1>8

\* The first record is before the others, which keep their order.
LEMMA OrderTail ==
  ASSUME NEW b, NEW S, NEW r \in Seq(S), r # <<>>, InOrder(b, r)
  PROVE  InOrder(b, Tail(r)) /\ AllBefore(b, {Head(r)}, Range(Tail(r)))
<1>1. DOMAIN r = 1 .. Len(r) /\ Len(r) \in Nat /\ Len(r) > 0
  OBVIOUS
<1>2. DOMAIN Tail(r) = 1 .. Len(r) - 1
  OBVIOUS
<1>3. \A i \in 1 .. Len(r) - 1 : Tail(r)[i] = r[i + 1]
  OBVIOUS
<1>4. Head(r) = r[1]
  OBVIOUS
<1>5. ASSUME NEW i \in DOMAIN Tail(r), NEW j \in DOMAIN Tail(r), i < j
      PROVE  Placed(b, Tail(r)[i], Tail(r)[j])
  <2>1. i + 1 \in DOMAIN r /\ j + 1 \in DOMAIN r /\ i + 1 < j + 1
    BY <1>1, <1>2, <1>5
  <2> QED
    BY <1>2, <1>3, <2>1 DEF InOrder
<1>6. ASSUME NEW j \in DOMAIN Tail(r) PROVE Placed(b, Head(r), Tail(r)[j])
  <2>1. 1 \in DOMAIN r /\ j + 1 \in DOMAIN r /\ 1 < j + 1
    BY <1>1, <1>2
  <2> QED
    BY <1>2, <1>3, <1>4, <2>1 DEF InOrder
<1>7. InOrder(b, Tail(r))
  BY <1>5 DEF InOrder
<1>8. AllBefore(b, {Head(r)}, Range(Tail(r)))
  BY <1>6 DEF AllBefore, Range
<1> QED
  BY <1>7, <1>8

\* Both parts of an ordered sequence are ordered, and the first is all before
\* the second.
LEMMA OrderCut ==
  ASSUME NEW b, NEW S, NEW r \in Seq(S), NEW k \in 0 .. Len(r), InOrder(b, r)
  PROVE  /\ InOrder(b, SubSeq(r, 1, k))
         /\ InOrder(b, SubSeq(r, k + 1, Len(r)))
         /\ AllBefore(b, Range(SubSeq(r, 1, k)), Range(SubSeq(r, k + 1, Len(r))))
<1> DEFINE p == SubSeq(r, 1, k)
           q == SubSeq(r, k + 1, Len(r))
<1>1. DOMAIN r = 1 .. Len(r) /\ Len(r) \in Nat /\ k \in Nat /\ k <= Len(r)
  OBVIOUS
<1>2. DOMAIN p = 1 .. k /\ \A i \in 1 .. k : p[i] = r[i]
  BY <1>1
<1>3. DOMAIN q = 1 .. Len(r) - k /\ \A i \in 1 .. Len(r) - k : q[i] = r[k + i]
  BY <1>1
<1> HIDE DEF p, q
<1>4. ASSUME NEW i \in DOMAIN p, NEW j \in DOMAIN p, i < j PROVE Placed(b, p[i], p[j])
  <2>1. i \in DOMAIN r /\ j \in DOMAIN r
    BY <1>1, <1>2
  <2> QED
    BY <1>2, <1>4, <2>1 DEF InOrder
<1>5. ASSUME NEW i \in DOMAIN q, NEW j \in DOMAIN q, i < j PROVE Placed(b, q[i], q[j])
  <2>1. k + i \in DOMAIN r /\ k + j \in DOMAIN r /\ k + i < k + j
    BY <1>1, <1>3, <1>5
  <2> QED
    BY <1>3, <2>1 DEF InOrder
<1>6. ASSUME NEW i \in DOMAIN p, NEW j \in DOMAIN q PROVE Placed(b, p[i], q[j])
  <2>1. i \in DOMAIN r /\ k + j \in DOMAIN r /\ i < k + j
    BY <1>1, <1>2, <1>3
  <2> QED
    BY <1>2, <1>3, <2>1 DEF InOrder
<1>7. InOrder(b, p) /\ InOrder(b, q)
  BY <1>4, <1>5 DEF InOrder
<1>8. AllBefore(b, Range(p), Range(q))
  BY <1>6 DEF AllBefore, Range
<1> QED
  BY <1>7, <1>8 DEF p, q

\* Bytes that are not a whole record are in nobody's order.
LEMMA OrderTorn ==
  ASSUME NEW b, NEW S
  PROVE  /\ <<Torn>> \in Seq(Record) /\ Range(<<Torn>>) = {Torn}
         /\ InOrder(b, <<Torn>>) /\ AllBefore(b, S, {Torn})
<1>1. <<Torn>> \in Seq(Record) /\ Range(<<Torn>>) = {Torn}
  BY DEF Record, Range
<1>2. InOrder(b, <<Torn>>)
  BY DEF InOrder
<1>3. AllBefore(b, S, {Torn})
  BY BoundsAssumption DEF AllBefore, Placed
<1> QED
  BY <1>1, <1>2, <1>3

\* Nothing is in order, and before anything.
LEMMA OrderNone ==
  ASSUME NEW b, NEW S
  PROVE  /\ <<>> \in Seq(S) /\ Range(<<>>) = {} /\ InOrder(b, <<>>)
         /\ AllBefore(b, S, {}) /\ AllBefore(b, {}, S)
BY DEF Range, InOrder, AllBefore

\* Parts and unions of what is all before something.
LEMMA BeforeParts ==
  ASSUME NEW b, NEW S, NEW T, NEW U
  PROVE  /\ AllBefore(b, S \cup T, U) <=> AllBefore(b, S, U) /\ AllBefore(b, T, U)
         /\ AllBefore(b, U, S \cup T) <=> AllBefore(b, U, S) /\ AllBefore(b, U, T)
         /\ T \subseteq S /\ AllBefore(b, S, U) => AllBefore(b, T, U)
         /\ T \subseteq S /\ AllBefore(b, U, S) => AllBefore(b, U, T)
BY Zenon DEF AllBefore
-----------------------------------------------------------------------------
\* Records go to the end of the current segment, and the next segment may be
\* created: nothing stored moves or becomes unreadable, and the files stay in
\* order if the records are in order behind all that is stored.
LEMMA FilesGrow ==
  ASSUME LogOK, NEW x \in Seq(Record), NEW more \in SUBSET {cur + 1},
         DOMAIN files' = DOMAIN files \cup more,
         files'[cur] = files[cur] \o x,
         \A s \in DOMAIN files : s # cur => files'[s] = files[s],
         \A s \in more : files'[s] = <<>>
  PROVE  /\ \A s \in DOMAIN files' : files'[s] \in Seq(Record)
         /\ Stored' = Stored \cup Range(x)
         /\ Replayed \subseteq Replayed'
         /\ FilesInOrder /\ InOrder(before, x) /\ AllBefore(before, Stored, Range(x)) /\ before' = before
              => FilesInOrder'
<1>2. /\ cur \in DOMAIN files
      /\ \A s \in DOMAIN files : files[s] \in Seq(Record) /\ s \in Nat /\ s <= cur
      /\ cur \in Nat
      /\ \A s \in more : s = cur + 1 /\ s \notin DOMAIN files
  BY DEF LogOK
<1>3. files[cur] \o x \in Seq(Record) /\ Range(files[cur] \o x) = Range(files[cur]) \cup Range(x)
  BY <1>2, JoinFacts
<1>4. \A s \in DOMAIN files' : files'[s] \in Seq(Record)
  <2>1. \A s \in more : files'[s] \in Seq(Record)
    BY OrderNone, ZenonT(30)
  <2>2. \A s \in DOMAIN files : files'[s] \in Seq(Record)
    BY <1>2, <1>3, ZenonT(30)
  <2> QED
    BY <2>1, <2>2, ZenonT(30)
<1>5. /\ Range(files'[cur]) = Range(files[cur]) \cup Range(x)
      /\ \A s \in DOMAIN files : s # cur => Range(files'[s]) = Range(files[s])
      /\ \A s \in more : Range(files'[s]) = {}
  BY <1>3, OrderNone
<1>6. Stored' = Stored \cup Range(x)
  <2>1. Stored' = UNION {Range(files'[s]) : s \in DOMAIN files \cup more}
    BY DEF Stored
  <2>2. ASSUME NEW e \in Stored' PROVE e \in Stored \cup Range(x)
    <3>1. PICK s \in DOMAIN files \cup more : e \in Range(files'[s])
      BY <2>1, <2>2
    <3>2. s \in DOMAIN files /\ e \in Range(files[s]) \cup Range(x)
      BY <1>5, <3>1, ZenonT(30)
    <3> QED
      BY <3>2 DEF Stored
  <2>3. ASSUME NEW e \in Stored PROVE e \in Stored'
    <3>1. PICK s \in DOMAIN files : e \in Range(files[s])
      BY <2>3 DEF Stored
    <3>2. e \in Range(files'[s])
      BY <1>5, <3>1, ZenonT(30)
    <3> QED
      BY <2>1, <3>2
  <2>4. ASSUME NEW e \in Range(x) PROVE e \in Stored'
    BY <1>2, <1>5, <2>1, ZenonT(30)
  <2> QED
    BY <2>2, <2>3, <2>4
<1>7. Replayed \subseteq Replayed'
  <2>1. Range(ReplaySegment(files[cur])) \subseteq Range(ReplaySegment(files[cur] \o x))
    BY <1>2, ReplayExtends
  <2>2. \A s \in DOMAIN files : Range(ReplaySegment(files[s])) \subseteq Range(ReplaySegment(files'[s]))
    BY <2>1, ZenonT(30)
  <2>3. Replayed' = UNION {Range(ReplaySegment(files'[s])) : s \in DOMAIN files \cup more}
    BY DEF Replayed
  <2> QED
    BY <2>2, <2>3 DEF Replayed
<1>8. ASSUME FilesInOrder, InOrder(before, x), AllBefore(before, Stored, Range(x)), before' = before
      PROVE  FilesInOrder'
  <2>1. \A s \in DOMAIN files : Range(files[s]) \subseteq Stored
    BY DEF Stored
  <2>2. \A s \in DOMAIN files : AllBefore(before, Range(files[s]), Range(x))
    BY <1>8, <2>1, BeforeParts
  <2>3. InOrder(before, files[cur] \o x)
    BY <1>2, <1>8, <2>2, OrderJoin DEF FilesInOrder
  <2>4. ASSUME NEW s \in DOMAIN files' PROVE InOrder(before, files'[s])
    BY <1>8, <2>3, OrderNone, ZenonT(30) DEF FilesInOrder
  <2>5. ASSUME NEW s \in DOMAIN files', NEW t \in DOMAIN files', s < t
        PROVE  AllBefore(before, Range(files'[s]), Range(files'[t]))
    <3>1. CASE t \in more
      <4>1. Range(files'[t]) = {}
        BY <1>5, <3>1
      <4> QED
        BY <4>1 DEF AllBefore
    <3>2. CASE t \in DOMAIN files
      <4>1. s \in DOMAIN files /\ s # cur
        <5>1. t \in Nat /\ t <= cur /\ cur \in Nat
          BY <1>2, <3>2
        <5>2. s \in more => s = cur + 1
          OBVIOUS
        <5>3. s \notin more /\ s # cur
          BY <2>5, <5>1, <5>2
        <5> QED
          BY <5>3
      <4>2. AllBefore(before, Range(files[s]), Range(files[t]))
        BY <1>8, <2>5, <3>2, <4>1 DEF FilesInOrder
      <4>3. CASE t = cur
        <5>1. AllBefore(before, Range(files[s]), Range(files[t]) \cup Range(x))
          BY <2>2, <4>1, <4>2, BeforeParts, ZenonT(30)
        <5> QED
          BY <1>5, <4>1, <4>3, <5>1, ZenonT(30)
      <4>4. CASE t # cur
        BY <1>5, <3>2, <4>1, <4>2, <4>4
      <4> QED
        BY <4>3, <4>4
    <3> QED
      BY <3>1, <3>2
  <2> QED
    BY <1>8, <2>4, <2>5 DEF FilesInOrder
<1> QED
  BY <1>4, <1>6, <1>7, <1>8

\* The BufWriter, or part of it, goes to the current segment.
LEMMA FilesExtend ==
  ASSUME LogOK, NEW x \in Seq(Record), files' = [files EXCEPT ![cur] = @ \o x]
  PROVE  /\ DOMAIN files' = DOMAIN files
         /\ files' = [s \in DOMAIN files' |-> files'[s]]
         /\ \A s \in DOMAIN files' : files'[s] \in Seq(Record)
         /\ Stored' = Stored \cup Range(x)
         /\ Replayed \subseteq Replayed'
         /\ FilesInOrder /\ InOrder(before, x) /\ AllBefore(before, Stored, Range(x)) /\ before' = before
              => FilesInOrder'
<1>1. /\ DOMAIN files' = DOMAIN files \cup {}
      /\ files' = [s \in DOMAIN files' |-> files'[s]]
      /\ files'[cur] = files[cur] \o x
      /\ \A s \in DOMAIN files : s # cur => files'[s] = files[s]
      /\ \A s \in {} : files'[s] = <<>>
  BY ZenonT(30) DEF LogOK
<1>2. {} \in SUBSET {cur + 1}
  OBVIOUS
<1> QED
  BY <1>1, <1>2, FilesGrow, ZenonT(30)
-----------------------------------------------------------------------------
\* append: the entry was nowhere, and goes behind all that wait.
LEMMA AppendKeeps ==
  ASSUME WalInv, NEW e \in Entries, AppendEntry(e)
  PROVE  WalInv'
<1>1. /\ CallsOK /\ FlushersOK /\ LogOK /\ OneWriter /\ Waking /\ AckedSafe
      /\ Pending /\ Callers /\ FilesInOrder /\ BufInOrder /\ WaitingInOrder
  BY DEF WalInv
<1>2. /\ status[e] = "new"
      /\ status' = [status EXCEPT ![e] = "waiting"]
      /\ group_buf' = Append(group_buf, e)
      /\ before' = [before EXCEPT ![e] = Acked]
      /\ UNCHANGED <<fpc, batch, wake, files, cur, size, buf, faults, errored, truncated>>
  BY DEF AppendEntry, Acked
<1>3. Stored' = Stored /\ Safe' = Safe
  BY <1>2 DEF Stored, Safe
<1>4. /\ e \notin Range(group_buf)
      /\ \A f \in Flushers : e \notin wake[f] /\ e \notin Range(batch[f])
      /\ e \notin Stored \cup Range(buf)
      /\ e \notin Acked
  BY <1>1, <1>2 DEF Pending, Callers, Acked, InState
<1>5. /\ \A x \in Entries : x # e => status'[x] = status[x] /\ before'[x] = before[x]
      /\ status'[e] = "waiting" /\ before'[e] = Acked
  BY <1>1, <1>2 DEF CallsOK
<1>6. Acked' = Acked
  BY <1>2, <1>5 DEF Acked, InState
<1>7. Range(group_buf') = Range(group_buf) \cup {e} /\ group_buf' \in Seq(Entries)
  BY <1>1, <1>2, AppendFacts DEF CallsOK
<1>8. CallsOK'
  BY <1>1, <1>2, <1>7 DEF CallsOK, Acked, InState
<1>9. FlushersOK' /\ LogOK' /\ OneWriter'
  BY <1>1, <1>2 DEF FlushersOK, LogOK, OneWriter
<1>10. Waking' /\ AckedSafe'
  BY <1>1, <1>2, <1>3, <1>6 DEF Waking, AckedSafe
<1>11. Pending'
  <2>1. \A x \in Range(group_buf') : status'[x] = "waiting"
    <3>1. Range(group_buf) \subseteq Entries
      BY <1>1 DEF CallsOK, Range
    <3> QED
      BY <1>1, <1>4, <1>5, <1>7, <3>1 DEF Pending
  <2>2. \A f \in Flushers : \A x \in wake[f] : status'[x] = "waiting"
    BY <1>1, <1>4, <1>5 DEF Pending, FlushersOK
  <2>3. \A f \in Flushers : wake[f] \cap Range(group_buf') = {}
    BY <1>1, <1>4, <1>7 DEF Pending
  <2> QED
    BY <1>1, <1>2, <2>1, <2>2, <2>3 DEF Pending
<1>12. Callers'
  <2>1. \A x \in Entries : before'[x] \subseteq Acked
    BY <1>1, <1>5 DEF Callers
  <2>2. \A x \in Entries \cap (Stored \cup Range(buf)) : status'[x] # "new"
    BY <1>1, <1>4, <1>5 DEF Callers
  <2> QED
    BY <1>2, <1>3, <1>6, <2>1, <2>2 DEF Callers
<1>13. ASSUME NEW x, NEW y, x # e, Placed(before, x, y)
       PROVE  Placed(before', x, y)
  BY <1>5, <1>13 DEF Placed
<1>14. ASSUME NEW S, NEW T, e \notin S, AllBefore(before, S, T)
       PROVE  AllBefore(before', S, T)
  BY <1>13, <1>14, Zenon DEF AllBefore
<1>15. ASSUME NEW q, e \notin Range(q), InOrder(before, q)
       PROVE  InOrder(before', q)
  <2>1. \A i \in DOMAIN q : q[i] # e
    BY <1>15 DEF Range
  <2> QED
    BY <1>13, <1>15, <2>1 DEF InOrder
<1>16. ASSUME NEW S, e \notin S
       PROVE  AllBefore(before', S, {e})
  <2>1. ASSUME NEW x \in S PROVE Placed(before', x, e)
    BY <1>1, <1>4, <1>5, <1>16 DEF Placed, Callers
  <2> QED
    BY <2>1, Zenon DEF AllBefore
<1>17. \A s \in DOMAIN files : e \notin Range(files[s])
  BY <1>4 DEF Stored
<1>18. FilesInOrder'
  <2>1. \A s \in DOMAIN files : InOrder(before', files[s])
    BY <1>1, <1>15, <1>17 DEF FilesInOrder
  <2>2. \A s, t \in DOMAIN files : s < t => AllBefore(before', Range(files[s]), Range(files[t]))
    BY <1>1, <1>14, <1>17 DEF FilesInOrder
  <2> QED
    BY <1>2, <2>1, <2>2, ZenonT(30) DEF FilesInOrder
<1>19. BufInOrder'
  <2>1. InOrder(before', buf) /\ AllBefore(before', Stored, Range(buf))
    BY <1>1, <1>4, <1>14, <1>15 DEF BufInOrder
  <2> QED
    BY <1>2, <1>3, <2>1 DEF BufInOrder
<1>20. WaitingInOrder'
  <2>1. \A f \in Flushers : /\ InOrder(before', batch[f])
                             /\ AllBefore(before', Stored \cup Range(buf), Range(batch[f]))
    BY <1>1, <1>4, <1>14, <1>15, ZenonT(30) DEF WaitingInOrder
  <2>2. InOrder(before', group_buf) /\ AllBefore(before', Range(group_buf), {e})
    BY <1>1, <1>4, <1>15, <1>16 DEF WaitingInOrder
  <2>3. InOrder(before', group_buf')
    BY <1>1, <1>2, <2>2, OrderAppend DEF CallsOK
  <2>4. AllBefore(before', Stored \cup Range(buf), Range(group_buf))
    BY <1>1, <1>4, <1>14 DEF WaitingInOrder
  <2>5. AllBefore(before', Stored \cup Range(buf), {e})
    BY <1>4, <1>16
  <2>6. AllBefore(before', Stored \cup Range(buf), Range(group_buf'))
    BY <1>7, <2>4, <2>5, BeforeParts, ZenonT(30)
  <2> QED
    BY <1>2, <1>3, <2>1, <2>3, <2>6, ZenonT(30) DEF WaitingInOrder
<1> QED
  BY <1>8, <1>9, <1>10, <1>11, <1>12, <1>18, <1>19, <1>20 DEF WalInv

\* take_all: the batch is what was in group_buf.
LEMMA TakeKeeps ==
  ASSUME WalInv, NEW f \in Flushers, Take(f)
  PROVE  WalInv'
<1>1. /\ CallsOK /\ FlushersOK /\ LogOK /\ OneWriter /\ Waking /\ AckedSafe
      /\ Pending /\ Callers /\ FilesInOrder /\ BufInOrder /\ WaitingInOrder
  BY DEF WalInv
<1>2. /\ fpc[f] = "idle"
      /\ UNCHANGED <<status, files, cur, size, buf, faults, before, errored, truncated>>
  BY DEF Take
<1>3. Stored' = Stored /\ Safe' = Safe /\ Acked' = Acked
  BY <1>2 DEF Stored, Safe, Acked, InState
<1>4. LogOK' /\ AckedSafe' /\ Callers' /\ FilesInOrder' /\ BufInOrder'
  BY <1>1, <1>2, <1>3 DEF LogOK, AckedSafe, Callers, FilesInOrder, BufInOrder
<1>5. CASE /\ group_buf = <<>>
           /\ Goto(f, "final")
           /\ UNCHANGED <<group_buf, batch, wake>>
  <2>1. fpc' = [fpc EXCEPT ![f] = "final"]
    BY <1>5 DEF Goto
  <2>2. CallsOK' /\ FlushersOK' /\ OneWriter'
    BY <1>1, <1>2, <1>5, <2>1 DEF CallsOK, FlushersOK, OneWriter
  <2>3. Waking'
    BY <1>1, <1>2, <1>3, <1>5, <2>1 DEF Waking, FlushersOK
  <2>4. Pending'
    BY <1>1, <1>2, <1>5, <2>1 DEF Pending, FlushersOK
  <2>5. WaitingInOrder'
    BY <1>1, <1>2, <1>3, <1>5, ZenonT(30) DEF WaitingInOrder
  <2> QED
    BY <1>4, <2>2, <2>3, <2>4, <2>5 DEF WalInv
<1>6. CASE /\ batch' = [batch EXCEPT ![f] = group_buf]
           /\ wake' = [wake EXCEPT ![f] = Range(group_buf)]
           /\ group_buf' = <<>>
           /\ Goto(f, "lock")
  <2>1. fpc' = [fpc EXCEPT ![f] = "lock"]
    BY <1>6 DEF Goto
  <2>2. /\ batch'[f] = group_buf /\ wake'[f] = Range(group_buf) /\ fpc'[f] = "lock"
        /\ \A g \in Flushers : g # f => /\ batch'[g] = batch[g] /\ wake'[g] = wake[g]
                                        /\ fpc'[g] = fpc[g]
    BY <1>1, <1>6, <2>1 DEF FlushersOK
  <2>3. Range(group_buf) \subseteq Entries
    BY <1>1 DEF CallsOK, Range
  <2>4. CallsOK'
    BY <1>1, <1>2, <1>6 DEF CallsOK
  <2>5. FlushersOK'
    BY <1>1, <1>6, <2>1, <2>3 DEF FlushersOK, CallsOK
  <2>6. OneWriter'
    BY <1>1, <2>2 DEF OneWriter
  <2>7. Waking'
    BY <1>1, <1>2, <1>3, <2>2 DEF Waking
  <2>8. Range(group_buf') = {} /\ InOrder(before, group_buf')
    BY <1>6, OrderNone
  <2>9. Pending'
    <3>1. ASSUME NEW g \in Flushers
          PROVE  /\ Range(batch'[g]) \subseteq wake'[g]
                 /\ fpc'[g] \notin {"lock", "write"} => batch'[g] = <<>>
                 /\ fpc'[g] \in {"idle", "final"} => wake'[g] = {}
                 /\ \A e \in wake'[g] : status[e] = "waiting"
      BY <1>1, <2>2 DEF Pending
    <3>2. ASSUME NEW g \in Flushers, NEW h \in Flushers, g # h PROVE wake'[g] \cap wake'[h] = {}
      BY <1>1, <2>2, <3>2 DEF Pending
    <3> QED
      BY <1>2, <2>8, <3>1, <3>2 DEF Pending
  <2>10. WaitingInOrder'
    <3>1. AllBefore(before, Stored \cup Range(buf), Range(group_buf'))
      BY <2>8, OrderNone
    <3>2. \A g \in Flushers : /\ InOrder(before, batch'[g])
                               /\ AllBefore(before, Stored \cup Range(buf), Range(batch'[g]))
      BY <1>1, <2>2, ZenonT(30) DEF WaitingInOrder
    <3> QED
      BY <1>2, <1>3, <2>8, <3>1, <3>2, ZenonT(30) DEF WaitingInOrder
  <2> QED
    BY <1>4, <2>4, <2>5, <2>6, <2>7, <2>9, <2>10 DEF WalInv
<1> QED
  BY <1>5, <1>6 DEF Take

\* The segment lock is taken when no flusher is writing.
LEMMA LockKeeps ==
  ASSUME WalInv, NEW f \in Flushers, Lock(f)
  PROVE  WalInv'
<1>1. /\ CallsOK /\ FlushersOK /\ LogOK /\ OneWriter /\ Waking /\ AckedSafe
      /\ Pending /\ Callers /\ FilesInOrder /\ BufInOrder /\ WaitingInOrder
  BY DEF WalInv
<1>2. /\ fpc[f] = "lock" /\ fpc' = [fpc EXCEPT ![f] = "write"]
      /\ \A g \in Flushers : fpc[g] # "write"
      /\ UNCHANGED <<status, group_buf, batch, wake, files, cur, size, buf, faults, before, errored,
                     truncated>>
  BY DEF Lock, SegmentFree, Goto
<1>3. Stored' = Stored /\ Safe' = Safe /\ Acked' = Acked
  BY <1>2 DEF Stored, Safe, Acked, InState
<1>4. CallsOK' /\ LogOK' /\ AckedSafe' /\ Callers' /\ FilesInOrder' /\ BufInOrder' /\ WaitingInOrder'
  BY <1>1, <1>2, <1>3, ZenonT(30)
     DEF CallsOK, LogOK, AckedSafe, Callers, FilesInOrder, BufInOrder, WaitingInOrder
<1>5. FlushersOK' /\ OneWriter'
  BY <1>1, <1>2 DEF FlushersOK, OneWriter
<1>6. Waking'
  BY <1>1, <1>2, <1>3 DEF Waking, FlushersOK
<1>7. Pending'
  BY <1>1, <1>2 DEF Pending, FlushersOK
<1> QED
  BY <1>4, <1>5, <1>6, <1>7 DEF WalInv

\* Entries whose callers wait may all come behind another entry.
LEMMA WaitersBehind ==
  ASSUME Callers, NEW x \in Entries, NEW T, \A y \in T : y # x /\ status[y] = "waiting"
  PROVE  AllBefore(before, {x}, T)
<1>1. ASSUME NEW y \in T PROVE Placed(before, x, y)
  BY DEF Placed, Callers, Acked, InState
<1> QED
  BY <1>1, Zenon DEF AllBefore

\* The next record of the batch goes to the BufWriter.
LEMMA WriteRecordKeeps ==
  ASSUME WalInv, NEW f \in Flushers, WriteRecord(f)
  PROVE  WalInv'
<1> DEFINE x == Head(batch[f])
           rest == Tail(batch[f])
<1>1. /\ CallsOK /\ FlushersOK /\ LogOK /\ OneWriter /\ Waking /\ AckedSafe
      /\ Pending /\ Callers /\ FilesInOrder /\ BufInOrder /\ WaitingInOrder
  BY DEF WalInv
<1>2. /\ fpc[f] = "write" /\ batch[f] # <<>>
      /\ batch' = [batch EXCEPT ![f] = rest]
      /\ size' = size + 1
      /\ buf' = Append(buf, x)
      /\ UNCHANGED <<status, group_buf, fpc, wake, files, cur, faults, before, errored, truncated>>
  BY DEF WriteRecord
<1>3. /\ x \in Entries /\ rest \in Seq(Entries)
      /\ Range(batch[f]) = {x} \cup Range(rest)
      /\ InOrder(before, rest) /\ AllBefore(before, {x}, Range(rest))
  <2>1. batch[f] \in Seq(Entries) /\ InOrder(before, batch[f])
    BY <1>1 DEF FlushersOK, WaitingInOrder
  <2>2. x \in Entries /\ rest \in Seq(Entries) /\ Range(batch[f]) = {x} \cup Range(rest)
    BY <1>2, <2>1, TailFacts
  <2>3. InOrder(before, rest) /\ AllBefore(before, {x}, Range(rest))
    BY <1>2, <2>1, OrderTail, ZenonT(30)
  <2> QED
    BY <2>2, <2>3
<1> HIDE DEF x, rest
<1>4. /\ batch'[f] = rest
      /\ \A g \in Flushers : g # f => batch'[g] = batch[g]
  BY <1>1, <1>2 DEF FlushersOK
<1>5. x \in Record /\ buf' \in Seq(Record) /\ Range(buf') = Range(buf) \cup {x}
  <2>1. x \in Record /\ buf \in Seq(Record)
    BY <1>1, <1>3 DEF LogOK, Record
  <2> QED
    BY <1>2, <2>1, AppendFacts
<1>6. Stored' = Stored /\ Safe' = Safe /\ Acked' = Acked
  BY <1>2 DEF Stored, Safe, Acked, InState
<1>7. CallsOK' /\ OneWriter' /\ AckedSafe' /\ FilesInOrder'
  BY <1>1, <1>2, <1>6 DEF CallsOK, OneWriter, AckedSafe, FilesInOrder
<1>8. LogOK'
  BY <1>1, <1>2, <1>5 DEF LogOK
<1>9. FlushersOK'
  BY <1>1, <1>2, <1>3 DEF FlushersOK
<1>10. Waking'
  <2>1. wake[f] \subseteq Range(batch'[f]) \cup Range(buf') \cup Safe
    BY <1>1, <1>2, <1>3, <1>4, <1>5 DEF Waking
  <2>2. ASSUME NEW g \in Flushers, g # f PROVE fpc[g] # "write"
    BY <1>1, <1>2, <2>2 DEF OneWriter
  <2> QED
    BY <1>1, <1>2, <1>4, <1>6, <2>1, <2>2 DEF Waking
<1>11. x \in wake[f] /\ status[x] = "waiting"
  BY <1>1, <1>3 DEF Pending
<1>12. Pending'
  <2>1. Range(rest) \subseteq wake[f]
    BY <1>1, <1>3 DEF Pending
  <2> QED
    BY <1>1, <1>2, <1>4, <2>1 DEF Pending
<1>13. Callers'
  BY <1>1, <1>2, <1>5, <1>6, <1>11 DEF Callers
<1>14. AllBefore(before, Stored, {x}) /\ AllBefore(before, Range(buf), {x})
  <2>1. AllBefore(before, Stored \cup Range(buf), {x} \cup Range(rest))
    BY <1>1, <1>3, ZenonT(30) DEF WaitingInOrder
  <2>2. AllBefore(before, Stored \cup Range(buf), {x})
    BY <2>1, BeforeParts
  <2> QED
    BY <2>2, BeforeParts
<1>15. BufInOrder'
  <2>1. InOrder(before, buf')
    BY <1>1, <1>2, <1>5, <1>14, OrderAppend DEF BufInOrder, LogOK
  <2>2. AllBefore(before, Stored, Range(buf'))
    BY <1>1, <1>5, <1>14, BeforeParts, ZenonT(30) DEF BufInOrder
  <2> QED
    BY <1>2, <1>6, <2>1, <2>2 DEF BufInOrder
<1>16. WaitingInOrder'
  <2>1. Stored \cup Range(buf') = (Stored \cup Range(buf)) \cup {x}
    BY <1>5
  <2>2. AllBefore(before, Stored \cup Range(buf), Range(rest))
    BY <1>1, <1>3, BeforeParts, ZenonT(30) DEF WaitingInOrder
  <2>3. AllBefore(before, Stored \cup Range(buf'), Range(batch'[f]))
    BY <1>3, <1>4, <2>1, <2>2, BeforeParts
  <2>4. ASSUME NEW g \in Flushers, g # f
        PROVE  AllBefore(before, Stored \cup Range(buf'), Range(batch'[g]))
    <3>1. \A y \in Range(batch[g]) : y # x /\ status[y] = "waiting"
      BY <1>1, <1>11, <2>4 DEF Pending
    <3>2. AllBefore(before, {x}, Range(batch[g]))
      BY <1>1, <1>3, <3>1, WaitersBehind
    <3> QED
      BY <1>1, <1>4, <2>1, <2>4, <3>2, BeforeParts DEF WaitingInOrder
  <2>5. AllBefore(before, Stored \cup Range(buf'), Range(group_buf))
    <3>1. \A y \in Range(group_buf) : y # x /\ status[y] = "waiting"
      BY <1>1, <1>11 DEF Pending
    <3>2. AllBefore(before, {x}, Range(group_buf))
      BY <1>1, <1>3, <3>1, WaitersBehind
    <3> QED
      BY <1>1, <2>1, <3>2, BeforeParts DEF WaitingInOrder
  <2>6. \A g \in Flushers : InOrder(before, batch'[g])
    BY <1>1, <1>3, <1>4 DEF WaitingInOrder
  <2> QED
    BY <1>1, <1>2, <1>6, <2>3, <2>4, <2>5, <2>6, ZenonT(30) DEF WaitingInOrder
<1> QED
  BY <1>7, <1>8, <1>9, <1>10, <1>12, <1>13, <1>15, <1>16 DEF WalInv

\* notify_one for every entry of the batch: all of them are safe, and none
\* still waits to be written.
LEMMA NotifyKeeps ==
  ASSUME WalInv, NEW f \in Flushers, NotifyAll(f)
  PROVE  WalInv'
<1>1. /\ CallsOK /\ FlushersOK /\ LogOK /\ OneWriter /\ Waking /\ AckedSafe
      /\ Pending /\ Callers /\ FilesInOrder /\ BufInOrder /\ WaitingInOrder
  BY DEF WalInv
<1>2. /\ fpc[f] = "notify"
      /\ status' = [e \in Entries |-> IF e \in wake[f] THEN "acked" ELSE status[e]]
      /\ wake' = [wake EXCEPT ![f] = {}]
      /\ UNCHANGED <<group_buf, batch, files, cur, size, buf, faults, before, errored, truncated>>
  BY DEF NotifyAll
<1>3. PICK label \in {"final", "idle"} : fpc' = [fpc EXCEPT ![f] = label]
  BY ZenonT(30) DEF NotifyAll, Goto
<1>4. Stored' = Stored /\ Safe' = Safe
  BY <1>2 DEF Stored, Safe
<1>5. Acked' = Acked \cup wake[f]
  BY <1>1, <1>2 DEF Acked, InState, FlushersOK
<1>6. /\ wake'[f] = {} /\ fpc'[f] = label
      /\ \A g \in Flushers : g # f => wake'[g] = wake[g] /\ fpc'[g] = fpc[g]
  BY <1>1, <1>2, <1>3 DEF FlushersOK
<1>7. LogOK' /\ FilesInOrder' /\ BufInOrder' /\ WaitingInOrder'
  BY <1>1, <1>2, <1>4, ZenonT(30) DEF LogOK, FilesInOrder, BufInOrder, WaitingInOrder
<1>8. CallsOK'
  BY <1>1, <1>2 DEF CallsOK
<1>9. FlushersOK' /\ OneWriter'
  BY <1>1, <1>2, <1>3 DEF FlushersOK, OneWriter
<1>10. Waking'
  BY <1>1, <1>2, <1>4, <1>6 DEF Waking
<1>11. AckedSafe'
  BY <1>1, <1>2, <1>4, <1>5 DEF AckedSafe, Waking
<1>12. Pending'
  <2>1. ASSUME NEW g \in Flushers, g # f, NEW e \in wake[g] PROVE status'[e] = "waiting"
    <3>1. e \in Entries /\ e \notin wake[f] /\ status[e] = "waiting"
      BY <1>1, <2>1 DEF Pending, FlushersOK
    <3> QED
      BY <1>2, <3>1
  <2>2. ASSUME NEW e \in Range(group_buf) PROVE status'[e] = "waiting"
    <3>1. e \in Entries
      BY <1>1 DEF CallsOK, Range
    <3>2. e \notin wake[f] /\ status[e] = "waiting"
      BY <1>1 DEF Pending
    <3> QED
      BY <1>2, <3>1, <3>2
  <2>3. batch[f] = <<>> /\ Range(batch[f]) = {}
    BY <1>1, <1>2, OrderNone, SMTT(30) DEF Pending
  <2>4. ASSUME NEW g \in Flushers
        PROVE  /\ Range(batch[g]) \subseteq wake'[g]
               /\ fpc'[g] \notin {"lock", "write"} => batch[g] = <<>>
               /\ fpc'[g] \in {"idle", "final"} => wake'[g] = {}
               /\ wake'[g] \cap Range(group_buf) = {}
               /\ \A e \in wake'[g] : status'[e] = "waiting"
    BY <1>1, <1>6, <2>1, <2>3, SMTT(30) DEF Pending
  <2>5. ASSUME NEW g \in Flushers, NEW h \in Flushers, g # h PROVE wake'[g] \cap wake'[h] = {}
    BY <1>1, <1>6, <2>5 DEF Pending
  <2> QED
    BY <1>2, <2>2, <2>4, <2>5 DEF Pending
<1>13. Callers'
  BY <1>1, <1>2, <1>4, <1>5 DEF Callers
<1> QED
  BY <1>7, <1>8, <1>9, <1>10, <1>11, <1>12, <1>13 DEF WalInv
-----------------------------------------------------------------------------
\* Records move from the BufWriter to the files, with bytes that are not whole
\* at most: what still waits is behind them, as it was.
LEMMA WaitingMoves ==
  ASSUME WaitingInOrder, before' = before,
         Stored' \cup Range(buf') \subseteq (Stored \cup Range(buf)) \cup {Torn},
         \A f \in Flushers : batch'[f] = batch[f] \/ batch'[f] = <<>>,
         group_buf' = group_buf \/ group_buf' = <<>>
  PROVE  WaitingInOrder'
<1>1. ASSUME NEW q, InOrder(before, q), AllBefore(before, Stored \cup Range(buf), Range(q))
      PROVE  AllBefore(before, Stored' \cup Range(buf'), Range(q))
  <2>1. AllBefore(before, {Torn}, Range(q))
    BY BoundsAssumption DEF AllBefore, Placed
  <2>2. AllBefore(before, (Stored \cup Range(buf)) \cup {Torn}, Range(q))
    BY <1>1, <2>1, BeforeParts
  <2> QED
    BY <2>2, BeforeParts
<1>2. InOrder(before, <<>>) /\ AllBefore(before, Stored \cup Range(buf), Range(<<>>))
  BY OrderNone, ZenonT(30)
<1>3. ASSUME NEW f \in Flushers
      PROVE  InOrder(before, batch'[f]) /\ AllBefore(before, Stored' \cup Range(buf'), Range(batch'[f]))
  <2>1. InOrder(before, batch'[f]) /\ AllBefore(before, Stored \cup Range(buf), Range(batch'[f]))
    BY <1>2, ZenonT(30) DEF WaitingInOrder
  <2> QED
    BY <1>1, <2>1, ZenonT(30)
<1>4. InOrder(before, group_buf') /\ AllBefore(before, Stored' \cup Range(buf'), Range(group_buf'))
  <2>1. InOrder(before, group_buf') /\ AllBefore(before, Stored \cup Range(buf), Range(group_buf'))
    BY <1>2 DEF WaitingInOrder
  <2> QED
    BY <1>1, <2>1, ZenonT(30)
<1> QED
  BY <1>3, <1>4, ZenonT(30) DEF WaitingInOrder

\* The same for the callers: none of the records is of a new entry.
LEMMA CallersMove ==
  ASSUME Callers, before' = before, Acked' = Acked,
         Stored' \cup Range(buf') \subseteq (Stored \cup Range(buf)) \cup {Torn},
         \A e \in Entries : status'[e] = "new" => status[e] = "new"
  PROVE  Callers'
BY BoundsAssumption DEF Callers

\* The next segment: the BufWriter is flushed first.
LEMMA RotateKeeps ==
  ASSUME WalInv, NEW f \in Flushers, Rotate(f)
  PROVE  WalInv' /\ Replayed \subseteq Replayed'
<1>1. /\ CallsOK /\ FlushersOK /\ LogOK /\ OneWriter /\ Waking /\ AckedSafe
      /\ Pending /\ Callers /\ FilesInOrder /\ BufInOrder /\ WaitingInOrder
  BY DEF WalInv
<1>2. /\ fpc[f] = "write"
      /\ files' = [s \in DOMAIN files \cup {cur + 1} |->
                    IF s = cur + 1 THEN <<>> ELSE IF s = cur THEN files[s] \o buf ELSE files[s]]
      /\ cur' = cur + 1 /\ size' = 0 /\ buf' = <<>>
      /\ UNCHANGED <<status, group_buf, fpc, batch, wake, faults, before, errored, truncated>>
  BY DEF Rotate
<1>3. cur \in Nat /\ cur \in DOMAIN files /\ buf \in Seq(Record) /\ \A s \in DOMAIN files : s \in Nat /\ s <= cur
  BY <1>1 DEF LogOK
<1>4. /\ DOMAIN files' = DOMAIN files \cup {cur + 1}
      /\ files'[cur] = files[cur] \o buf
      /\ \A s \in DOMAIN files : s # cur => files'[s] = files[s]
      /\ \A s \in {cur + 1} : files'[s] = <<>>
      /\ files' = [s \in DOMAIN files' |-> files'[s]]
  BY <1>2, <1>3
<1>5. /\ \A s \in DOMAIN files' : files'[s] \in Seq(Record)
      /\ Stored' = Stored \cup Range(buf)
      /\ Replayed \subseteq Replayed'
      /\ FilesInOrder'
  <2>1. {cur + 1} \in SUBSET {cur + 1} /\ before' = before
    BY <1>2
  <2>2. InOrder(before, buf) /\ AllBefore(before, Stored, Range(buf))
    BY <1>1 DEF BufInOrder
  <2> QED
    BY <1>1, <1>3, <1>4, <2>1, <2>2, FilesGrow, ZenonT(30)
<1>6. Range(buf') = {} /\ buf' \in Seq(Record) /\ InOrder(before, buf') /\ AllBefore(before, Stored', {})
  BY <1>2, OrderNone
<1>7. Safe \subseteq Safe' /\ Range(buf) \subseteq Safe' /\ Acked' = Acked
  BY <1>2, <1>5 DEF Safe, Acked, InState
<1>8. CallsOK' /\ FlushersOK' /\ OneWriter' /\ Pending'
  BY <1>1, <1>2 DEF CallsOK, FlushersOK, OneWriter, Pending
<1>9. LogOK'
  <2>1. DOMAIN files' \subseteq Nat /\ cur' \in DOMAIN files' /\ size' \in Nat
    BY <1>2, <1>3, <1>4
  <2>2. \A s \in DOMAIN files' : s <= cur'
    BY <1>2, <1>3, <1>4
  <2> QED
    BY <1>4, <1>5, <1>6, <2>1, <2>2 DEF LogOK
<1>10. Waking' /\ AckedSafe'
  BY <1>1, <1>2, <1>7 DEF Waking, AckedSafe
<1>11. Stored' \cup Range(buf') \subseteq (Stored \cup Range(buf)) \cup {Torn}
  BY <1>5, <1>6
<1>12. Callers'
  BY <1>1, <1>2, <1>7, <1>11, CallersMove
<1>13. BufInOrder'
  BY <1>2, <1>6, ZenonT(30) DEF BufInOrder
<1>14. WaitingInOrder'
  BY <1>1, <1>2, <1>11, WaitingMoves
<1> QED
  BY <1>5, <1>8, <1>9, <1>10, <1>12, <1>13, <1>14 DEF WalInv

\* The BufWriter is cut in two: one part goes to the file.
LEMMA CutKeeps ==
  ASSUME LogOK, FilesInOrder, BufInOrder, before' = before, cur' = cur, size' = size,
         NEW k \in 0 .. Len(buf),
         files' = [files EXCEPT ![cur] = @ \o SubSeq(buf, 1, k)],
         buf' = SubSeq(buf, k + 1, Len(buf))
  PROVE  /\ LogOK' /\ FilesInOrder' /\ BufInOrder'
         /\ Stored \subseteq Stored'
         /\ Stored' \cup Range(buf') = Stored \cup Range(buf)
         /\ Replayed \subseteq Replayed'
<1> DEFINE p == SubSeq(buf, 1, k)
<1>1. buf \in Seq(Record) /\ InOrder(before, buf) /\ AllBefore(before, Stored, Range(buf))
  BY DEF LogOK, BufInOrder
<1>2. p \in Seq(Record) /\ buf' \in Seq(Record) /\ Range(buf) = Range(p) \cup Range(buf')
  BY <1>1, CutFacts
<1>3. InOrder(before, p) /\ InOrder(before, buf') /\ AllBefore(before, Range(p), Range(buf'))
  BY <1>1, OrderCut
<1> HIDE DEF p
<1>4. files' = [files EXCEPT ![cur] = @ \o p]
  BY DEF p
<1>5. AllBefore(before, Stored, Range(p)) /\ AllBefore(before, Stored, Range(buf'))
  BY <1>1, <1>2, BeforeParts, ZenonT(30)
<1>6. /\ DOMAIN files' = DOMAIN files
      /\ files' = [s \in DOMAIN files' |-> files'[s]]
      /\ \A s \in DOMAIN files' : files'[s] \in Seq(Record)
      /\ Stored' = Stored \cup Range(p)
      /\ Replayed \subseteq Replayed'
      /\ FilesInOrder'
  BY <1>2, <1>3, <1>4, <1>5, FilesExtend, ZenonT(30)
<1>7. LogOK'
  BY <1>2, <1>6, SMTT(30) DEF LogOK
<1>8. AllBefore(before, Stored', Range(buf'))
  BY <1>3, <1>5, <1>6, BeforeParts
<1>9. BufInOrder'
  BY <1>3, <1>8 DEF BufInOrder
<1> QED
  BY <1>2, <1>6, <1>7, <1>9

\* The BufWriter is flushed whole.
LEMMA WholeKeeps ==
  ASSUME LogOK, FilesInOrder, BufInOrder, before' = before, cur' = cur, size' = size,
         files' = [files EXCEPT ![cur] = @ \o buf],
         buf' = <<>>
  PROVE  /\ LogOK' /\ FilesInOrder' /\ BufInOrder'
         /\ Stored' = Stored \cup Range(buf) /\ Range(buf') = {}
         /\ Replayed \subseteq Replayed'
<1>1. buf \in Seq(Record) /\ InOrder(before, buf) /\ AllBefore(before, Stored, Range(buf))
  BY DEF LogOK, BufInOrder
<1>2. /\ DOMAIN files' = DOMAIN files
      /\ files' = [s \in DOMAIN files' |-> files'[s]]
      /\ \A s \in DOMAIN files' : files'[s] \in Seq(Record)
      /\ Stored' = Stored \cup Range(buf)
      /\ Replayed \subseteq Replayed'
      /\ FilesInOrder'
  BY <1>1, FilesExtend, ZenonT(30)
<1>3. Range(buf') = {} /\ buf' \in Seq(Record) /\ InOrder(before, buf') /\ AllBefore(before, Stored', {})
  BY OrderNone
<1>4. LogOK'
  BY <1>2, <1>3 DEF LogOK
<1>5. BufInOrder'
  BY <1>3, ZenonT(30) DEF BufInOrder
<1> QED
  BY <1>2, <1>3, <1>4, <1>5

\* The flush at the end of flush_batch: the whole batch is in the files.
LEMMA FlushKeeps ==
  ASSUME WalInv, NEW f \in Flushers, Flush(f)
  PROVE  WalInv' /\ Replayed \subseteq Replayed'
<1>1. /\ CallsOK /\ FlushersOK /\ LogOK /\ OneWriter /\ Waking /\ AckedSafe
      /\ Pending /\ Callers /\ FilesInOrder /\ BufInOrder /\ WaitingInOrder
  BY DEF WalInv
<1>2. /\ fpc[f] = "write" /\ batch[f] = <<>>
      /\ files' = [files EXCEPT ![cur] = @ \o buf]
      /\ buf' = <<>>
      /\ fpc' = [fpc EXCEPT ![f] = "notify"]
      /\ UNCHANGED <<status, group_buf, batch, wake, cur, size, faults, before, errored, truncated>>
  BY DEF Flush, Goto
<1>3. /\ LogOK' /\ FilesInOrder' /\ BufInOrder'
      /\ Stored' = Stored \cup Range(buf) /\ Range(buf') = {}
      /\ Replayed \subseteq Replayed'
  BY <1>1, <1>2, WholeKeeps
<1>4. Safe \subseteq Safe' /\ Range(buf) \subseteq Safe' /\ Acked' = Acked
  BY <1>2, <1>3 DEF Safe, Acked, InState
<1>5. fpc'[f] = "notify" /\ \A g \in Flushers : g # f => fpc'[g] = fpc[g] /\ fpc[g] # "write"
  BY <1>1, <1>2 DEF FlushersOK, OneWriter
<1>6. CallsOK' /\ FlushersOK' /\ OneWriter'
  BY <1>1, <1>2 DEF CallsOK, FlushersOK, OneWriter
<1>7. Waking'
  <2>1. wake[f] \subseteq Safe'
    <3>1. Range(batch[f]) = {}
      BY <1>2, OrderNone
    <3> QED
      BY <1>1, <1>2, <1>4, <3>1 DEF Waking
  <2> QED
    BY <1>1, <1>2, <1>4, <1>5, <2>1 DEF Waking
<1>8. AckedSafe'
  BY <1>1, <1>4 DEF AckedSafe
<1>9. Pending'
  BY <1>1, <1>2, <1>5 DEF Pending
<1>10. Stored' \cup Range(buf') \subseteq (Stored \cup Range(buf)) \cup {Torn}
  BY <1>3
<1>11. Callers'
  BY <1>1, <1>2, <1>4, <1>10, CallersMove
<1>12. WaitingInOrder'
  BY <1>1, <1>2, <1>10, WaitingMoves
<1> QED
  BY <1>3, <1>6, <1>7, <1>8, <1>9, <1>11, <1>12 DEF WalInv

\* A failed write or flush: the batch is dropped, its entries count as errored.
LEMMA FlushFailsKeeps ==
  ASSUME WalInv, NEW f \in Flushers, FlushFails(f)
  PROVE  WalInv' /\ Replayed \subseteq Replayed'
<1>1. /\ CallsOK /\ FlushersOK /\ LogOK /\ OneWriter /\ Waking /\ AckedSafe
      /\ Pending /\ Callers /\ FilesInOrder /\ BufInOrder /\ WaitingInOrder
  BY DEF WalInv
<1>2. /\ fpc[f] = "write"
      /\ batch' = [batch EXCEPT ![f] = <<>>]
      /\ errored' = errored \cup wake[f]
      /\ UNCHANGED <<status, group_buf, cur, size, before, truncated>>
  BY DEF FlushFails
<1>3. \/ /\ fpc' = [fpc EXCEPT ![f] = "notify"] /\ wake' = wake
      \/ /\ fpc' = [fpc EXCEPT ![f] = "idle"] /\ wake' = [wake EXCEPT ![f] = {}]
  BY DEF FlushFails, Goto
<1>4. \/ files' = files /\ (buf' = buf \/ buf' = Append(buf, Torn))
      \/ \E k \in 0 .. Len(buf) : /\ files' = [files EXCEPT ![cur] = @ \o SubSeq(buf, 1, k)]
                                  /\ buf' = SubSeq(buf, k + 1, Len(buf))
  BY ZenonT(30) DEF FlushFails
<1>5. /\ LogOK' /\ FilesInOrder' /\ BufInOrder'
      /\ Stored \subseteq Stored'
      /\ Stored' \cup Range(buf') \subseteq (Stored \cup Range(buf)) \cup {Torn}
      /\ Replayed \subseteq Replayed'
  <2>1. CASE files' = files /\ buf' = buf
    BY <1>1, <1>2, <2>1 DEF LogOK, FilesInOrder, BufInOrder, Stored, Replayed
  <2>2. CASE files' = files /\ buf' = Append(buf, Torn)
    <3>1. buf \in Seq(Record) /\ Torn \in Record /\ InOrder(before, buf) /\ AllBefore(before, Stored, Range(buf))
      BY <1>1 DEF LogOK, BufInOrder, Record
    <3>2. buf' \in Seq(Record) /\ Range(buf') = Range(buf) \cup {Torn}
      BY <2>2, <3>1, AppendFacts
    <3>3. AllBefore(before, Range(buf), {Torn}) /\ AllBefore(before, Stored, {Torn})
      BY OrderTorn
    <3>4. InOrder(before, buf')
      BY <2>2, <3>1, <3>3, OrderAppend
    <3>5. AllBefore(before, Stored, Range(buf'))
      BY <3>1, <3>2, <3>3, BeforeParts, ZenonT(30)
    <3>6. Stored' = Stored /\ Replayed' = Replayed
      BY <2>2 DEF Stored, Replayed
    <3>7. BufInOrder'
      BY <1>2, <3>4, <3>5, <3>6 DEF BufInOrder
    <3>8. FilesInOrder' /\ LogOK'
      BY <1>1, <1>2, <2>2, <3>2 DEF FilesInOrder, LogOK
    <3> QED
      BY <3>2, <3>6, <3>7, <3>8
  <2>3. CASE \E k \in 0 .. Len(buf) : /\ files' = [files EXCEPT ![cur] = @ \o SubSeq(buf, 1, k)]
                                      /\ buf' = SubSeq(buf, k + 1, Len(buf))
    BY <1>1, <1>2, <2>3, CutKeeps, ZenonT(30)
  <2> QED
    BY <1>4, <2>1, <2>2, <2>3, ZenonT(30)
<1>6. Safe \subseteq Safe' /\ wake[f] \subseteq Safe' /\ Acked' = Acked
  BY <1>2, <1>5 DEF Safe, Acked, InState
<1>7. /\ fpc'[f] \in {"notify", "idle"} /\ batch'[f] = <<>>
      /\ wake'[f] \in {wake[f], {}} /\ (fpc'[f] = "idle" => wake'[f] = {})
      /\ \A g \in Flushers : g # f => /\ batch'[g] = batch[g] /\ wake'[g] = wake[g]
                                      /\ fpc'[g] = fpc[g] /\ fpc[g] # "write"
  BY <1>1, <1>2, <1>3 DEF FlushersOK, OneWriter
<1>8. CallsOK'
  BY <1>1, <1>2 DEF CallsOK
<1>9. FlushersOK'
  <2>1. batch' \in [Flushers -> Seq(Entries)]
    BY <1>1, <1>2, OrderNone DEF FlushersOK
  <2>2. fpc' \in [Flushers -> {"idle", "lock", "write", "notify", "final"}]
    BY <1>1, <1>3, ZenonT(30) DEF FlushersOK
  <2>3. wake' \in [Flushers -> SUBSET Entries]
    BY <1>1, <1>3, ZenonT(30) DEF FlushersOK
  <2> QED
    BY <2>1, <2>2, <2>3 DEF FlushersOK
<1>10. OneWriter' /\ AckedSafe'
  BY <1>1, <1>6, <1>7 DEF OneWriter, AckedSafe
<1>11. Waking'
  BY <1>1, <1>6, <1>7, SMTT(30) DEF Waking
<1>12. Pending'
  <2>1. Range(batch'[f]) = {}
    BY <1>7, OrderNone
  <2>2. ASSUME NEW g \in Flushers
        PROVE  /\ Range(batch'[g]) \subseteq wake'[g]
               /\ fpc'[g] \notin {"lock", "write"} => batch'[g] = <<>>
               /\ fpc'[g] \in {"idle", "final"} => wake'[g] = {}
               /\ wake'[g] \cap Range(group_buf) = {}
               /\ \A e \in wake'[g] : status[e] = "waiting"
    BY <1>1, <1>7, <2>1 DEF Pending
  <2>3. ASSUME NEW g \in Flushers, NEW h \in Flushers, g # h PROVE wake'[g] \cap wake'[h] = {}
    BY <1>1, <1>7, <2>3 DEF Pending
  <2> QED
    BY <1>1, <1>2, <2>2, <2>3, ZenonT(30) DEF Pending
<1>13. Callers'
  BY <1>1, <1>2, <1>5, <1>6, CallersMove
<1>14. WaitingInOrder'
  <2>1. \A g \in Flushers : batch'[g] = batch[g] \/ batch'[g] = <<>>
    BY <1>7
  <2> QED
    BY <1>1, <1>2, <1>5, <2>1, WaitingMoves
<1> QED
  BY <1>5, <1>8, <1>9, <1>10, <1>11, <1>12, <1>13, <1>14 DEF WalInv

\* sync flushes the segment once more, whole or in part.
LEMMA SyncKeeps ==
  ASSUME WalInv, SyncSegment
  PROVE  WalInv' /\ Replayed \subseteq Replayed'
<1>1. /\ CallsOK /\ FlushersOK /\ LogOK /\ OneWriter /\ Waking /\ AckedSafe
      /\ Pending /\ Callers /\ FilesInOrder /\ BufInOrder /\ WaitingInOrder
  BY DEF WalInv
<1>2. /\ fpc["sync"] = "final" /\ \A g \in Flushers : fpc[g] # "write"
      /\ fpc' = [fpc EXCEPT !["sync"] = "idle"]
      /\ UNCHANGED <<status, group_buf, batch, wake, cur, size, before, errored, truncated>>
  BY DEF SyncSegment, SegmentFree, Goto
<1>3. \/ files' = [files EXCEPT ![cur] = @ \o buf] /\ buf' = <<>>
      \/ \E k \in 0 .. Len(buf) - 1 : /\ files' = [files EXCEPT ![cur] = @ \o SubSeq(buf, 1, k)]
                                      /\ buf' = SubSeq(buf, k + 1, Len(buf))
  BY ZenonT(30) DEF SyncSegment
<1>4. /\ LogOK' /\ FilesInOrder' /\ BufInOrder'
      /\ Stored \subseteq Stored'
      /\ Stored' \cup Range(buf') \subseteq (Stored \cup Range(buf)) \cup {Torn}
      /\ Replayed \subseteq Replayed'
  <2>1. CASE files' = [files EXCEPT ![cur] = @ \o buf] /\ buf' = <<>>
    <3>1. /\ LogOK' /\ FilesInOrder' /\ BufInOrder'
          /\ Stored' = Stored \cup Range(buf) /\ Range(buf') = {}
          /\ Replayed \subseteq Replayed'
      BY <1>1, <1>2, <2>1, WholeKeeps
    <3> QED
      BY <3>1
  <2>2. CASE \E k \in 0 .. Len(buf) - 1 : /\ files' = [files EXCEPT ![cur] = @ \o SubSeq(buf, 1, k)]
                                          /\ buf' = SubSeq(buf, k + 1, Len(buf))
    <3>1. PICK k \in 0 .. Len(buf) - 1 : /\ files' = [files EXCEPT ![cur] = @ \o SubSeq(buf, 1, k)]
                                        /\ buf' = SubSeq(buf, k + 1, Len(buf))
      BY <2>2, ZenonT(30)
    <3>2. k \in 0 .. Len(buf)
      BY <1>1 DEF LogOK
    <3> QED
      BY <1>1, <1>2, <3>1, <3>2, CutKeeps, ZenonT(30)
  <2> QED
    BY <1>3, <2>1, <2>2, ZenonT(30)
<1>5. Safe \subseteq Safe' /\ Acked' = Acked
  BY <1>2, <1>4 DEF Safe, Acked, InState
<1>6. fpc'["sync"] = "idle" /\ \A g \in Flushers : g # "sync" => fpc'[g] = fpc[g]
  BY <1>1, <1>2 DEF FlushersOK, Flushers
<1>7. CallsOK' /\ FlushersOK'
  BY <1>1, <1>2 DEF CallsOK, FlushersOK, Flushers
<1>8. OneWriter' /\ AckedSafe'
  BY <1>1, <1>2, <1>5, <1>6 DEF OneWriter, AckedSafe
<1>9. Waking'
  BY <1>1, <1>2, <1>5, <1>6 DEF Waking
<1>10. Pending'
  BY <1>1, <1>2, <1>6 DEF Pending
<1>11. Callers'
  BY <1>1, <1>2, <1>4, <1>5, CallersMove
<1>12. WaitingInOrder'
  BY <1>1, <1>2, <1>4, WaitingMoves
<1> QED
  BY <1>4, <1>7, <1>8, <1>9, <1>10, <1>11, <1>12 DEF WalInv

\* truncate_before: what was stored in the deleted segments is truncated.
LEMMA TruncateKeeps ==
  ASSUME WalInv, NEW up_to, NEW kept, Truncate(up_to, kept)
  PROVE  WalInv' /\ Replayed \subseteq Replayed' \cup truncated'
<1> DEFINE gone == {s \in DOMAIN files : s < up_to /\ s < cur} \ kept
<1>1. /\ CallsOK /\ FlushersOK /\ LogOK /\ OneWriter /\ Waking /\ AckedSafe
      /\ Pending /\ Callers /\ FilesInOrder /\ BufInOrder /\ WaitingInOrder
  BY DEF WalInv
<1>2. /\ \A g \in Flushers : fpc[g] # "write"
      /\ files' = [s \in DOMAIN files \ gone |-> files[s]]
      /\ truncated' = truncated \cup (UNION {Range(files[s]) : s \in gone})
      /\ UNCHANGED <<status, group_buf, fpc, batch, wake, cur, size, buf, faults, before, errored>>
  BY DEF Truncate, SegmentFree, Restrict
<1>3. gone \subseteq DOMAIN files /\ cur \notin gone
  BY <1>1 DEF LogOK
<1> HIDE DEF gone
<1>4. /\ DOMAIN files' = DOMAIN files \ gone
      /\ \A s \in DOMAIN files' : s \in DOMAIN files /\ files'[s] = files[s]
      /\ files' = [s \in DOMAIN files' |-> files'[s]]
  BY <1>2
<1>5. Stored' \subseteq Stored
  BY <1>4 DEF Stored
<1>6. \A s \in DOMAIN files : Range(files[s]) \subseteq Stored' \cup truncated'
  <2>1. ASSUME NEW s \in DOMAIN files, s \in gone PROVE Range(files[s]) \subseteq truncated'
    BY <1>2, <2>1
  <2>2. ASSUME NEW s \in DOMAIN files, s \notin gone PROVE Range(files[s]) \subseteq Stored'
    BY <1>4, <2>2 DEF Stored
  <2> QED
    BY <2>1, <2>2
<1>7. Stored \subseteq Stored' \cup truncated'
  BY <1>6 DEF Stored
<1>8. Safe \subseteq Safe' /\ Acked' = Acked
  BY <1>2, <1>7 DEF Safe, Acked, InState
<1>9. Replayed \subseteq Replayed' \cup truncated'
  <2>1. ASSUME NEW s \in DOMAIN files
        PROVE  Range(ReplaySegment(files[s])) \subseteq Replayed' \cup truncated'
    <3>1. CASE s \in gone
      <4>1. files[s] \in Seq(Record)
        BY <1>1 DEF LogOK
      <4>2. Range(ReplaySegment(files[s])) \subseteq Range(files[s])
        <5>1. Range(ReplaySegment(files[s])) =
                {files[s][i] : i \in {k \in DOMAIN files[s] : \A j \in 1 .. k : files[s][j] # Torn}}
          BY <4>1, ReplaySegmentFacts
        <5> QED
          BY <5>1 DEF Range
      <4>3. Range(files[s]) \subseteq truncated'
        BY <1>2, <3>1
      <4> QED
        BY <4>2, <4>3
    <3>2. CASE s \notin gone
      BY <1>4, <3>2, SMTT(30) DEF Replayed
    <3> QED
      BY <3>1, <3>2
  <2> QED
    BY <2>1 DEF Replayed
<1>10. CallsOK' /\ FlushersOK' /\ OneWriter' /\ Pending'
  BY <1>1, <1>2 DEF CallsOK, FlushersOK, OneWriter, Pending
<1>11. LogOK'
  BY <1>1, <1>2, <1>3, <1>4 DEF LogOK
<1>12. Waking' /\ AckedSafe'
  BY <1>1, <1>2, <1>8 DEF Waking, AckedSafe
<1>13. FilesInOrder'
  BY <1>1, <1>2, <1>4 DEF FilesInOrder
<1>14. BufInOrder'
  <2>1. AllBefore(before, Stored', Range(buf))
    BY <1>1, <1>5, BeforeParts DEF BufInOrder
  <2> QED
    BY <1>1, <1>2, <2>1 DEF BufInOrder
<1>15. Stored' \cup Range(buf') \subseteq (Stored \cup Range(buf)) \cup {Torn}
  BY <1>2, <1>5
<1>16. Callers'
  BY <1>1, <1>2, <1>8, <1>15, CallersMove, SMTT(30)
<1>17. WaitingInOrder'
  BY <1>1, <1>2, <1>15, WaitingMoves, ZenonT(30)
<1> QED
  BY <1>9, <1>10, <1>11, <1>12, <1>13, <1>14, <1>16, <1>17 DEF WalInv

\* A crash and open(): part of the BufWriter had reached the file, the rest is
\* lost with the batches; the latest segment is the current one.
LEMMA CrashKeeps ==
  ASSUME WalInv, NEW k \in 0 .. Len(buf), NEW torn \in BOOLEAN, Crash(k, torn)
  PROVE  WalInv' /\ Replayed \subseteq Replayed'
<1> DEFINE p == SubSeq(buf, 1, k)
           t == IF torn THEN <<Torn>> ELSE <<>>
<1>1. /\ CallsOK /\ FlushersOK /\ LogOK /\ OneWriter /\ Waking /\ AckedSafe
      /\ Pending /\ Callers /\ FilesInOrder /\ BufInOrder /\ WaitingInOrder
  BY DEF WalInv
<1>2. /\ files' = [files EXCEPT ![cur] = @ \o (p \o t)]
      /\ cur' \in DOMAIN files /\ \A s \in DOMAIN files : s <= cur'
      /\ size' = Len(files'[cur'])
      /\ buf' = <<>> /\ group_buf' = <<>>
      /\ fpc' = [f \in Flushers |-> "idle"]
      /\ batch' = [f \in Flushers |-> <<>>]
      /\ wake' = [f \in Flushers |-> {}]
      /\ status' = [e \in Entries |-> IF status[e] = "waiting" THEN "crashed" ELSE status[e]]
      /\ UNCHANGED <<before, errored, truncated>>
  BY DEF Crash
<1>3. cur' = cur
  BY <1>1, <1>2 DEF LogOK
<1>4. buf \in Seq(Record) /\ InOrder(before, buf) /\ AllBefore(before, Stored, Range(buf))
  BY <1>1 DEF LogOK, BufInOrder
<1>5. /\ p \in Seq(Record) /\ Range(p) \subseteq Range(buf) /\ InOrder(before, p)
  BY <1>4, CutFacts, OrderCut
<1>6. /\ t \in Seq(Record) /\ Range(t) \subseteq {Torn} /\ InOrder(before, t)
      /\ AllBefore(before, Range(p), Range(t)) /\ AllBefore(before, Stored, Range(t))
  <2>1. CASE torn
    BY <2>1, OrderTorn, ZenonT(30)
  <2>2. CASE ~torn
    <3>1. t = <<>>
      BY <2>2
    <3> QED
      BY <3>1, OrderNone
  <2> QED
    BY <2>1, <2>2
<1> HIDE DEF p, t
<1>7. p \o t \in Seq(Record) /\ Range(p \o t) = Range(p) \cup Range(t) /\ InOrder(before, p \o t)
  BY <1>5, <1>6, JoinFacts, OrderJoin
<1>8. AllBefore(before, Stored, Range(p \o t))
  <2>1. AllBefore(before, Stored, Range(p))
    BY <1>4, <1>5, BeforeParts, ZenonT(30)
  <2> QED
    BY <1>6, <1>7, <2>1, BeforeParts, ZenonT(30)
<1>9. /\ DOMAIN files' = DOMAIN files
      /\ files' = [s \in DOMAIN files' |-> files'[s]]
      /\ \A s \in DOMAIN files' : files'[s] \in Seq(Record)
      /\ Stored' = Stored \cup Range(p \o t)
      /\ Replayed \subseteq Replayed'
      /\ FilesInOrder'
  BY <1>1, <1>2, <1>7, <1>8, FilesExtend, ZenonT(30)
<1>10. /\ Range(buf') = {} /\ buf' \in Seq(Record) /\ InOrder(before, buf')
       /\ AllBefore(before, Stored', {})
  BY <1>2, OrderNone
<1>11. LogOK'
  <2>1. size' \in Nat
    BY <1>1, <1>2, <1>3, <1>9 DEF LogOK
  <2> QED
    BY <1>1, <1>3, <1>9, <1>10, <2>1 DEF LogOK
<1>12. Acked' = Acked /\ \A e \in Entries : status'[e] = "new" => status[e] = "new"
  BY <1>2 DEF Acked, InState
<1>13. Safe \subseteq Safe'
  BY <1>2, <1>9 DEF Safe
<1>14. CallsOK'
  BY <1>1, <1>2 DEF CallsOK
<1>15. FlushersOK' /\ OneWriter'
  BY <1>2 DEF FlushersOK, OneWriter
<1>16. Waking' /\ AckedSafe'
  BY <1>1, <1>2, <1>12, <1>13 DEF Waking, AckedSafe
<1>17. Pending'
  <2>1. Range(<<>>) = {}
    BY OrderNone
  <2> QED
    BY <1>2, <2>1 DEF Pending
<1>18. Stored' \cup Range(buf') \subseteq (Stored \cup Range(buf)) \cup {Torn}
  BY <1>5, <1>6, <1>7, <1>9, <1>10
<1>19. Callers'
  BY <1>1, <1>2, <1>12, <1>18, CallersMove
<1>20. BufInOrder'
  BY <1>2, <1>10, ZenonT(30) DEF BufInOrder
<1>21. WaitingInOrder'
  BY <1>1, <1>2, <1>18, WaitingMoves
<1> QED
  BY <1>9, <1>11, <1>14, <1>15, <1>16, <1>17, <1>19, <1>20, <1>21 DEF WalInv
-----------------------------------------------------------------------------
\* A new log is empty.
LEMMA InitWal == Init => WalInv
<1> SUFFICES ASSUME Init PROVE WalInv
  OBVIOUS
<1>1. Range(<<>>) = {} /\ InOrder(before, <<>>) /\ AllBefore(before, {}, {})
  BY OrderNone
<1>2. Stored = {}
  BY <1>1 DEF Init, Stored
<1>3. Acked = {}
  BY DEF Init, Acked, InState
<1>4. CallsOK /\ FlushersOK
  BY DEF Init, CallsOK, FlushersOK
<1>5. LogOK
  BY DEF Init, LogOK
<1>6. OneWriter /\ Waking /\ AckedSafe
  BY <1>3 DEF Init, OneWriter, Waking, AckedSafe
<1>7. Pending /\ Callers
  BY <1>1, <1>2 DEF Init, Pending, Callers
<1>8. FilesInOrder /\ BufInOrder /\ WaitingInOrder
  <2>1. FilesInOrder
    BY <1>1 DEF Init, FilesInOrder
  <2>2. BufInOrder
    BY <1>1, <1>2 DEF Init, BufInOrder
  <2>3. {} \cup {} = {}
    OBVIOUS
  <2>4. WaitingInOrder
    BY <1>1, <1>2, <2>3 DEF Init, WaitingInOrder
  <2> QED
    BY <2>1, <2>2, <2>4
<1> QED
  BY <1>4, <1>5, <1>6, <1>7, <1>8 DEF WalInv

\* Every step keeps the invariant, and what can be replayed but for what it
\* truncates.
LEMMA NextWal ==
  ASSUME WalInv, [Next]_vars
  PROVE  WalInv' /\ Replayed \subseteq Replayed' \cup truncated'
<1>1. ASSUME NEW e \in Entries, AppendEntry(e)
      PROVE  WalInv' /\ Replayed \subseteq Replayed'
  BY <1>1, AppendKeeps, ZenonT(30) DEF AppendEntry, Replayed
<1>2. ASSUME NEW f \in Flushers, Take(f)
      PROVE  WalInv' /\ Replayed \subseteq Replayed'
  BY <1>2, TakeKeeps DEF Take, Replayed
<1>3. ASSUME NEW f \in Flushers, Lock(f)
      PROVE  WalInv' /\ Replayed \subseteq Replayed'
  BY <1>3, LockKeeps DEF Lock, Replayed
<1>4. ASSUME NEW f \in Flushers, WriteRecord(f)
      PROVE  WalInv' /\ Replayed \subseteq Replayed'
  BY <1>4, WriteRecordKeeps, ZenonT(30) DEF WriteRecord, Replayed
<1>5. ASSUME NEW f \in Flushers, NotifyAll(f)
      PROVE  WalInv' /\ Replayed \subseteq Replayed'
  BY <1>5, NotifyKeeps, ZenonT(30) DEF NotifyAll, Replayed
<1>6. ASSUME UNCHANGED vars
      PROVE  WalInv' /\ Replayed \subseteq Replayed'
  <2>1. Stored' = Stored /\ Safe' = Safe /\ Acked' = Acked /\ Replayed' = Replayed
    BY <1>6 DEF vars, Stored, Safe, Acked, InState, Replayed
  <2>2. CallsOK' /\ FlushersOK' /\ LogOK' /\ OneWriter'
    BY <1>6, SMTT(30) DEF WalInv, vars, CallsOK, FlushersOK, LogOK, OneWriter
  <2>3. Waking' /\ AckedSafe' /\ Callers'
    BY <1>6, <2>1, SMTT(30) DEF WalInv, vars, Waking, AckedSafe, Callers
  <2>4. Pending' /\ FilesInOrder' /\ BufInOrder' /\ WaitingInOrder'
    BY <1>6, <2>1, ZenonT(30) DEF WalInv, vars, Pending, FilesInOrder, BufInOrder, WaitingInOrder
  <2> QED
    BY <2>1, <2>2, <2>3, <2>4 DEF WalInv
<1>7. ASSUME NEW f \in Flushers, FlusherStep(f)
      PROVE  WalInv' /\ Replayed \subseteq Replayed'
  BY <1>2, <1>3, <1>4, <1>5, <1>7, RotateKeeps, FlushKeeps, FlushFailsKeeps DEF FlusherStep
<1> QED
  BY <1>1, <1>6, <1>7, SyncKeeps, TruncateKeeps, CrashKeeps DEF Next

\* The inductive invariant: where every entry is between its append and the
\* file, through two flushers, rotations, truncations, errors and crashes.
THEOREM WalInvariant == Spec => []WalInv
<1>1. Init => WalInv
  BY InitWal
<1>2. WalInv /\ [Next]_vars => WalInv'
  BY NextWal
<1> QED
  BY <1>1, <1>2, PTL DEF Spec

\* An append that returned Ok is found by a replay made at any later moment,
\* but where flush_batch failed for it or a torn record hides it; for every
\* set of entries, segment size and number of faults.
THEOREM AckedTheorem == Spec => []AckedReplayed
<1>1. WalInv => AckedReplayed
  <2> SUFFICES ASSUME WalInv, NEW e \in Acked \ (errored \cup truncated)
               PROVE  e \in Replayed \cup Hidden
    BY DEF AckedReplayed
  <2>1. e \in Stored
    BY DEF WalInv, AckedSafe, Safe
  <2>2. PICK s \in DOMAIN files : e \in Range(files[s])
    BY <2>1 DEF Stored
  <2> QED
    BY <2>2 DEF Replayed, Hidden
<1> QED
  BY <1>1, WalInvariant, PTL

\* What a replay would return is never taken back, but by truncate_before.
THEOREM ReplayGrowsTheorem == Spec => ReplayGrows
<1>1. WalInv /\ [Next]_vars => [Replayed \subseteq Replayed' \cup truncated']_vars
  BY NextWal
<1> QED
  BY <1>1, WalInvariant, PTL DEF Spec, ReplayGrows

\* The segments hold no entry twice, and none before another whose append had
\* returned when it was appended, though two flushers write side by side.
THEOREM OrderTheorem == Spec => []FilesInOrder
<1>1. WalInv => FilesInOrder
  BY DEF WalInv
<1> QED
  BY <1>1, WalInvariant, PTL
==============================================================================
