--------------------------- MODULE RecorderProofs ---------------------------
(***************************************************************************)
(* Theorems about Recorder for every set of threads, all sizes of messages *)
(* and of the buffer, and every value of the bounds.                       *)
(***************************************************************************)
EXTENDS Recorder, SequenceTheorems, FiniteSetTheorems, WellFoundedInduction, TLAPS

-----------------------------------------------------------------------------
(* Numbers.  Every induction here takes a least counterexample: the library's*)
(* theorems of induction have an operator as a parameter, and what is below  *)
(* has none.                                                               *)

\* A set of numbers that is not empty has a least one, because the intervals
\* 0..n are well-founded by inclusion.
LEMMA LeastNumber ==
    ASSUME NEW S \in SUBSET Nat, S # {}
    PROVE  \E n \in S : \A m \in S : n <= m
  <1> DEFINE T == { 0..n : n \in S }
             R == StrictSubsetOrdering(Nat)
  <1>1. IsWellFoundedOn(R, FiniteSubsetsOf(Nat))
    BY FS_StrictSubsetOrderingWellFounded
  <1>2. T \subseteq FiniteSubsetsOf(Nat) /\ T # {}
    <2>1. \A n \in S : IsFiniteSet(0..n) /\ 0..n \subseteq Nat
      BY FS_Interval
    <2>2. QED
      BY <2>1 DEF FiniteSubsetsOf
  <1>3. PICK I \in T : \A J \in T : <<J, I>> \notin R
    <2> HIDE DEF R, T
    <2> QED
      BY <1>1, <1>2, WFMin
  <1>4. PICK n \in S : I = 0..n
    OBVIOUS
  <1>5. ASSUME NEW m \in S, m < n PROVE FALSE
    <2>1. 0..m \in T /\ 0..m \subseteq 0..n /\ n \in 0..n /\ n \notin 0..m
      BY <1>5
    <2>2. 0..m # 0..n
      BY <2>1
    <2>3. 0..m \in SUBSET Nat /\ 0..n \in SUBSET Nat
      OBVIOUS
    <2>4. <<0..m, 0..n>> \in R
      BY <2>1, <2>2, <2>3 DEF StrictSubsetOrdering
    <2>5. QED
      BY <1>3, <1>4, <2>1, <2>4
  <1>6. QED
    BY <1>5

\* What holds of 0, and of the successor of each number up to n of which it
\* holds, holds up to n.
LEMMA UpTo ==
    ASSUME NEW n \in Nat, NEW S, 0 \in S,
           \A k \in 1..n : k - 1 \in S => k \in S
    PROVE  0..n \subseteq S
  <1> DEFINE Out == { k \in 0..n : k \notin S }
  <1>1. SUFFICES ASSUME Out # {} PROVE FALSE
    OBVIOUS
  <1>2. PICK k \in Out : \A m \in Out : k <= m
    <2>1. Out \in SUBSET Nat
      OBVIOUS
    <2> HIDE DEF Out
    <2>2. QED
      BY <1>1, <2>1, LeastNumber
  <1>3. k \in 1..n /\ k - 1 \in 0..n
    OBVIOUS
  <1>4. k - 1 \in S
    BY <1>2, <1>3
  <1>5. QED
    BY <1>3, <1>4

-----------------------------------------------------------------------------
(* The bytes of a queue.                                                   *)

\* sum[i] is the bytes of the first i messages of q, for i up to n.
IsSumTo(sum, q, n) ==
    /\ sum[0] = 0
    /\ \A i \in 1..n : sum[i] = sum[i-1] + LenOf[q[i].from]

IsSum(sum, q) == IsSumTo(sum, q, Len(q))

LEMMA LengthsAreNumbers ==
    ASSUME NEW q \in Seq(Message)
    PROVE  \A i \in 1..Len(q) : q[i] \in Message /\ LenOf[q[i].from] \in Nat
  <1> TAKE i \in 1..Len(q)
  <1>1. q[i] \in Message
    OBVIOUS
  <1>2. q[i].from \in Source
    BY <1>1 DEF Message
  <1>3. QED
    BY <1>1, <1>2, BufferAssumption

LEMMA SumExists ==
    ASSUME NEW q \in Seq(Message)
    PROVE  \E sum \in [0..Len(q) -> Nat] : IsSum(sum, q)
  <1> DEFINE n == Len(q)
             S == { k \in 0..n : \E sum \in [0..k -> Nat] : IsSumTo(sum, q, k) }
  <1>1. n \in Nat
    OBVIOUS
  <1>2. 0 \in S
    <2> DEFINE zero == [i \in 0..0 |-> 0]
    <2>1. zero \in [0..0 -> Nat] /\ zero[0] = 0 /\ 1..0 = {}
      OBVIOUS
    <2> HIDE DEF zero
    <2>2. IsSumTo(zero, q, 0)
      BY <2>1 DEF IsSumTo
    <2>3. QED
      BY <1>1, <2>1, <2>2
  <1>3. ASSUME NEW k \in 1..n, k - 1 \in S
        PROVE  k \in S
    <2>1. PICK sum \in [0..k-1 -> Nat] : IsSumTo(sum, q, k - 1)
      BY <1>3
    <2> DEFINE next == [i \in 0..k |-> IF i = k THEN sum[k-1] + LenOf[q[k].from] ELSE sum[i]]
    <2>2. LenOf[q[k].from] \in Nat /\ sum[k-1] \in Nat
      BY LengthsAreNumbers
    <2>3. next \in [0..k -> Nat]
      BY <2>2
    <2>4. next[0] = 0
      BY <2>1 DEF IsSumTo
    <2>5. \A i \in 1..k : next[i] = next[i-1] + LenOf[q[i].from]
      <3> TAKE i \in 1..k
      <3>1. CASE i = k
        BY <3>1
      <3>2. CASE i < k
        BY <2>1, <3>2 DEF IsSumTo
      <3>3. QED
        BY <3>1, <3>2
    <2> HIDE DEF next
    <2>6. IsSumTo(next, q, k)
      BY <2>4, <2>5 DEF IsSumTo
    <2>7. QED
      BY <1>1, <2>3, <2>6
  <1>4. 0..n \subseteq S
    <2> HIDE DEF S, n
    <2>1. QED
      BY <1>1, <1>2, <1>3, UpTo
  <1>5. n \in S
    BY <1>1, <1>4
  <1>6. QED
    BY <1>5 DEF IsSum

\* Two sums agree as far as both go.
AgreeTo(f, g, n) == \A i \in 0..n : f[i] = g[i]

LEMMA SumUnique ==
    ASSUME NEW q, NEW n \in Nat, NEW f, NEW g, IsSumTo(f, q, n), IsSumTo(g, q, n)
    PROVE  AgreeTo(f, g, n)
  <1> USE DEF IsSumTo
  <1> DEFINE S == { i \in 0..n : f[i] = g[i] }
  <1>1. 0 \in S
    OBVIOUS
  <1>2. \A k \in 1..n : k - 1 \in S => k \in S
    OBVIOUS
  <1>3. 0..n \subseteq S
    <2> HIDE DEF S
    <2>1. QED
      BY <1>1, <1>2, UpTo
  <1>4. QED
    BY <1>3 DEF AgreeTo

LEMMA BytesOfSum ==
    ASSUME NEW q \in Seq(Message), NEW sum \in [0..Len(q) -> Nat], IsSum(sum, q)
    PROVE  Bytes(q) = sum[Len(q)]
  <1> DEFINE Rec(f) == f = [i \in 0..Len(q) |->
                               IF i = 0 THEN 0 ELSE f[i-1] + LenOf[q[i].from]]
             chosen == CHOOSE f : Rec(f)
  <1>1. Rec(sum)
    BY DEF IsSum, IsSumTo
  <1>2. Rec(chosen)
    BY <1>1
  <1>3. Bytes(q) = chosen[Len(q)]
    BY DEF Bytes
  <1>4. \A i \in 0..Len(q) : chosen[i] = sum[i]
    <2> HIDE DEF chosen
    <2>1. IsSumTo(chosen, q, Len(q))
      BY <1>2 DEF IsSumTo
    <2>2. QED
      BY <2>1, SumUnique DEF IsSum, AgreeTo
  <1>5. QED
    BY <1>3, <1>4

\* A queue's bytes are a number, and none of its parts has more than it has.
LEMMA BytesType ==
    ASSUME NEW q \in Seq(Message)
    PROVE  Bytes(q) \in Nat
  BY SumExists, BytesOfSum

LEMMA BytesEmpty == Bytes(<<>>) = 0
  <1>1. <<>> \in Seq(Message) /\ Len(<<>>) = 0
    OBVIOUS
  <1>2. PICK sum \in [0..0 -> Nat] : IsSum(sum, <<>>)
    BY <1>1, SumExists
  <1>3. Bytes(<<>>) = sum[0]
    BY <1>1, <1>2, BytesOfSum
  <1>4. QED
    BY <1>2, <1>3 DEF IsSum, IsSumTo

LEMMA BytesAppend ==
    ASSUME NEW q \in Seq(Message), NEW m \in Message
    PROVE  Bytes(Append(q, m)) = Bytes(q) + LenOf[m.from]
  <1> DEFINE n == Len(q)
             r == Append(q, m)
  <1>1. n \in Nat /\ r \in Seq(Message) /\ Len(r) = n + 1
    OBVIOUS
  <1>2. PICK f \in [0..n -> Nat] : IsSum(f, q)
    BY SumExists
  <1>3. PICK g \in [0..n+1 -> Nat] : IsSum(g, r)
    BY <1>1, SumExists
  <1>4. \A i \in 1..n : r[i] = q[i]
    OBVIOUS
  <1>5. r[n+1] = m
    OBVIOUS
  <1> HIDE DEF r, n
  <1>6. IsSumTo(f, q, n)
    BY <1>2 DEF IsSum, n
  <1>7. IsSumTo(g, q, n)
    BY <1>1, <1>3, <1>4 DEF IsSum, IsSumTo
  <1>8. f[n] = g[n]
    <2>1. n \in 0..n /\ n \in Nat
      BY <1>1
    <2>2. AgreeTo(f, g, n)
      BY <1>6, <1>7, <2>1, SumUnique
    <2>3. QED
      BY <2>1, <2>2 DEF AgreeTo
  <1>9. g[n+1] = g[n] + LenOf[m.from]
    BY <1>1, <1>3, <1>5 DEF IsSum, IsSumTo
  <1>10. Bytes(q) = f[n]
    BY <1>2, BytesOfSum DEF n
  <1>11. Bytes(r) = g[n+1]
    BY <1>1, <1>3, BytesOfSum
  <1>12. QED
    BY <1>8, <1>9, <1>10, <1>11 DEF r

LEMMA BytesTail ==
    ASSUME NEW q \in Seq(Message), q # <<>>
    PROVE  Bytes(q) = LenOf[Head(q).from] + Bytes(Tail(q))
  <1> DEFINE n == Len(q)
             r == Tail(q)
  <1>1. n \in Nat \ {0} /\ r \in Seq(Message) /\ Len(r) = n - 1 /\ Head(q) = q[1]
    OBVIOUS
  <1>2. PICK f \in [0..n -> Nat] : IsSum(f, q)
    BY SumExists
  <1>3. PICK g \in [0..n-1 -> Nat] : IsSum(g, r)
    BY <1>1, SumExists
  <1>4. \A i \in 1..n-1 : r[i] = q[i+1]
    OBVIOUS
  <1> HIDE DEF r, n
  <1> DEFINE len == LenOf[q[1].from]
             h == [i \in 0..n-1 |-> len + g[i]]
  <1>5. len \in Nat
    BY <1>1, LengthsAreNumbers DEF n
  <1>6. f[0] = 0 /\ \A i \in 1..n : f[i] = f[i-1] + LenOf[q[i].from]
    BY <1>2 DEF IsSum, IsSumTo, n
  <1>7. g[0] = 0 /\ \A i \in 1..n-1 : g[i] = g[i-1] + LenOf[q[i+1].from]
    BY <1>1, <1>3, <1>4 DEF IsSum, IsSumTo
  <1>8. \A i \in 1..n-1 : LenOf[q[i+1].from] \in Nat
    BY <1>1, LengthsAreNumbers DEF n
  <1> HIDE DEF len
  \* f is ahead of g by the head.
  <1>9. \A i \in 0..n-1 : f[i+1] = len + g[i]
    <2> DEFINE S == { i \in 0..n-1 : f[i+1] = len + g[i] }
    <2>1. 0 \in S
      <3>1. f[1] = f[0] + LenOf[q[1].from]
        BY <1>1, <1>6
      <3>2. QED
        BY <1>1, <1>5, <1>6, <1>7, <3>1 DEF len
    <2>2. ASSUME NEW k \in 1..n-1, k - 1 \in S
          PROVE  k \in S
      <3>1. f[k] = len + g[k-1]
        BY <1>1, <2>2
      <3>2. f[k+1] = f[k] + LenOf[q[k+1].from]
        BY <1>1, <1>6
      <3>3. g[k] = g[k-1] + LenOf[q[k+1].from]
        BY <1>7
      <3>4. k - 1 \in 0..n-1 /\ k \in 0..n-1
        BY <1>1
      <3>5. g[k-1] \in Nat
        BY <1>3, <3>4
      <3>6. LenOf[q[k+1].from] \in Nat
        BY <1>8
      <3>7. f[k+1] = len + g[k]
        BY <1>5, <3>1, <3>2, <3>3, <3>5, <3>6
      <3>8. QED
        BY <3>4, <3>7
    <2>3. n - 1 \in Nat
      BY <1>1
    <2>4. 0..n-1 \subseteq S
      <3> HIDE DEF S
      <3>1. QED
        BY <2>1, <2>2, <2>3, UpTo
    <2>5. QED
      BY <2>4
  <1>10. f[n] = len + g[n-1]
    <2>1. n - 1 \in 0..n-1 /\ (n - 1) + 1 = n
      BY <1>1
    <2>2. QED
      BY <1>9, <2>1
  <1>11. Bytes(q) = f[n]
    BY <1>2, BytesOfSum DEF n
  <1>12. Bytes(r) = g[n-1]
    BY <1>1, <1>3, BytesOfSum
  <1>13. QED
    BY <1>1, <1>10, <1>11, <1>12 DEF r, len

\* As many messages, each of at least len bytes.
LEMMA BytesAtLeast ==
    ASSUME NEW q \in Seq(Message), NEW len \in Nat,
           \A c \in Source : len <= LenOf[c]
    PROVE  Len(q) * len <= Bytes(q)
  <1>1. PICK f \in [0..Len(q) -> Nat] : IsSum(f, q)
    BY SumExists
  <1> DEFINE n == Len(q)
             S == { i \in 0..n : i * len <= f[i] }
  <1>2. f[0] = 0 /\ \A i \in 1..n : f[i] = f[i-1] + LenOf[q[i].from]
    BY <1>1 DEF IsSum, IsSumTo
  <1>3. \A i \in 1..n : q[i] \in Message /\ LenOf[q[i].from] \in Nat
    BY LengthsAreNumbers
  <1>4. \A i \in 1..n : len <= LenOf[q[i].from]
    BY <1>3 DEF Message
  <1>5. n \in Nat
    OBVIOUS
  <1> HIDE DEF n
  <1>6. 0 \in S
    BY <1>2, <1>5
  <1>7. ASSUME NEW k \in 1..n, k - 1 \in S
        PROVE  k \in S
    <2>1. f[k] = f[k-1] + LenOf[q[k].from]
      BY <1>2
    <2>2. k * len = (k-1) * len + len /\ (k-1) * len \in Nat
      BY <1>5
    <2>3. (k-1) * len <= f[k-1]
      BY <1>7
    <2>4. f[k-1] \in Nat
      BY <1>1, <1>5 DEF n
    <2>5. k * len <= f[k]
      BY <1>3, <1>4, <2>1, <2>2, <2>3, <2>4
    <2>6. QED
      BY <1>5, <2>5
  <1>8. 0..n \subseteq S
    <2> HIDE DEF S
    <2>1. QED
      BY <1>5, <1>6, <1>7, UpTo
  <1>9. n * len <= f[n]
    BY <1>5, <1>8
  <1>10. Bytes(q) = f[n]
    BY <1>1, BytesOfSum DEF n
  <1>11. QED
    BY <1>9, <1>10 DEF n

-----------------------------------------------------------------------------
(* The invariant.                                                          *)

\* The writer lives while a recording is in progress, and is gone when Stop
\* writes what is left.
Control ==
    /\ running = (recording /\ user = "idle")
    /\ ~ recording => user = "idle" /\ writer.pc = "none" /\ log = NoLog
    /\ user \in {"flush", "close"} => writer.pc = "none"

\* A callback queues the last message its thread was called with, once, and
\* what is discarded or given up had been queued.
Numbered ==
    /\ \A c \in Source : callback[c] = "push" => received[c] > 0
    /\ \A i \in DOMAIN taken :
          /\ taken[i].seq <= received[taken[i].from]
          /\ callback[taken[i].from] = "push" => taken[i].seq < received[taken[i].from]
    /\ dropped \cup lost \subseteq Range(taken)

\* From the end of the flush to the next Start each thread queues one message
\* at most, its last one.
Late ==
    user = "close" \/ ~ recording =>
        \A c \in Source :
            /\ \A i, j \in DOMAIN queue :
                  queue[i].from = c /\ queue[j].from = c => i = j
            /\ callback[c] = "push" => \A i \in DOMAIN queue : queue[i].from # c

\* No row has waited for longer than the transaction it is in has lasted, and
\* none joins those of a transaction that is over.
Waits ==
    /\ ~ log.inTransaction => log.pending = <<>>
    /\ log.pending = <<>> => waiting = 0 /\ spread = 0
    /\ waiting <= log.age \/ log.age > TransactionPeriod
    /\ failures = 0 => spread <= TransactionPeriod

Inv == TypeOK /\ Control /\ Numbered /\ Conserved /\ Late /\ Waits

-----------------------------------------------------------------------------
(* The handle of the log: what its operations leave alone.                 *)

LogFields == {"open", "committed", "pending", "keys", "inTransaction", "age",
              "needNewDescriptor", "descriptor", "startTime", "endTime"}

LEMMA FieldsOfLog == DOMAIN NewLog = LogFields
  BY DEF NewLog, LogFields

\* k holds the rows that l holds, and is as far in its transaction.
SameRows(l, k) ==
    /\ DOMAIN k = LogFields
    /\ k.committed = l.committed
    /\ k.pending = l.pending
    /\ k.inTransaction = l.inTransaction
    /\ k.age = l.age

LEMMA DescriptorRead ==
    ASSUME NEW l, DOMAIN l = LogFields
    PROVE  SameRows(l, WithDescriptor(l))
  BY DEF WithDescriptor, SameRows, LogFields

LEMMA TopicInserted ==
    ASSUME NEW l, DOMAIN l = LogFields, NEW row
    PROVE  SameRows(l, InsertOrGetTopicId(l, row))
  <1> DEFINE k == WithDescriptor(l)
  <1>1. SameRows(l, k)
    BY DescriptorRead
  <1> HIDE DEF k
  <1>2. SameRows(l, InsertTopic(k, row))
    BY <1>1 DEF SameRows, InsertTopic, LogFields
  <1>3. InsertOrGetTopicId(l, row) \in {k, InsertTopic(k, row)}
    BY DEF InsertOrGetTopicId, k
  <1>4. QED
    BY <1>1, <1>2, <1>3

\* The transaction that an insertion finds or begins.
LEMMA TransactionBegun ==
    ASSUME NEW l, DOMAIN l = LogFields, l.inTransaction \in BOOLEAN
    PROVE  LET k == BeginTransactionIfNotInOne(l)
           IN  /\ DOMAIN k = LogFields
               /\ k.committed = l.committed
               /\ k.pending = l.pending
               /\ k.inTransaction = TRUE
               /\ k.age = IF l.inTransaction THEN l.age ELSE 0
  BY DEF BeginTransactionIfNotInOne, LogFields

LEMMA RowKept ==
    ASSUME NEW l, DOMAIN l = LogFields, l.inTransaction \in BOOLEAN, NEW row
    PROVE  LET k == Kept(l, row)
           IN  /\ DOMAIN k = LogFields
               /\ k.committed = l.committed
               /\ k.pending = Append(l.pending, row)
               /\ k.inTransaction = TRUE
               /\ k.age = IF l.inTransaction THEN l.age ELSE 0
  <1> DEFINE b == BeginTransactionIfNotInOne(l)
             t == InsertOrGetTopicId(b, row)
  <1>1. DOMAIN b = LogFields
    BY TransactionBegun
  <1>2. SameRows(b, t)
    BY <1>1, TopicInserted
  <1>3. Kept(l, row) = InsertRow(t, row)
    BY DEF Kept
  <1> HIDE DEF t
  <1>4. /\ DOMAIN InsertRow(t, row) = LogFields
        /\ InsertRow(t, row).committed = t.committed
        /\ InsertRow(t, row).pending = Append(t.pending, row)
        /\ InsertRow(t, row).inTransaction = t.inTransaction
        /\ InsertRow(t, row).age = t.age
    BY <1>2 DEF InsertRow, SameRows, LogFields
  <1> HIDE DEF b
  <1>5. /\ b.committed = l.committed
        /\ b.pending = l.pending
        /\ b.inTransaction = TRUE
        /\ b.age = IF l.inTransaction THEN l.age ELSE 0
    BY TransactionBegun DEF b
  <1>6. QED
    BY <1>2, <1>3, <1>4, <1>5 DEF SameRows

LEMMA TransactionEnded ==
    ASSUME NEW l, DOMAIN l = LogFields
    PROVE  LET k == EndTransaction(l)
           IN  /\ DOMAIN k = LogFields
               /\ k.committed = l.committed \o l.pending
               /\ k.pending = <<>>
               /\ k.inTransaction = FALSE
               /\ k.age = l.age
  BY DEF EndTransaction, LogFields

\* A row that is refused, or whose insertion fails, leaves the rows as they were;
\* a transaction may have begun.
LEMMA RowRefused ==
    ASSUME NEW l, DOMAIN l = LogFields, l.inTransaction \in BOOLEAN, NEW row,
           NEW k \in InsertFailed(l, row) \cup {EmptyRefused(l, row)}
    PROVE  SameRows(l, k) \/ SameRows(BeginTransactionIfNotInOne(l), k)
  <1> DEFINE b == BeginTransactionIfNotInOne(l)
             t == InsertOrGetTopicId(b, row)
             read == WithDescriptor(b)
  <1>1. DOMAIN b = LogFields
    BY TransactionBegun
  <1> HIDE DEF b
  <1>2. SameRows(b, t) /\ SameRows(b, read)
    BY <1>1, TopicInserted, DescriptorRead
  <1> HIDE DEF t, read
  <1>3. SameRows(b, Unset(t))
    BY <1>2 DEF SameRows, Unset, LogFields
  <1> DEFINE again == [read EXCEPT !.needNewDescriptor = TRUE]
  <1>4. SameRows(b, again)
    BY <1>2 DEF SameRows, LogFields
  <1> HIDE DEF again
  <1>5. SameRows(b, Unset(again))
    BY <1>4 DEF SameRows, Unset, LogFields
  <1>6. k \in {l, b, t, Unset(t), again, Unset(again)}
    BY DEF InsertFailed, EmptyRefused, b, t, read, again
  <1>7. SameRows(l, l) /\ SameRows(b, b)
    BY <1>1 DEF SameRows
  <1>8. QED
    BY <1>2, <1>3, <1>4, <1>5, <1>6, <1>7 DEF b

-----------------------------------------------------------------------------
(* Rows and messages.                                                      *)

LEMMA AppendedIsConcat ==
    ASSUME NEW S, NEW s \in Seq(S), NEW x \in S
    PROVE  Append(s, x) = s \o <<x>>
  <1>1. Append(s, x) \in Seq(S) /\ s \o <<x>> \in Seq(S) /\ <<x>> \in Seq(S)
    BY ConcatProperties
  <1>2. Len(Append(s, x)) = Len(s) + 1 /\ Len(s \o <<x>>) = Len(s) + 1
    BY <1>1, ConcatProperties
  <1>3. \A i \in 1..Len(s) + 1 : Append(s, x)[i] = (s \o <<x>>)[i]
    OBVIOUS
  <1>4. QED
    BY <1>1, <1>2, <1>3, SeqEqual

LEMMA ConcatAppend ==
    ASSUME NEW S, NEW s \in Seq(S), NEW t \in Seq(S), NEW x \in S
    PROVE  s \o Append(t, x) = Append(s \o t, x)
  <1>1. <<x>> \in Seq(S) /\ s \o t \in Seq(S)
    BY ConcatProperties
  <1>2. s \o (t \o <<x>>) = (s \o t) \o <<x>>
    BY <1>1, ConcatAssociative
  <1>3. QED
    BY <1>1, <1>2, AppendedIsConcat

LEMMA RowTyped ==
    ASSUME NEW m \in Message
    PROVE  Row(m) \in LogRow /\ Row(m).msg = m
  BY DEF Message, Row, LogRow

LEMMA MessagesTyped ==
    ASSUME NEW rows \in Seq(LogRow)
    PROVE  Messages(rows) \in Seq(Message) /\ Len(Messages(rows)) = Len(rows)
  <1>1. \A i \in 1..Len(rows) : rows[i].msg \in Message
    <2> TAKE i \in 1..Len(rows)
    <2>1. rows[i] \in LogRow
      OBVIOUS
    <2>2. QED
      BY <2>1 DEF LogRow
  <1>2. QED
    BY <1>1 DEF Messages

LEMMA MessagesConcat ==
    ASSUME NEW rows \in Seq(LogRow), NEW more \in Seq(LogRow)
    PROVE  Messages(rows \o more) = Messages(rows) \o Messages(more)
  <1>1. /\ Messages(rows) \in Seq(Message) /\ Len(Messages(rows)) = Len(rows)
        /\ Messages(more) \in Seq(Message) /\ Len(Messages(more)) = Len(more)
        /\ Messages(rows \o more) \in Seq(Message)
        /\ Len(Messages(rows \o more)) = Len(rows \o more)
    BY MessagesTyped, ConcatProperties
  <1>2. \A i \in 1..Len(rows \o more) :
            Messages(rows \o more)[i] = (Messages(rows) \o Messages(more))[i]
    BY <1>1 DEF Messages
  <1>3. Len(rows \o more) = Len(Messages(rows) \o Messages(more))
    <2>1. Len(rows \o more) = Len(rows) + Len(more)
      BY ConcatProperties
    <2>2. Len(Messages(rows) \o Messages(more)) = Len(Messages(rows)) + Len(Messages(more))
      BY <1>1, ConcatProperties
    <2>3. QED
      BY <1>1, <2>1, <2>2
  <1>4. Messages(rows) \o Messages(more) \in Seq(Message)
    BY <1>1, ConcatProperties
  <1>5. QED
    BY <1>1, <1>2, <1>3, <1>4, SeqEqual

LEMMA MessagesAppend ==
    ASSUME NEW rows \in Seq(LogRow), NEW m \in Message
    PROVE  Messages(Append(rows, Row(m))) = Append(Messages(rows), m)
  <1> DEFINE a == Messages(Append(rows, Row(m)))
             b == Append(Messages(rows), m)
  <1>1. Row(m) \in LogRow /\ Row(m).msg = m
    BY RowTyped
  <1>2. Append(rows, Row(m)) \in Seq(LogRow) /\ Len(Append(rows, Row(m))) = Len(rows) + 1
    BY <1>1
  <1>3. Messages(rows) \in Seq(Message) /\ Len(Messages(rows)) = Len(rows)
    BY MessagesTyped
  <1>4. a \in Seq(Message) /\ Len(a) = Len(rows) + 1
    BY <1>2, MessagesTyped
  <1>5. b \in Seq(Message) /\ Len(b) = Len(rows) + 1
    BY <1>3
  <1>6. ASSUME NEW i \in 1..Len(rows) + 1
        PROVE  a[i] = b[i]
    <2>1. a[i] = Append(rows, Row(m))[i].msg
      BY <1>2 DEF Messages
    <2>2. CASE i = Len(rows) + 1
      <3>1. Append(rows, Row(m))[i] = Row(m)
        BY <1>1, <2>2
      <3>2. b[i] = m
        BY <1>3, <2>2
      <3>3. QED
        BY <1>1, <2>1, <3>1, <3>2
    <2>3. CASE i \in 1..Len(rows)
      <3>1. b[i] = Messages(rows)[i] /\ Append(rows, Row(m))[i] = rows[i]
        BY <1>3, <2>3
      <3>2. Messages(rows)[i] = rows[i].msg
        BY <2>3 DEF Messages
      <3>3. QED
        BY <2>1, <3>1, <3>2
    <2>4. i = Len(rows) + 1 \/ i \in 1..Len(rows)
      OBVIOUS
    <2>5. QED
      BY <2>2, <2>3, <2>4
  <1> HIDE DEF a, b
  <1>7. a = b
    BY <1>4, <1>5, <1>6, SeqEqual
  <1>8. QED
    BY <1>7 DEF a, b

LEMMA MessagesEmpty == Messages(<<>>) = <<>>
  <1>1. DOMAIN <<>> = {}
    OBVIOUS
  <1>2. <<>> \in Seq(LogRow) /\ Len(<<>>) = 0
    OBVIOUS
  <1>3. Messages(<<>>) \in Seq(Message) /\ Len(Messages(<<>>)) = 0
    BY <1>2, MessagesTyped
  <1>4. QED
    BY <1>3, EmptySeq

-----------------------------------------------------------------------------
(* One call of WriteToLogFile during a recording.                          *)

\* The row is at the end of the log, or the message is given up; no row waits
\* for longer than the transaction has lasted.
LEMMA WriteEffect ==
    ASSUME TypeOK, Waits, recording, NEW m \in Message, WriteToLogFile(m)
    PROVE  /\ files' = files
           /\ DOMAIN log' = DOMAIN NewLog
           /\ log'.committed \in Seq(LogRow) /\ log'.pending \in Seq(LogRow)
           /\ log'.inTransaction \in BOOLEAN /\ log'.age \in 0..TransactionPeriod + 1
           /\ waiting' \in 0..TransactionPeriod + 1 /\ spread' \in 0..TransactionPeriod + 1
           /\ failures' \in 0..MaxFailures
           /\ Waits'
           /\ \/ Table(log') = Append(Table(log), Row(m)) /\ lost' = lost
              \/ Table(log') = Table(log) /\ lost' = lost \cup {m}
  <1> DEFINE row == Row(m)
             b == BeginTransactionIfNotInOne(log)
             k == Kept(log, row)
             e == EndTransaction(k)
  <1>1. /\ DOMAIN log = LogFields
        /\ log.committed \in Seq(LogRow) /\ log.pending \in Seq(LogRow)
        /\ log.inTransaction \in BOOLEAN /\ log.age \in 0..TransactionPeriod + 1
        /\ waiting \in 0..TransactionPeriod + 1 /\ spread \in 0..TransactionPeriod + 1
        /\ failures \in 0..MaxFailures /\ MaxFailures \in Nat
    BY FieldsOfLog, BoundAssumption DEF TypeOK
  <1>2. row \in LogRow
    BY RowTyped
  <1>3. /\ DOMAIN b = LogFields
        /\ b.committed = log.committed
        /\ b.pending = log.pending
        /\ b.inTransaction = TRUE
        /\ b.age = IF log.inTransaction THEN log.age ELSE 0
    BY <1>1, TransactionBegun
  <1>4. /\ DOMAIN k = LogFields
        /\ k.committed = log.committed
        /\ k.pending = Append(log.pending, row)
        /\ k.inTransaction = TRUE
        /\ k.age = IF log.inTransaction THEN log.age ELSE 0
    BY <1>1, RowKept
  <1> HIDE DEF b, k
  <1>5. /\ DOMAIN e = LogFields
        /\ e.committed = k.committed \o k.pending
        /\ e.pending = <<>>
        /\ e.inTransaction = FALSE
        /\ e.age = k.age
    BY <1>4, TransactionEnded
  <1> HIDE DEF e
  <1>6. TransactionPeriod = 2 /\ 0..TransactionPeriod + 1 = 0..3
    BY DEF TransactionPeriod
  <1>7. k.age \in 0..3 /\ b.age \in 0..3
    BY <1>1, <1>3, <1>4, <1>6
  <1>8. k.pending \in Seq(LogRow) /\ k.pending # <<>>
    BY <1>1, <1>2, <1>4
  <1>9. Table(k) = Append(Table(log), row)
    <2>1. log.committed \o Append(log.pending, row) = Append(log.committed \o log.pending, row)
      <3>1. \A s, t \in Seq(LogRow), x \in LogRow : s \o Append(t, x) = Append(s \o t, x)
        BY ConcatAppend
      <3> HIDE DEF row
      <3>2. QED
        BY <1>1, <1>2, <3>1, Zenon
    <2>2. QED
      BY <1>4, <2>1 DEF Table
  <1>10. Table(e) = Append(Table(log), row)
    <2>1. e.committed \o <<>> = e.committed
      <3>1. e.committed \in Seq(LogRow)
        BY <1>1, <1>4, <1>5, <1>8, ConcatProperties
      <3>2. QED
        BY <3>1, ConcatEmptySeq
    <2>2. Table(e) = Table(k)
      BY <1>5, <2>1 DEF Table
    <2>3. QED
      BY <1>9, <2>2
  <1>11. e.committed \in Seq(LogRow) /\ <<>> \in Seq(LogRow)
    BY <1>1, <1>4, <1>5, <1>8, ConcatProperties
  <1>12. files' = files /\ waiting' = Waiting(log') /\ spread' = Spread(log')
    BY DEF WriteToLogFile
  <1>13. waiting' \in 0..TransactionPeriod + 1 /\ spread' \in 0..TransactionPeriod + 1
    BY <1>1, <1>6, <1>12 DEF Waiting, Spread
  <1>14. failures' \in 0..MaxFailures /\ (failures' = failures \/ failures' > 0)
    <2>1. failures' = failures \/ (failures < MaxFailures /\ failures' = failures + 1)
      BY DEF WriteToLogFile, Fails
    <2>2. QED
      BY <1>1, <2>1
  \* What the four ways of WriteToLogFile come to.
  <1>15. \/ log' = k /\ lost' = lost /\ (failures' = 0 => k.age <= 2)
         \/ log' = e /\ lost' = lost
         \/ SameRows(log, log') /\ lost' = lost \cup {m}
         \/ SameRows(b, log') /\ lost' = lost \cup {m}
    <2>1. CASE LenOf[m.from] # 0 /\ log' = Inserted(log, row) /\ UNCHANGED <<lost, failures>>
      BY <1>6, <1>7, <2>1 DEF Inserted, TimeForNewTransaction, k, e
    <2>2. CASE log' = EmptyRefused(log, row) /\ lost' = lost \cup {m}
      BY <1>1, <2>2, RowRefused DEF b
    <2>3. CASE log' \in InsertFailed(log, row) /\ lost' = lost \cup {m}
      BY <1>1, <2>3, RowRefused DEF b
    <2>4. CASE LenOf[m.from] # 0 /\ Fails /\ log' \in EndFailed(log, row) /\ UNCHANGED lost
      <3>1. failures' # 0
        BY <1>1, <2>4 DEF Fails
      <3>2. QED
        BY <2>4, <3>1 DEF EndFailed, k
    <2>5. QED
      BY <2>1, <2>2, <2>3, <2>4 DEF WriteToLogFile
  \* A row that joins a transaction has not waited for longer than it lasts.
  <1>16. waiting <= k.age \/ k.age > 2
    BY <1>1, <1>4, <1>6 DEF Waits
  <1>17. waiting <= b.age \/ b.age > 2
    BY <1>1, <1>3, <1>6 DEF Waits
  <1>18. CASE log' = k /\ lost' = lost /\ (failures' = 0 => k.age <= 2)
    <2>1. waiting' = waiting
      BY <1>8, <1>12, <1>18 DEF Waiting
    <2>2. Table(log') = Append(Table(log), row)
      BY <1>9, <1>18
    <2>3. spread' = waiting
      <3>1. Table(log) \in Seq(LogRow)
        BY <1>1, ConcatProperties DEF Table
      <3>2. Len(Table(log')) > Len(Table(log))
        <4> HIDE DEF row
        <4>1. QED
          BY <1>2, <2>2, <3>1
      <3>3. QED
        BY <1>12, <2>1, <3>2 DEF Spread
    <2>4. Waits'
      BY <1>1, <1>4, <1>6, <1>7, <1>8, <1>16, <1>18, <2>1, <2>3 DEF Waits
    <2>5. /\ DOMAIN log' = DOMAIN NewLog
          /\ log'.committed \in Seq(LogRow) /\ log'.pending \in Seq(LogRow)
          /\ log'.inTransaction \in BOOLEAN /\ log'.age \in 0..TransactionPeriod + 1
      BY <1>1, <1>4, <1>6, <1>7, <1>8, <1>18, FieldsOfLog
    <2>6. QED
      BY <1>12, <1>13, <1>14, <1>18, <2>2, <2>4, <2>5
  <1>19. CASE log' = e /\ lost' = lost
    <2>1. waiting' = 0 /\ spread' = 0
      BY <1>5, <1>12, <1>19 DEF Waiting, Spread
    <2>2. Waits'
      BY <1>4, <1>5, <1>6, <1>7, <1>19, <2>1 DEF Waits
    <2>3. Table(log') = Append(Table(log), row)
      BY <1>10, <1>19
    <2>4. /\ DOMAIN log' = DOMAIN NewLog
          /\ log'.committed \in Seq(LogRow) /\ log'.pending \in Seq(LogRow)
          /\ log'.inTransaction \in BOOLEAN /\ log'.age \in 0..TransactionPeriod + 1
      BY <1>5, <1>6, <1>7, <1>11, <1>19, FieldsOfLog
    <2>5. QED
      BY <1>12, <1>13, <1>14, <1>19, <2>2, <2>3, <2>4
  <1>20. CASE /\ SameRows(log, log') \/ SameRows(b, log')
              /\ lost' = lost \cup {m}
    <2>1. /\ DOMAIN log' = LogFields
          /\ log'.committed = log.committed
          /\ log'.pending = log.pending
          /\ \/ log'.inTransaction = log.inTransaction /\ log'.age = log.age
             \/ log'.inTransaction = TRUE /\ log'.age = b.age
      BY <1>1, <1>3, <1>20 DEF SameRows
    <2>2. waiting' = waiting
      BY <1>12, <2>1 DEF Waiting, Waits
    <2>3. Table(log') = Table(log)
      BY <2>1 DEF Table
    <2>4. spread' = IF log.pending = <<>> THEN 0 ELSE spread
      <3>1. Table(log) \in Seq(LogRow)
        BY <1>1, ConcatProperties DEF Table
      <3>2. Len(Table(log)) \in Nat
        BY <3>1
      <3>3. ~ (Len(Table(log')) > Len(Table(log)))
        BY <2>3, <3>2
      <3>4. QED
        BY <1>12, <2>1, <3>3 DEF Spread
    <2>5. Waits'
      BY <1>1, <1>6, <1>14, <1>17, <2>1, <2>2, <2>4 DEF Waits
    <2>6. /\ DOMAIN log' = DOMAIN NewLog
          /\ log'.committed \in Seq(LogRow) /\ log'.pending \in Seq(LogRow)
          /\ log'.inTransaction \in BOOLEAN /\ log'.age \in 0..TransactionPeriod + 1
      BY <1>1, <1>6, <1>7, <2>1, FieldsOfLog
    <2>7. QED
      BY <1>12, <1>13, <1>14, <1>20, <2>3, <2>4, <2>5, <2>6
  <1>21. QED
    BY <1>15, <1>18, <1>19, <1>20

-----------------------------------------------------------------------------
(* Order.                                                                  *)

\* Sequences of messages, and rows of the log, can be cut anywhere.
Associates(s, t, u) == (s \o t) \o u = s \o (t \o u)

LEMMA Associate ==
    /\ \A s, t, u \in Seq(Message) : Associates(s, t, u)
    /\ \A s, t, u \in Seq(LogRow) : Associates(s, t, u)
  <1>1. ASSUME NEW S, NEW s \in Seq(S), NEW t \in Seq(S), NEW u \in Seq(S)
        PROVE  Associates(s, t, u)
    BY DEF Associates
  <1>2. QED
    BY <1>1

LEMMA RangeMembers ==
    ASSUME NEW s \in Seq(Message)
    PROVE  /\ \A i \in 1..Len(s) : s[i] \in Range(s)
           /\ \A x \in Range(s) : \E i \in 1..Len(s) : x = s[i]
  <1>1. DOMAIN s = 1..Len(s)
    OBVIOUS
  <1>2. QED
    BY <1>1 DEF Range

LEMMA RestDistinct ==
    ASSUME NEW kept \in Seq(Message), NEW all \in Seq(Message), NEW gone,
           RestOf(kept, all, gone)
    PROVE  \A i, j \in 1..Len(kept) : kept[i] = kept[j] => i = j
  <1> SUFFICES ASSUME NEW i \in 1..Len(kept), NEW j \in 1..Len(kept), kept[i] = kept[j], i # j
               PROVE  FALSE
    OBVIOUS
  <1>1. PICK k \in 1..Len(all) : kept[i] = all[k]
    <2>1. kept[i] \in Range(all)
      BY RangeMembers DEF RestOf
    <2>2. QED
      BY <2>1, RangeMembers
  <1>2. i < j \/ j < i
    OBVIOUS
  <1>3. k < k
    <2>1. DOMAIN kept = 1..Len(kept) /\ DOMAIN all = 1..Len(all)
      OBVIOUS
    <2>2. QED
      BY <1>1, <1>2, <2>1 DEF RestOf
  <1>4. QED
    BY <1>3

\* What is taken out of the middle is gone, and the rest stays in order.
LEMMA RestRemoved ==
    ASSUME NEW A \in Seq(Message), NEW B \in Seq(Message), NEW C \in Seq(Message),
           NEW all \in Seq(Message), NEW gone,
           RestOf((A \o B) \o C, all, gone)
    PROVE  RestOf(A \o C, all, gone \cup Range(B))
  <1> DEFINE kept == (A \o B) \o C
             rest == A \o C
             a == Len(A)
             b == Len(B)
             c == Len(C)
             Old(i) == IF i <= a THEN i ELSE i + b
  <1>1. a \in Nat /\ b \in Nat /\ c \in Nat
    OBVIOUS
  <1>2. /\ A \o B \in Seq(Message) /\ Len(A \o B) = a + b
        /\ \A i \in 1..a + b : (A \o B)[i] = IF i <= a THEN A[i] ELSE B[i-a]
    BY ConcatProperties
  <1>3. /\ kept \in Seq(Message) /\ Len(kept) = a + b + c
        /\ \A i \in 1..a + b + c : kept[i] = IF i <= a + b THEN (A \o B)[i] ELSE C[i-(a+b)]
    BY <1>2, ConcatProperties
  <1>4. /\ rest \in Seq(Message) /\ Len(rest) = a + c
        /\ \A i \in 1..a + c : rest[i] = IF i <= a THEN A[i] ELSE C[i-a]
    BY ConcatProperties
  <1>5. RestOf(kept, all, gone)
    OBVIOUS
  <1>6. /\ \A i \in 1..b : B[i] \in Range(B)
        /\ \A x \in Range(B) : \E i \in 1..b : x = B[i]
    BY RangeMembers
  <1> HIDE DEF kept, rest, a, b, c
  <1>7. /\ \A i \in 1..a + b + c : kept[i] \in Range(kept)
        /\ \A x \in Range(kept) : \E i \in 1..a + b + c : x = kept[i]
        /\ \A i \in 1..a + c : rest[i] \in Range(rest)
        /\ \A x \in Range(rest) : \E i \in 1..a + c : x = rest[i]
    BY <1>3, <1>4, RangeMembers
  <1>8. \A i \in 1..a + c : Old(i) \in 1..a + b + c /\ rest[i] = kept[Old(i)]
    <2> TAKE i \in 1..a + c
    <2>1. CASE i <= a
      <3>1. i \in 1..a + b /\ i \in 1..a + b + c /\ i <= a + b
        BY <1>1, <2>1
      <3>2. kept[i] = (A \o B)[i]
        BY <1>3, <3>1
      <3>3. (A \o B)[i] = A[i]
        BY <1>2, <2>1, <3>1
      <3>4. rest[i] = A[i]
        BY <1>4, <2>1
      <3>5. QED
        BY <2>1, <3>1, <3>2, <3>3, <3>4
    <2>2. CASE i > a
      <3>1. i + b \in 1..a + b + c /\ ~ (i + b <= a + b) /\ (i + b) - (a + b) = i - a
        BY <1>1, <2>2
      <3>2. kept[i+b] = C[(i + b) - (a + b)]
        BY <1>3, <3>1
      <3>3. QED
        BY <1>1, <1>4, <2>2, <3>1, <3>2
    <2>3. QED
      BY <1>1, <2>1, <2>2
  <1>9. \A i \in 1..b : i + a \in 1..a + b + c /\ kept[i+a] = B[i]
    <2> TAKE i \in 1..b
    <2>1. /\ i + a \in 1..a + b /\ i + a \in 1..a + b + c
          /\ i + a <= a + b /\ ~ (i + a <= a) /\ (i + a) - a = i
      BY <1>1
    <2>2. (A \o B)[i+a] = B[(i + a) - a]
      BY <1>2, <2>1
    <2>3. kept[i+a] = (A \o B)[i+a]
      BY <1>3, <2>1
    <2>4. QED
      BY <2>1, <2>2, <2>3
  <1>10. \A i \in 1..a + c, j \in 1..b : Old(i) # j + a
    BY <1>1
  <1>11. \A i, j \in 1..a + c : i < j => Old(i) < Old(j)
    BY <1>1
  \* A place of kept that rest does not have is one of B's.
  <1>12. \A i \in 1..a + b + c : (\E j \in 1..b : i = j + a) \/ (\E j \in 1..a + c : i = Old(j))
    <2> TAKE i \in 1..a + b + c
    <2>1. CASE i <= a
      <3>1. i \in 1..a + c /\ i = Old(i)
        BY <1>1, <2>1
      <3>2. QED
        BY <3>1
    <2>2. CASE i > a /\ i <= a + b
      <3>1. i - a \in 1..b /\ i = (i - a) + a
        BY <1>1, <2>2
      <3>2. QED
        BY <3>1
    <2>3. CASE i > a + b
      <3>1. i - b \in 1..a + c /\ i = Old(i - b)
        BY <1>1, <2>3
      <3>2. QED
        BY <3>1
    <2>4. QED
      BY <1>1, <2>1, <2>2, <2>3
  <1> HIDE DEF Old
  <1>13. DOMAIN rest = 1..a + c /\ DOMAIN kept = 1..a + b + c
    BY <1>3, <1>4
  <1>14. \A i, j \in DOMAIN rest : \A k, l \in DOMAIN all :
            i < j /\ rest[i] = all[k] /\ rest[j] = all[l] => k < l
    BY <1>5, <1>8, <1>11, <1>13 DEF RestOf
  <1>15. Range(kept) = Range(all) \ gone
    BY <1>5 DEF RestOf
  <1>16. Range(rest) \subseteq Range(all) \ (gone \cup Range(B))
    <2> SUFFICES ASSUME NEW i \in 1..a + c
                 PROVE  rest[i] \in Range(all) \ (gone \cup Range(B))
      BY <1>7
    <2>1. rest[i] \in Range(all) \ gone
      BY <1>7, <1>8, <1>15
    <2>2. \A j \in 1..b : kept[Old(i)] # kept[j+a]
      <3>1. \A k, l \in 1..a + b + c : kept[k] = kept[l] => k = l
        BY <1>3, <1>5, RestDistinct
      <3>2. QED
        BY <1>8, <1>9, <1>10, <3>1
    <2>3. rest[i] \notin Range(B)
      BY <1>6, <1>8, <1>9, <2>2
    <2>4. QED
      BY <2>1, <2>3
  <1>17. Range(all) \ (gone \cup Range(B)) \subseteq Range(rest)
    <2> SUFFICES ASSUME NEW x \in Range(all) \ (gone \cup Range(B))
                 PROVE  x \in Range(rest)
      OBVIOUS
    <2>1. PICK i \in 1..a + b + c : x = kept[i]
      BY <1>7, <1>15
    <2>2. \A j \in 1..b : i # j + a
      BY <1>6, <1>9, <2>1
    <2>3. PICK j \in 1..a + c : i = Old(j)
      BY <1>12, <2>2
    <2>4. QED
      BY <1>7, <1>8, <2>1, <2>3
  <1>18. RestOf(rest, all, gone \cup Range(B))
    BY <1>14, <1>16, <1>17 DEF RestOf
  <1>19. QED
    BY <1>18 DEF rest

\* What is new comes last.
LEMMA RestAppended ==
    ASSUME NEW kept \in Seq(Message), NEW all \in Seq(Message), NEW gone,
           RestOf(kept, all, gone), NEW m \in Message, m \notin Range(all), m \notin gone
    PROVE  RestOf(Append(kept, m), Append(all, m), gone)
  <1> DEFINE kept2 == Append(kept, m)
             all2 == Append(all, m)
             n == Len(kept)
             t == Len(all)
  <1>1. n \in Nat /\ t \in Nat
    OBVIOUS
  <1>2. /\ kept2 \in Seq(Message) /\ Len(kept2) = n + 1 /\ kept2[n+1] = m
        /\ \A i \in 1..n : kept2[i] = kept[i]
    OBVIOUS
  <1>3. /\ all2 \in Seq(Message) /\ Len(all2) = t + 1 /\ all2[t+1] = m
        /\ \A i \in 1..t : all2[i] = all[i]
    OBVIOUS
  <1>4. /\ \A i \in 1..n : kept[i] \in Range(kept)
        /\ \A x \in Range(kept) : \E i \in 1..n : x = kept[i]
        /\ \A i \in 1..t : all[i] \in Range(all)
        /\ \A x \in Range(all) : \E i \in 1..t : x = all[i]
    BY RangeMembers
  <1>5. DOMAIN kept = 1..n /\ DOMAIN all = 1..t
    OBVIOUS
  <1> HIDE DEF kept2, all2, n, t
  <1>6. /\ \A i \in 1..n+1 : kept2[i] \in Range(kept2)
        /\ \A x \in Range(kept2) : \E i \in 1..n+1 : x = kept2[i]
        /\ \A i \in 1..t+1 : all2[i] \in Range(all2)
        /\ \A x \in Range(all2) : \E i \in 1..t+1 : x = all2[i]
    BY <1>2, <1>3, RangeMembers
  <1>7. DOMAIN kept2 = 1..n+1 /\ DOMAIN all2 = 1..t+1
    BY <1>2, <1>3
  <1>8. \A i \in 1..n+1 : i \in 1..n \/ i = n+1
    BY <1>1
  <1>9. \A i \in 1..t+1 : i \in 1..t \/ i = t+1
    BY <1>1
  <1>10. 1..n \subseteq 1..n+1 /\ n+1 \in 1..n+1 /\ 1..t \subseteq 1..t+1 /\ t+1 \in 1..t+1
    BY <1>1
  <1>11. Range(kept2) = Range(kept) \cup {m} /\ Range(all2) = Range(all) \cup {m}
    <2>1. Range(kept2) \subseteq Range(kept) \cup {m}
      BY <1>2, <1>4, <1>6, <1>8
    <2>2. Range(kept) \cup {m} \subseteq Range(kept2)
      <3>1. m \in Range(kept2)
        BY <1>2, <1>6, <1>10
      <3>2. \A i \in 1..n : kept[i] \in Range(kept2)
        BY <1>2, <1>6, <1>10
      <3>3. QED
        BY <1>4, <3>1, <3>2
    <2>3. Range(all2) \subseteq Range(all) \cup {m}
      BY <1>3, <1>4, <1>6, <1>9
    <2>4. Range(all) \cup {m} \subseteq Range(all2)
      <3>1. m \in Range(all2)
        BY <1>3, <1>6, <1>10
      <3>2. \A i \in 1..t : all[i] \in Range(all2)
        BY <1>3, <1>6, <1>10
      <3>3. QED
        BY <1>4, <3>1, <3>2
    <2>5. QED
      BY <2>1, <2>2, <2>3, <2>4
  <1>12. Range(kept) = Range(all) \ gone
    BY DEF RestOf
  <1>13. Range(kept2) = Range(all2) \ gone
    BY <1>11, <1>12
  <1>14. ASSUME NEW i \in 1..n+1, NEW j \in 1..n+1, NEW k \in 1..t+1, NEW l \in 1..t+1,
                i < j, kept2[i] = all2[k], kept2[j] = all2[l]
         PROVE  k < l
    <2>1. i \in 1..n
      BY <1>1, <1>14
    <2>2. kept2[i] \in Range(all)
      BY <1>2, <1>4, <1>12, <2>1
    <2>3. k \in 1..t
      BY <1>3, <1>9, <1>14, <2>2
    <2>4. CASE l = t+1
      BY <1>1, <2>3, <2>4
    <2>5. CASE l \in 1..t
      <3>1. kept2[j] \in Range(all)
        BY <1>3, <1>4, <1>14, <2>5
      <3>2. j \in 1..n
        BY <1>2, <1>8, <3>1
      <3>3. kept[i] = all[k] /\ kept[j] = all[l]
        BY <1>2, <1>3, <1>14, <2>1, <2>3, <2>5, <3>2
      <3>4. QED
        BY <1>5, <1>14, <2>1, <2>3, <2>5, <3>2, <3>3 DEF RestOf
    <2>6. QED
      BY <1>9, <2>4, <2>5
  <1>15. RestOf(kept2, all2, gone)
    BY <1>7, <1>13, <1>14 DEF RestOf
  <1>16. QED
    BY <1>15 DEF kept2, all2

-----------------------------------------------------------------------------
(* Types, control, and how long rows wait.                                 *)

Base == TypeOK /\ Control /\ Waits

LEMMA NewLogTyped ==
    /\ DOMAIN NewLog = LogFields /\ DOMAIN NoLog = LogFields
    /\ \A l \in {NewLog, NoLog} :
          l.committed = <<>> /\ l.pending = <<>> /\ l.inTransaction = FALSE /\ l.age = 0
  BY FieldsOfLog DEF NewLog, NoLog

LEMMA EmptyTable ==
    \A l \in {NewLog, NoLog} : Table(l) = <<>>
  <1>1. <<>> \o <<>> = <<>>
    <2>1. <<>> \in Seq(LogRow)
      OBVIOUS
    <2>2. QED
      BY <2>1, ConcatEmptySeq
  <1>2. QED
    BY <1>1, NewLogTyped DEF Table

LEMMA BaseInit == Init => Base
  <1> SUFFICES ASSUME Init PROVE Base
    OBVIOUS
  <1>1. <<>> \in Seq(Message) /\ <<>> \in Seq(LogRow)
    OBVIOUS
  <1>2. /\ MaxRecordings \in Nat /\ MaxFailures \in Nat /\ MaxWakeups \in Nat
        /\ MaxCrashes \in Nat /\ Quota \in [Source -> Nat]
    BY BoundAssumption
  <1>3. /\ DOMAIN log = DOMAIN NewLog
        /\ log.committed = <<>> /\ log.pending = <<>> /\ log.inTransaction = FALSE /\ log.age = 0
    BY NewLogTyped DEF Init
  <1>4. TransactionPeriod = 2
    BY DEF TransactionPeriod
  <1>5. received \in [Source -> Nat] /\ \A c \in Source : received[c] <= Quota[c]
    BY <1>2 DEF Init
  <1>6. writer \in WriterState /\ writer.pc = "none"
    BY DEF Init, At, WriterState
  <1>7. TypeOK
    <2>1. /\ started \in 0..MaxRecordings /\ failures \in 0..MaxFailures
          /\ wakeups \in 0..MaxWakeups /\ waiting \in 0..TransactionPeriod + 1
          /\ crashes \in 0..MaxCrashes /\ spread \in 0..TransactionPeriod + 1
          /\ log.age \in 0..TransactionPeriod + 1 /\ bufferSize \in Nat
      BY <1>2, <1>3, <1>4 DEF Init
    <2>2. /\ queue \in Seq(Message) /\ taken \in Seq(Message) /\ files \in Seq(LogRow)
          /\ log.committed \in Seq(LogRow) /\ log.pending \in Seq(LogRow)
      BY <1>1, <1>3 DEF Init
    <2>3. /\ callback \in [Source -> {"idle", "push"}]
          /\ user \in {"idle", "notify", "join", "flush", "close"}
          /\ recording \in BOOLEAN /\ running \in BOOLEAN /\ missed \in BOOLEAN
          /\ dropped \in SUBSET Message /\ lost \in SUBSET Message
      BY DEF Init
    <2>4. log.inTransaction \in BOOLEAN
      BY <1>3
    <2>5. QED
      BY <1>3, <1>5, <1>6, <2>1, <2>2, <2>3, <2>4 DEF TypeOK
  <1>8. Control
    BY <1>6 DEF Init, Control
  <1>9. Waits
    BY <1>3, <1>4 DEF Init, Waits
  <1>10. QED
    BY <1>7, <1>8, <1>9 DEF Base

LEMMA NotifiedTyped ==
    ASSUME TypeOK
    PROVE  /\ Notified \in WriterState
           /\ writer.pc = "none" <=> Notified.pc = "none"
           /\ writer.pc = "write" <=> Notified.pc = "write"
           /\ writer.pc = "write" => Notified = writer
  BY DEF Notified, At, TypeOK, WriterState

LEMMA BaseReceive ==
    ASSUME Base, NEW c \in Source, Receive(c)
    PROVE  Base'
  <1> USE DEF Base
  <1>1. received' \in [Source -> Nat] /\ \A d \in Source : received'[d] <= Quota[d]
    <2>1. /\ received \in [Source -> Nat] /\ Quota \in [Source -> Nat]
          /\ \A d \in Source : received[d] <= Quota[d]
      BY BoundAssumption DEF TypeOK
    <2>2. received' = [received EXCEPT ![c] = @ + 1] /\ received[c] < Quota[c]
      BY DEF Receive
    <2>3. QED
      BY <2>1, <2>2
  <1>2. callback' \in [Source -> {"idle", "push"}]
    BY DEF Receive, TypeOK
  <1>3. UNCHANGED <<recording, running, queue, bufferSize, writer, user, started,
                    taken, dropped, lost, failures, log, files, waiting, spread, missed, wakeups, crashes>>
    BY DEF Receive, written
  <1>4. TypeOK'
    BY <1>1, <1>2, <1>3 DEF TypeOK
  <1>5. QED
    BY <1>3, <1>4 DEF Control, Waits

\* The message that a callback queues.
LEMMA PushTyped ==
    ASSUME TypeOK, Numbered, NEW c \in Source, callback[c] = "push"
    PROVE  [from |-> c, seq |-> received[c]] \in Message
  BY DEF TypeOK, Numbered, Message

LEMMA BasePush ==
    ASSUME Base, Numbered, NEW c \in Source, Push(c)
    PROVE  Base'
  <1> USE DEF Base
  <1> DEFINE m == [from |-> c, seq |-> received[c]]
  <1>1. m \in Message
    BY PushTyped DEF Push
  <1> HIDE DEF m
  <1>2. queue \in Seq(Message) /\ bufferSize \in Nat /\ taken \in Seq(Message)
        /\ dropped \in SUBSET Message /\ callback \in [Source -> {"idle", "push"}]
    BY DEF TypeOK
  <1>3. /\ taken' = Append(taken, m)
        /\ writer' = Notified
        /\ callback' = [callback EXCEPT ![c] = "idle"]
        /\ UNCHANGED <<recording, running, user, started, received, lost, failures, log,
                       files, waiting, spread, missed, wakeups, crashes>>
    BY DEF Push, written, m
  <1>4. LenOf[c] \in Nat
    BY BufferAssumption
  <1>5. queue' \in Seq(Message) /\ bufferSize' \in Nat /\ dropped' \in SUBSET Message
    <2>1. CASE Discards(c)
      <3>1. queue # <<>>
        BY <2>1 DEF Discards
      <3>2. Head(queue) \in Message /\ Tail(queue) \in Seq(Message)
        BY <1>2, <3>1, HeadTailProperties
      <3>3. LenOf[Head(queue).from] \in Nat
        BY <3>2, BufferAssumption DEF Message
      <3>4. Decremented(LenOf[Head(queue).from]) \in Nat
        BY <1>2, <3>3 DEF Decremented
      <3>5. /\ queue' = Append(Tail(queue), m)
            /\ bufferSize' = Decremented(LenOf[Head(queue).from]) + LenOf[c]
            /\ dropped' = dropped \cup {Head(queue)}
        BY <2>1 DEF Push, m
      <3>6. QED
        BY <1>1, <1>2, <1>4, <3>2, <3>4, <3>5
    <2>2. CASE ~ Discards(c)
      <3>1. queue' = Append(queue, m) /\ bufferSize' = bufferSize + LenOf[c] /\ dropped' = dropped
        BY <2>2 DEF Push, m
      <3>2. QED
        BY <1>1, <1>2, <1>4, <3>1
    <2>3. QED
      BY <2>1, <2>2
  <1>6. taken' \in Seq(Message)
    BY <1>1, <1>2, <1>3
  <1>7. writer' \in WriterState /\ (writer.pc = "none" <=> writer'.pc = "none")
    BY <1>3, NotifiedTyped
  <1>8. callback' \in [Source -> {"idle", "push"}]
    BY <1>2, <1>3
  <1>9. TypeOK'
    BY <1>3, <1>5, <1>6, <1>7, <1>8 DEF TypeOK
  <1>10. QED
    BY <1>3, <1>7, <1>9 DEF Control, Waits

LEMMA BaseWriter ==
    ASSUME Base, WriterRuns \/ SpuriousWakeup
    PROVE  Base'
  <1> USE DEF Base
  <1>1. ASSUME NEW pc \in {"none", "loop", "enter", "checked", "blocked"}, WriterStep(pc),
               pc = "none" => ~ running /\ recording, writer.pc # "none",
               wakeups' \in 0..MaxWakeups
        PROVE  Base'
    <2>1. writer' \in WriterState /\ writer'.pc = pc
      BY <1>1 DEF WriterStep, At, WriterState
    <2>2. UNCHANGED <<recording, running, queue, bufferSize, callback, user, started,
                      received, taken, dropped, lost, failures, log, files, waiting, spread, missed, crashes>>
      BY <1>1 DEF WriterStep, written
    <2>3. TypeOK'
      BY <1>1, <2>1, <2>2 DEF TypeOK
    <2>4. Control'
      BY <1>1, <2>1, <2>2 DEF Control
    <2>5. QED
      BY <2>2, <2>3, <2>4 DEF Waits
  <1>2. wakeups \in 0..MaxWakeups /\ MaxWakeups \in Nat
    BY BoundAssumption DEF TypeOK
  <1>3. CASE WriterLoop
    BY <1>1, <1>2, <1>3 DEF WriterLoop, Control
  <1>4. CASE WriterFindNothing
    BY <1>1, <1>2, <1>4 DEF WriterFindNothing
  <1>5. CASE WriterBlock
    BY <1>1, <1>2, <1>5 DEF WriterBlock
  <1>6. CASE SpuriousWakeup
    <2>1. wakeups' \in 0..MaxWakeups
      BY <1>2, <1>6 DEF SpuriousWakeup
    <2>2. QED
      BY <1>1, <1>6, <2>1 DEF SpuriousWakeup
  <1>7. CASE WriterTake
    <2>1. queue \in Seq(Message) /\ queue # <<>>
      BY <1>7 DEF WriterTake, TypeOK
    <2>2. Head(queue) \in Message /\ Tail(queue) \in Seq(Message)
      BY <2>1, HeadTailProperties
    <2>3. writer' \in WriterState /\ writer'.pc = "write" /\ writer.pc = "enter"
      BY <1>7, <2>2 DEF WriterTake, WriterState
    <2>4. UNCHANGED <<recording, running, bufferSize, callback, user, started, received,
                      taken, dropped, lost, failures, log, files, waiting, spread, missed, wakeups, crashes>>
          /\ queue' = Tail(queue)
      BY <1>7 DEF WriterTake, written
    <2>5. TypeOK'
      BY <2>2, <2>3, <2>4 DEF TypeOK
    <2>6. Control'
      BY <2>3, <2>4 DEF Control
    <2>7. QED
      BY <2>4, <2>5, <2>6 DEF Waits
  <1>8. CASE WriterWrite
    <2>1. writer.msg \in Message /\ writer.pc = "write"
      BY <1>8 DEF WriterWrite, TypeOK, WriterState
    <2>2. recording
      BY <2>1 DEF Control
    <2>3. UNCHANGED <<recording, running, queue, bufferSize, callback, user, started,
                      received, taken, dropped, missed, wakeups, crashes>> /\ writer' = At("loop")
      BY <1>8 DEF WriterWrite
    <2>4. WriteToLogFile(writer.msg)
      BY <1>8 DEF WriterWrite
    <2>5. /\ files' = files
          /\ DOMAIN log' = DOMAIN NewLog
          /\ log'.committed \in Seq(LogRow) /\ log'.pending \in Seq(LogRow)
          /\ log'.inTransaction \in BOOLEAN /\ log'.age \in 0..TransactionPeriod + 1
          /\ waiting' \in 0..TransactionPeriod + 1 /\ spread' \in 0..TransactionPeriod + 1
          /\ failures' \in 0..MaxFailures
          /\ Waits'
          /\ lost' \in SUBSET Message
      <3>1. lost \in SUBSET Message
        BY DEF TypeOK
      <3>2. QED
        BY <2>1, <2>2, <2>4, <3>1, WriteEffect
    <2>6. writer' \in WriterState /\ writer'.pc = "loop"
      BY <2>3 DEF At, WriterState
    <2>7. TypeOK'
      BY <2>3, <2>5, <2>6 DEF TypeOK
    <2>8. Control'
      BY <2>1, <2>2, <2>3, <2>6 DEF Control
    <2>9. QED
      BY <2>5, <2>7, <2>8
  <1>9. QED
    BY <1>3, <1>4, <1>5, <1>6, <1>7, <1>8 DEF WriterRuns

LEMMA BaseUser ==
    ASSUME Base, Start \/ Stop \/ StopNotify \/ StopJoin \/ FlushDone
    PROVE  Base'
  <1> USE DEF Base
  <1>1. started \in 0..MaxRecordings /\ MaxRecordings \in Nat
    BY BoundAssumption DEF TypeOK
  <1>2. CASE Start
    <2>1. UNCHANGED <<queue, bufferSize, callback, user, received, taken, dropped,
                      lost, failures, files, waiting, spread, missed, wakeups, crashes>>
      BY <1>2 DEF Start
    <2>2. /\ recording' = TRUE /\ running' = TRUE /\ user = "idle" /\ ~ recording
          /\ log' = NewLog
          /\ writer' \in WriterState /\ writer'.pc = "loop"
      BY <1>2 DEF Start, At, WriterState
    <2>3. started' \in 0..MaxRecordings
      BY <1>1, <1>2 DEF Start
    <2>4. /\ DOMAIN log' = DOMAIN NewLog
          /\ log'.committed = <<>> /\ log'.pending = <<>>
          /\ log'.inTransaction = FALSE /\ log'.age = 0
      BY <2>2, NewLogTyped
    <2>5. 0 \in 0..TransactionPeriod + 1 /\ <<>> \in Seq(LogRow)
      BY DEF TransactionPeriod
    <2>6. TypeOK'
      BY <2>1, <2>2, <2>3, <2>4, <2>5 DEF TypeOK
    <2>7. Control'
      BY <2>1, <2>2 DEF Control
    <2>8. log.pending = <<>> /\ waiting = 0 /\ spread = 0
      <3>1. log = NoLog
        BY <2>2 DEF Control
      <3>2. log.pending = <<>>
        BY <3>1, NewLogTyped
      <3>3. QED
        BY <3>2 DEF Waits
    <2>9. Waits'
      BY <2>1, <2>4, <2>8 DEF Waits, TransactionPeriod
    <2>10. QED
      BY <2>6, <2>7, <2>9
  <1>3. CASE Stop \/ StopJoin \/ FlushDone
    <2>1. UNCHANGED <<recording, queue, bufferSize, writer, callback, started, received,
                      taken, dropped, lost, failures, log, files, waiting, spread, missed, wakeups, crashes>>
      BY <1>3 DEF Stop, StopJoin, FlushDone, written
    <2>2. running' \in BOOLEAN /\ user' \in {"idle", "notify", "join", "flush", "close"}
      BY <1>3 DEF Stop, StopJoin, FlushDone, TypeOK
    <2>3. TypeOK'
      BY <2>1, <2>2 DEF TypeOK
    <2>4. Control'
      BY <1>3, <2>1 DEF Stop, StopJoin, FlushDone, Control
    <2>5. QED
      BY <2>1, <2>3, <2>4 DEF Waits
  <1>4. CASE StopNotify
    <2>1. UNCHANGED <<recording, running, queue, bufferSize, callback, started, received,
                      taken, dropped, lost, failures, log, files, waiting, spread, wakeups, crashes>>
      BY <1>4 DEF StopNotify, written
    <2>2. /\ user = "notify" /\ user' = "join" /\ missed' \in BOOLEAN
          /\ writer' \in WriterState /\ (writer.pc = "none" <=> writer'.pc = "none")
      BY <1>4, NotifiedTyped DEF StopNotify
    <2>3. TypeOK'
      BY <2>1, <2>2 DEF TypeOK
    <2>4. Control'
      BY <2>1, <2>2 DEF Control
    <2>5. QED
      BY <2>1, <2>3, <2>4 DEF Waits
  <1>5. QED
    BY <1>2, <1>3, <1>4

LEMMA BaseFlush ==
    ASSUME Base, Flush
    PROVE  Base'
  <1> USE DEF Base
  <1>1. queue \in Seq(Message) /\ queue # <<>>
    BY DEF Flush, TypeOK
  <1>2. Head(queue) \in Message /\ Tail(queue) \in Seq(Message)
    BY <1>1, HeadTailProperties
  <1>3. /\ queue' = Tail(queue)
        /\ WriteToLogFile(Head(queue))
        /\ UNCHANGED <<recording, running, bufferSize, writer, callback, user, started,
                       received, taken, dropped, missed, wakeups, crashes>>
    BY DEF Flush
  <1>4. recording /\ user = "flush"
    BY DEF Flush, Control
  <1>5. /\ files' = files
        /\ DOMAIN log' = DOMAIN NewLog
        /\ log'.committed \in Seq(LogRow) /\ log'.pending \in Seq(LogRow)
        /\ log'.inTransaction \in BOOLEAN /\ log'.age \in 0..TransactionPeriod + 1
        /\ waiting' \in 0..TransactionPeriod + 1 /\ spread' \in 0..TransactionPeriod + 1
        /\ failures' \in 0..MaxFailures
        /\ Waits'
        /\ lost' \in SUBSET Message
    BY <1>2, <1>3, <1>4, WriteEffect DEF TypeOK
  <1>6. TypeOK'
    BY <1>2, <1>3, <1>5 DEF TypeOK
  <1>7. Control'
    BY <1>3, <1>4 DEF Control
  <1>8. QED
    BY <1>5, <1>6, <1>7

LEMMA BaseClose ==
    ASSUME Base, Close
    PROVE  Base'
  <1> USE DEF Base
  <1>1. UNCHANGED <<running, queue, bufferSize, writer, callback, started, received,
                    taken, dropped, missed, wakeups, crashes>>
    BY DEF Close
  <1>2. /\ user = "close" /\ user' = "idle" /\ recording' = FALSE
        /\ log' = NoLog /\ waiting' = 0 /\ spread' = 0
    BY DEF Close
  <1>3. /\ DOMAIN log = LogFields
        /\ log.committed \in Seq(LogRow) /\ log.pending \in Seq(LogRow)
        /\ files \in Seq(LogRow) /\ lost \in SUBSET Message
        /\ failures \in 0..MaxFailures /\ MaxFailures \in Nat
    BY FieldsOfLog, BoundAssumption DEF TypeOK
  <1>4. FileOf(log) \in Seq(LogRow) /\ FileAfterCrash(log) \in Seq(LogRow)
    <2>1. FileOf(log) = log.committed \o log.pending
      BY <1>3, TransactionEnded DEF FileOf
    <2>2. QED
      BY <1>3, <2>1, ConcatProperties DEF FileAfterCrash
  <1>5. files' \in Seq(LogRow)
    <2>1. files \o FileOf(log) \in Seq(LogRow) /\ files \o FileAfterCrash(log) \in Seq(LogRow)
      BY <1>3, <1>4, ConcatProperties
    <2>2. files' \in {files \o FileOf(log), files \o FileAfterCrash(log)}
      BY DEF Close
    <2>3. QED
      BY <2>1, <2>2
  <1>6. failures' \in 0..MaxFailures
    BY <1>3 DEF Close, Fails
  <1>7. lost' \in SUBSET Message
    <2>1. Messages(log.pending) \in Seq(Message)
      BY <1>3, MessagesTyped
    <2>2. Range(Messages(log.pending)) \subseteq Message
      BY <2>1, RangeMembers
    <2>3. QED
      BY <1>3, <2>2 DEF Close
  <1>8. /\ DOMAIN log' = DOMAIN NewLog
        /\ log'.committed = <<>> /\ log'.pending = <<>>
        /\ log'.inTransaction = FALSE /\ log'.age = 0
    BY <1>2, NewLogTyped
  <1>9. 0 \in 0..TransactionPeriod + 1 /\ <<>> \in Seq(LogRow)
    BY DEF TransactionPeriod
  <1>10. TypeOK'
    BY <1>1, <1>2, <1>5, <1>6, <1>7, <1>8, <1>9 DEF TypeOK
  <1>11. Control'
    BY <1>1, <1>2 DEF Control
  <1>12. Waits'
    BY <1>2, <1>8 DEF Waits, TransactionPeriod
  <1>13. QED
    BY <1>10, <1>11, <1>12

LEMMA BaseCrash ==
    ASSUME Base, Crash
    PROVE  Base'
  <1> USE DEF Base
  <1>1. UNCHANGED <<started, received, taken, dropped, failures, wakeups>>
    BY DEF Crash
  <1>2. /\ recording' = FALSE /\ running' = FALSE /\ queue' = <<>> /\ bufferSize' = 0
        /\ user' = "idle" /\ log' = NoLog /\ waiting' = 0 /\ spread' = 0
        /\ missed' = FALSE
    BY DEF Crash
  <1>3. writer' \in WriterState /\ writer'.pc = "none"
    BY DEF Crash, At, WriterState
  <1>4. callback' \in [Source -> {"idle", "push"}]
    BY DEF Crash
  <1>5. crashes' \in 0..MaxCrashes
    BY BoundAssumption DEF Crash, TypeOK
  <1>6. /\ files \in Seq(LogRow) /\ log.committed \in Seq(LogRow)
        /\ log.pending \in Seq(LogRow) /\ lost \in SUBSET Message
    BY DEF TypeOK
  <1>7. files' \in Seq(LogRow)
    BY <1>6, ConcatProperties DEF Crash, FileAfterCrash
  <1>8. lost' \in SUBSET Message
    <2> DEFINE all == Messages(log.pending) \o InHand \o queue
    <2>1. Messages(log.pending) \in Seq(Message)
      BY <1>6, MessagesTyped
    <2>2. InHand \in Seq(Message) /\ queue \in Seq(Message)
      <3>1. writer.pc = "write" => writer.msg \in Message
        BY DEF TypeOK, WriterState
      <3>2. QED
        BY <3>1 DEF InHand, TypeOK
    <2>3. all \in Seq(Message)
      BY <2>1, <2>2, ConcatProperties
    <2> HIDE DEF all
    <2>4. Range(all) \subseteq Message
      BY <2>3, RangeMembers
    <2>5. lost' = lost \cup Range(all)
      BY DEF Crash, all
    <2>6. QED
      BY <1>6, <2>4, <2>5
  <1>9. /\ DOMAIN log' = DOMAIN NewLog
        /\ log'.committed = <<>> /\ log'.pending = <<>>
        /\ log'.inTransaction = FALSE /\ log'.age = 0
    BY <1>2, NewLogTyped
  <1>10. /\ 0 \in 0..TransactionPeriod + 1
         /\ <<>> \in Seq(LogRow) /\ <<>> \in Seq(Message)
    BY DEF TransactionPeriod
  <1>11. TypeOK'
    BY <1>1, <1>2, <1>3, <1>4, <1>5, <1>7, <1>8, <1>9, <1>10 DEF TypeOK
  <1>12. Control'
    BY <1>2, <1>3 DEF Control
  <1>13. Waits'
    BY <1>2, <1>9 DEF Waits, TransactionPeriod
  <1>14. QED
    BY <1>11, <1>12, <1>13

LEMMA BaseTick ==
    ASSUME Base, Tick
    PROVE  /\ Base'
           /\ Table(log') = Table(log)
  <1> USE DEF Base
  <1>1. UNCHANGED <<recording, running, queue, bufferSize, writer, callback, user, started,
                    received, taken, dropped, lost, failures, files, spread, missed, wakeups, crashes>>
    BY DEF Tick
  <1>2. /\ DOMAIN log = LogFields /\ log.inTransaction
        /\ log.age \in 0..TransactionPeriod + 1 /\ waiting \in 0..TransactionPeriod + 1
        /\ log.committed \in Seq(LogRow) /\ log.pending \in Seq(LogRow)
    BY FieldsOfLog DEF TypeOK, Tick
  <1>3. TransactionPeriod = 2
    BY DEF TransactionPeriod
  <1>4. /\ DOMAIN log' = LogFields
        /\ log'.committed = log.committed /\ log'.pending = log.pending
        /\ log'.inTransaction = log.inTransaction
        /\ log'.age = IF log.age <= 2 THEN log.age + 1 ELSE log.age
    BY <1>2, <1>3 DEF Tick, Older, LogFields
  <1>5. waiting' = IF log.pending # <<>> /\ waiting <= TransactionPeriod THEN waiting + 1
                   ELSE waiting
    BY DEF Tick
  <1>6. waiting' \in 0..TransactionPeriod + 1 /\ log'.age \in 0..TransactionPeriod + 1
    BY <1>2, <1>3, <1>4, <1>5
  <1>7. log'.inTransaction \in BOOLEAN
    BY <1>4 DEF TypeOK
  <1>8. TypeOK'
    BY <1>1, <1>2, <1>4, <1>6, <1>7, FieldsOfLog DEF TypeOK
  <1>9. Control'
    <2>1. recording
      BY <1>2, NewLogTyped DEF Control
    <2>2. QED
      BY <1>1, <2>1 DEF Control
  <1>10. Waits'
    BY <1>1, <1>2, <1>3, <1>4, <1>5 DEF Waits
  <1>11. Table(log') = Table(log)
    BY <1>4 DEF Table
  <1>12. QED
    BY <1>8, <1>9, <1>10, <1>11

LEMMA BaseStep ==
    ASSUME Base, Numbered, [Next]_vars
    PROVE  Base'
  <1>1. CASE UNCHANGED vars
    <2>1. UNCHANGED <<recording, running, queue, bufferSize, writer, callback, user, started,
                      received, taken, dropped, lost, failures, log, files, waiting, spread,
                      missed, wakeups, crashes>>
      BY <1>1 DEF vars
    <2>2. QED
      BY <2>1 DEF Base, TypeOK, Control, Waits
  <1>2. CASE Next
    BY <1>2, BaseReceive, BasePush, BaseWriter, BaseUser, BaseFlush, BaseClose, BaseTick,
          BaseCrash
       DEF Next, StopContinues
  <1>3. QED
    BY <1>1, <1>2

-----------------------------------------------------------------------------
(* What is kept.                                                           *)

LEMMA RangeConcat ==
    ASSUME NEW s \in Seq(Message), NEW t \in Seq(Message)
    PROVE  Range(s \o t) = Range(s) \cup Range(t)
  <1> DEFINE r == s \o t
             a == Len(s)
             b == Len(t)
  <1>1. /\ r \in Seq(Message) /\ Len(r) = a + b /\ a \in Nat /\ b \in Nat
        /\ \A i \in 1..a + b : r[i] = IF i <= a THEN s[i] ELSE t[i-a]
    BY ConcatProperties
  <1>2. /\ \A i \in 1..a : s[i] \in Range(s)
        /\ \A x \in Range(s) : \E i \in 1..a : x = s[i]
        /\ \A i \in 1..b : t[i] \in Range(t)
        /\ \A x \in Range(t) : \E i \in 1..b : x = t[i]
    BY RangeMembers
  <1> HIDE DEF r, a, b
  <1>3. /\ \A i \in 1..a + b : r[i] \in Range(r)
        /\ \A x \in Range(r) : \E i \in 1..a + b : x = r[i]
    BY <1>1, RangeMembers
  <1>4. Range(r) \subseteq Range(s) \cup Range(t)
    <2> SUFFICES ASSUME NEW i \in 1..a + b
                 PROVE  r[i] \in Range(s) \cup Range(t)
      BY <1>3
    <2>1. i \in 1..a \/ (~ (i <= a) /\ i - a \in 1..b)
      BY <1>1
    <2>2. QED
      BY <1>1, <1>2, <2>1
  <1>5. Range(s) \subseteq Range(r)
    <2> SUFFICES ASSUME NEW i \in 1..a
                 PROVE  s[i] \in Range(r)
      BY <1>2
    <2>1. i \in 1..a + b /\ i <= a
      BY <1>1
    <2>2. QED
      BY <1>1, <1>3, <2>1
  <1>6. Range(t) \subseteq Range(r)
    <2> SUFFICES ASSUME NEW i \in 1..b
                 PROVE  t[i] \in Range(r)
      BY <1>2
    <2>1. i + a \in 1..a + b /\ ~ (i + a <= a) /\ (i + a) - a = i
      BY <1>1
    <2>2. r[i+a] = t[(i + a) - a]
      BY <1>1, <2>1
    <2>3. QED
      BY <1>3, <2>1, <2>2
  <1>7. QED
    BY <1>4, <1>5, <1>6 DEF r

LEMMA RangeOne ==
    ASSUME NEW m \in Message
    PROVE  <<m>> \in Seq(Message) /\ Range(<<m>>) = {m}
  <1>1. <<m>> \in Seq(Message) /\ Len(<<m>>) = 1 /\ <<m>>[1] = m
    OBVIOUS
  <1>2. /\ \A i \in 1..1 : <<m>>[i] \in Range(<<m>>)
        /\ \A x \in Range(<<m>>) : \E i \in 1..1 : x = <<m>>[i]
    BY <1>1, RangeMembers
  <1>3. QED
    BY <1>1, <1>2

LEMMA RangeAppend ==
    ASSUME NEW s \in Seq(Message), NEW m \in Message
    PROVE  Range(Append(s, m)) = Range(s) \cup {m}
  <1>1. Append(s, m) = s \o <<m>>
    BY AppendedIsConcat
  <1>2. QED
    BY <1>1, RangeConcat, RangeOne

LEMMA HeadAndTail ==
    ASSUME NEW s \in Seq(Message), s # <<>>
    PROVE  /\ Head(s) \in Message /\ Tail(s) \in Seq(Message)
           /\ s = <<Head(s)>> \o Tail(s)
  <1>1. Head(s) \in Message /\ Tail(s) \in Seq(Message) /\ Len(Tail(s)) = Len(s) - 1
    BY HeadTailProperties
  <1>2. <<Head(s)>> \in Seq(Message) /\ Len(<<Head(s)>>) = 1
    BY <1>1
  <1> DEFINE r == <<Head(s)>> \o Tail(s)
  <1>3. /\ r \in Seq(Message) /\ Len(r) = 1 + Len(Tail(s))
        /\ \A i \in 1..1 + Len(Tail(s)) : r[i] = IF i <= 1 THEN <<Head(s)>>[i] ELSE Tail(s)[i-1]
    BY <1>1, <1>2, ConcatProperties
  <1> HIDE DEF r
  <1>4. Len(r) = Len(s) /\ Len(s) \in Nat
    BY <1>1, <1>3
  <1>5. \A i \in 1..Len(s) : r[i] = s[i]
    <2> TAKE i \in 1..Len(s)
    <2>1. CASE i = 1
      BY <1>1, <1>3, <2>1
    <2>2. CASE i > 1
      <3>1. i - 1 \in 1..Len(s) - 1 /\ i \in 1..1 + Len(Tail(s)) /\ ~ (i <= 1)
        BY <1>1, <1>4, <2>2
      <3>2. Tail(s)[i-1] = s[i]
        BY <3>1
      <3>3. QED
        BY <1>3, <3>1, <3>2
    <2>3. QED
      BY <2>1, <2>2
  <1>6. r = s
    BY <1>3, <1>4, <1>5, SeqEqual
  <1>7. QED
    BY <1>1, <1>6 DEF r

\* The messages that are in the files and the log.
Stored == Messages(files \o Table(log))

Remaining == (Stored \o InHand) \o queue

Gone == dropped \cup lost

LEMMA ConservedIs == Conserved <=> RestOf(Remaining, taken, Gone)
  BY DEF Conserved, Remaining, Stored, Gone

LEMMA RemainingTyped ==
    ASSUME TypeOK
    PROVE  /\ files \in Seq(LogRow) /\ Table(log) \in Seq(LogRow)
           /\ files \o Table(log) \in Seq(LogRow)
           /\ Stored \in Seq(Message) /\ InHand \in Seq(Message)
           /\ queue \in Seq(Message) /\ taken \in Seq(Message)
           /\ Stored \o InHand \in Seq(Message) /\ Remaining \in Seq(Message)
  <1>1. /\ files \in Seq(LogRow) /\ queue \in Seq(Message) /\ taken \in Seq(Message)
        /\ log.committed \in Seq(LogRow) /\ log.pending \in Seq(LogRow)
    BY DEF TypeOK
  <1>2. Table(log) \in Seq(LogRow) /\ files \o Table(log) \in Seq(LogRow)
    BY <1>1, ConcatProperties DEF Table
  <1>3. Stored \in Seq(Message)
    BY <1>2, MessagesTyped DEF Stored
  <1>4. InHand \in Seq(Message)
    <2>1. writer.pc = "write" => writer.msg \in Message
      BY DEF TypeOK, WriterState
    <2>2. QED
      BY <2>1 DEF InHand
  <1>5. Stored \o InHand \in Seq(Message) /\ Remaining \in Seq(Message)
    BY <1>1, <1>3, <1>4, ConcatProperties DEF Remaining
  <1>6. QED
    BY <1>1, <1>2, <1>3, <1>4, <1>5

\* What is queued or in the writer's hands was taken.
LEMMA RemainingTaken ==
    ASSUME TypeOK, Conserved
    PROVE  /\ Range(Stored) \subseteq Range(taken)
           /\ Range(InHand) \subseteq Range(taken)
           /\ Range(queue) \subseteq Range(taken)
  <1>1. Range(Remaining) = (Range(Stored) \cup Range(InHand)) \cup Range(queue)
    <2>1. Range(Stored \o InHand) = Range(Stored) \cup Range(InHand)
      BY RemainingTyped, RangeConcat
    <2>2. Range((Stored \o InHand) \o queue) = Range(Stored \o InHand) \cup Range(queue)
      BY RemainingTyped, RangeConcat
    <2>3. QED
      BY <2>1, <2>2 DEF Remaining
  <1>2. Range(Remaining) \subseteq Range(taken)
    BY ConservedIs DEF RestOf
  <1>3. QED
    BY <1>1, <1>2

\* A message that is written comes after the stored ones.
LEMMA StoredAppended ==
    ASSUME TypeOK, NEW m \in Message, files' = files,
           Table(log') = Append(Table(log), Row(m))
    PROVE  Stored' = Stored \o <<m>>
  <1>1. files \o Append(Table(log), Row(m)) = Append(files \o Table(log), Row(m))
    <2>1. Row(m) \in LogRow
      BY RowTyped
    <2>2. QED
      BY <2>1, RemainingTyped, ConcatAppend
  <1>2. Messages(Append(files \o Table(log), Row(m))) = Append(Stored, m)
    BY RemainingTyped, MessagesAppend DEF Stored
  <1>3. Append(Stored, m) = Stored \o <<m>>
    BY RemainingTyped, AppendedIsConcat
  <1>4. Stored' = Messages(files' \o Table(log'))
    BY DEF Stored
  <1>5. QED
    BY <1>1, <1>2, <1>3, <1>4

\* The steps that touch nothing that is kept, except that the writer moves on.
LEMMA ConservedSame ==
    ASSUME Conserved, Stored' = Stored, InHand' = InHand,
           UNCHANGED <<queue, taken, dropped, lost>>
    PROVE  Conserved'
  <1>1. Remaining' = Remaining /\ Gone' = Gone /\ taken' = taken
    BY DEF Remaining, Gone
  <1>2. RestOf(Remaining', taken', Gone')
    BY <1>1, ConservedIs
  <1>3. RestOf(Remaining, taken, Gone)'
    BY <1>2 DEF RestOf
  <1>4. QED
    BY <1>3 DEF Conserved, Remaining, Stored, Gone

\* From the sequence and the sets of the next state to the invariant.
LEMMA ConservedNext ==
    ASSUME NEW kept, NEW all, NEW gone, RestOf(kept, all, gone),
           Remaining' = kept, taken' = all, Gone' = gone
    PROVE  Conserved'
  <1>1. RestOf(Remaining', taken', Gone')
    OBVIOUS
  <1>2. RestOf(Remaining, taken, Gone)'
    BY <1>1 DEF RestOf
  <1>3. QED
    BY <1>2 DEF Conserved, Remaining, Stored, Gone

LEMMA ConservedTake ==
    ASSUME TypeOK, Conserved, WriterTake
    PROVE  Conserved'
  <1>1. queue \in Seq(Message) /\ queue # <<>> /\ Stored \in Seq(Message)
    BY RemainingTyped DEF WriterTake
  <1>2. /\ Head(queue) \in Message /\ Tail(queue) \in Seq(Message)
        /\ queue = <<Head(queue)>> \o Tail(queue)
        /\ <<Head(queue)>> \in Seq(Message)
    BY <1>1, HeadAndTail, RangeOne
  <1>3. InHand = <<>> /\ InHand' = <<Head(queue)>> /\ queue' = Tail(queue)
    BY DEF InHand, WriterTake
  <1>4. UNCHANGED <<taken, dropped, lost, files, log>>
    BY DEF WriterTake, written
  <1>5. Stored' = Stored
    BY <1>4 DEF Stored
  <1>6. Stored \o InHand = Stored
    BY <1>1, <1>3, ConcatEmptySeq
  <1>7. Remaining' = Remaining
    <2>1. Remaining = Stored \o (<<Head(queue)>> \o Tail(queue))
      BY <1>2, <1>6 DEF Remaining
    <2>2. Remaining' = (Stored \o <<Head(queue)>>) \o Tail(queue)
      BY <1>3, <1>5 DEF Remaining
    <2>3. QED
      BY <1>1, <1>2, <2>1, <2>2, ConcatAssociative
  <1>8. Gone' = Gone /\ taken' = taken
    BY <1>4 DEF Gone
  <1>9. QED
    BY <1>7, <1>8, ConservedIs, ConservedNext

\* The writer writes what it has in its hands, or Stop what is at the head of
\* the queue: it is stored, or gone.
LEMMA ConservedWrite ==
    ASSUME TypeOK, Conserved, NEW m \in Message, NEW rest \in Seq(Message),
           InHand \o queue = <<m>> \o rest,
           InHand' = <<>>, queue' = rest, UNCHANGED <<taken, dropped, files>>,
           \/ Table(log') = Append(Table(log), Row(m)) /\ lost' = lost
           \/ Table(log') = Table(log) /\ lost' = lost \cup {m}
    PROVE  Conserved'
  <1> DEFINE one == <<m>>
  <1>1. /\ Stored \in Seq(Message) /\ InHand \in Seq(Message) /\ queue \in Seq(Message)
        /\ taken \in Seq(Message) /\ one \in Seq(Message) /\ Range(one) = {m}
    BY RemainingTyped, RangeOne
  <1> HIDE DEF one
  <1>2. Remaining = (Stored \o one) \o rest
    <2>1. InHand \o queue = one \o rest
      BY DEF one
    <2>2. Associates(Stored, InHand, queue) /\ Associates(Stored, one, rest)
      BY <1>1, Associate
    <2>3. QED
      BY <2>1, <2>2, Zenon DEF Associates, Remaining
  <1>3. CASE Table(log') = Append(Table(log), Row(m)) /\ lost' = lost
    <2>1. Stored' = Stored \o one
      BY <1>3, StoredAppended DEF one
    <2>2. Stored' \o <<>> = Stored \o one
      <3>1. Stored \o one \in Seq(Message)
        BY <1>1, ConcatProperties
      <3>2. QED
        BY <2>1, <3>1, ConcatEmptySeq
    <2>3. Remaining' = Remaining
      BY <1>2, <2>2 DEF Remaining
    <2>4. Gone' = Gone
      BY <1>3 DEF Gone
    <2>5. QED
      BY <2>3, <2>4, ConservedIs, ConservedNext
  <1>4. CASE Table(log') = Table(log) /\ lost' = lost \cup {m}
    <2>1. Stored' = Stored
      BY <1>4 DEF Stored
    <2>2. Stored \o <<>> = Stored
      BY <1>1, ConcatEmptySeq
    <2>3. Remaining' = Stored \o rest
      BY <2>1, <2>2 DEF Remaining
    <2>4. Gone' = Gone \cup Range(one)
      BY <1>1, <1>4 DEF Gone
    <2>5. RestOf(Stored \o rest, taken, Gone \cup Range(one))
      <3>1. RestOf((Stored \o one) \o rest, taken, Gone)
        BY <1>2, ConservedIs
      <3>2. QED
        BY <1>1, <3>1, RestRemoved
    <2>6. QED
      BY <2>3, <2>4, <2>5, ConservedNext
  <1>5. QED
    BY <1>3, <1>4

LEMMA ConservedWriter ==
    ASSUME Base, Conserved, WriterWrite
    PROVE  Conserved'
  <1>1. TypeOK /\ Control /\ Waits
    BY DEF Base
  <1>2. writer.msg \in Message /\ writer.pc = "write"
    BY <1>1 DEF WriterWrite, TypeOK, WriterState
  <1>3. recording
    BY <1>1, <1>2 DEF Control
  <1>4. UNCHANGED <<queue, taken, dropped>> /\ writer' = At("loop")
        /\ WriteToLogFile(writer.msg)
    BY DEF WriterWrite
  <1>5. /\ files' = files
        /\ \/ Table(log') = Append(Table(log), Row(writer.msg)) /\ lost' = lost
           \/ Table(log') = Table(log) /\ lost' = lost \cup {writer.msg}
    BY <1>1, <1>2, <1>3, <1>4, WriteEffect
  <1>6. InHand = <<writer.msg>> /\ InHand' = <<>>
    BY <1>2, <1>4 DEF InHand, At
  <1>7. queue \in Seq(Message)
    BY <1>1, RemainingTyped
  <1> DEFINE m == writer.msg
  <1> HIDE DEF m
  <1>8. m \in Message /\ InHand \o queue = <<m>> \o queue
    BY <1>2, <1>6 DEF m
  <1>9. \/ Table(log') = Append(Table(log), Row(m)) /\ lost' = lost
        \/ Table(log') = Table(log) /\ lost' = lost \cup {m}
    BY <1>5 DEF m
  <1>10. QED
    BY <1>1, <1>4, <1>5, <1>6, <1>7, <1>8, <1>9, ConservedWrite

LEMMA ConservedFlush ==
    ASSUME Base, Conserved, Flush
    PROVE  Conserved'
  <1>1. TypeOK /\ Control /\ Waits
    BY DEF Base
  <1>2. queue \in Seq(Message) /\ queue # <<>>
    BY <1>1 DEF Flush, TypeOK
  <1> DEFINE m == Head(queue)
             rest == Tail(queue)
  <1>3. m \in Message /\ rest \in Seq(Message) /\ queue = <<m>> \o rest
    BY <1>2, HeadAndTail
  <1>4. recording /\ writer.pc = "none"
    BY <1>1 DEF Flush, Control
  <1>5. UNCHANGED <<taken, dropped, writer>> /\ queue' = rest /\ WriteToLogFile(m)
    BY DEF Flush
  <1>6. InHand = <<>> /\ InHand' = <<>>
    BY <1>4, <1>5 DEF InHand
  <1> HIDE DEF m, rest
  <1>7. /\ files' = files
        /\ \/ Table(log') = Append(Table(log), Row(m)) /\ lost' = lost
           \/ Table(log') = Table(log) /\ lost' = lost \cup {m}
    BY <1>1, <1>3, <1>4, <1>5, WriteEffect
  <1>8. InHand \o queue = <<m>> \o rest
    <2>1. <<>> \o queue = queue
      BY <1>2, ConcatEmptySeq
    <2>2. QED
      BY <1>3, <1>6, <2>1
  <1>9. QED
    BY <1>1, <1>3, <1>5, <1>6, <1>7, <1>8, ConservedWrite

LEMMA ConservedClose ==
    ASSUME Base, Conserved, Close
    PROVE  Conserved'
  <1>1. TypeOK /\ Control
    BY DEF Base
  <1>2. /\ log' = NoLog /\ user = "close"
        /\ UNCHANGED <<queue, writer, taken, dropped>>
    BY DEF Close
  <1>3. writer.pc = "none" /\ InHand = <<>> /\ InHand' = <<>>
    BY <1>1, <1>2 DEF Control, InHand
  <1>4. /\ DOMAIN log = LogFields
        /\ log.committed \in Seq(LogRow) /\ log.pending \in Seq(LogRow)
        /\ files \in Seq(LogRow)
    BY <1>1, FieldsOfLog DEF TypeOK
  <1>5. Table(log') = <<>>
    BY <1>2, EmptyTable
  <1> DEFINE crashed == files \o log.committed
  <1>6. crashed \in Seq(LogRow)
    BY <1>4, ConcatProperties
  <1>7. files \o Table(log) = crashed \o log.pending
    <2>1. Associates(files, log.committed, log.pending)
      BY <1>4, Associate
    <2>2. QED
      BY <2>1 DEF Associates, Table
  <1>8. crashed \o log.pending \in Seq(LogRow)
    BY <1>4, <1>6, ConcatProperties
  <1>9. Stored = Messages(crashed) \o Messages(log.pending)
    <2> HIDE DEF crashed
    <2>1. QED
      BY <1>4, <1>6, <1>7, MessagesConcat DEF Stored
  <1>10. \A s \in Seq(LogRow) : s \o <<>> = s
    BY ConcatEmptySeq
  <1>11. CASE files' = files \o FileOf(log) /\ UNCHANGED <<lost, failures>>
    <2>1. FileOf(log) = Table(log)
      BY <1>4, TransactionEnded DEF FileOf, Table
    <2>2. files' \o Table(log') = files \o Table(log)
      BY <1>5, <1>7, <1>8, <1>10, <1>11, <2>1
    <2>3. Stored' = Stored
      BY <2>2 DEF Stored
    <2>4. QED
      BY <1>2, <1>3, <1>11, <2>3, ConservedSame
  <1>12. CASE /\ files' = files \o FileAfterCrash(log)
              /\ lost' = lost \cup Range(Messages(log.pending))
    <2> DEFINE a == Messages(crashed)
               b == Messages(log.pending)
    <2>1. a \in Seq(Message) /\ b \in Seq(Message)
      BY <1>4, <1>6, MessagesTyped
    <2>2. files' \o Table(log') = crashed
      BY <1>5, <1>6, <1>10, <1>12 DEF FileAfterCrash
    <2>3. Stored' = a
      BY <2>2 DEF Stored
    <2>4. Stored = a \o b
      BY <1>9
    <2> HIDE DEF a, crashed
    <2>5. queue \in Seq(Message) /\ taken \in Seq(Message)
      BY <1>1, RemainingTyped
    <2>6. \A s \in Seq(Message) : s \o <<>> = s
      BY ConcatEmptySeq
    <2>7. Remaining = (a \o b) \o queue
      <3>1. a \o b \in Seq(Message)
        BY <2>1, ConcatProperties
      <3>2. QED
        BY <1>3, <2>4, <2>6, <3>1 DEF Remaining
    <2>8. Remaining' = a \o queue
      BY <1>2, <1>3, <2>1, <2>3, <2>6 DEF Remaining
    <2>9. Gone' = Gone \cup Range(b)
      BY <1>2, <1>12 DEF Gone
    <2> HIDE DEF b
    <2>10. RestOf(a \o queue, taken, Gone \cup Range(b))
      <3>1. RestOf((a \o b) \o queue, taken, Gone)
        BY <2>7, ConservedIs
      <3>2. QED
        BY <2>1, <2>5, <3>1, RestRemoved
    <2>11. QED
      BY <1>2, <2>8, <2>9, <2>10, ConservedNext
  <1>13. QED
    BY <1>11, <1>12 DEF Close

\* The rows of the transaction, the message in hand and the queue go together.
LEMMA ConservedCrash ==
    ASSUME Base, Conserved, Crash
    PROVE  Conserved'
  <1> DEFINE crashed == files \o log.committed
             a == Messages(crashed)
             b == Messages(log.pending)
             d == b \o InHand \o queue
  <1>1. TypeOK
    BY DEF Base
  <1>2. /\ log' = NoLog /\ queue' = <<>> /\ writer' = At("none")
        /\ files' = crashed /\ lost' = lost \cup Range(d)
        /\ UNCHANGED <<taken, dropped>>
    BY DEF Crash, FileAfterCrash
  <1>3. /\ log.committed \in Seq(LogRow) /\ log.pending \in Seq(LogRow)
        /\ files \in Seq(LogRow)
    BY <1>1 DEF TypeOK
  <1>4. crashed \in Seq(LogRow)
    BY <1>3, ConcatProperties
  <1>5. a \in Seq(Message) /\ b \in Seq(Message)
    BY <1>3, <1>4, MessagesTyped
  <1>6. InHand \in Seq(Message) /\ queue \in Seq(Message) /\ taken \in Seq(Message)
    BY <1>1, RemainingTyped
  <1>7. b \o InHand \in Seq(Message) /\ d \in Seq(Message) /\ a \o d \in Seq(Message)
    <2> HIDE DEF a, b
    <2>1. QED
      BY <1>5, <1>6, ConcatProperties
  <1>8. Stored = a \o b
    <2>1. files \o Table(log) = crashed \o log.pending
      <3>1. Associates(files, log.committed, log.pending)
        BY <1>3, Associate
      <3>2. QED
        BY <3>1 DEF Associates, Table
    <2> HIDE DEF crashed
    <2>2. QED
      BY <1>3, <1>4, <2>1, MessagesConcat DEF Stored
  <1>9. \A s \in Seq(LogRow) : s \o <<>> = s
    BY ConcatEmptySeq
  <1>10. Stored' = a
    <2>1. Table(log') = <<>>
      BY <1>2, EmptyTable
    <2>2. files' \o Table(log') = crashed
      BY <1>2, <1>4, <1>9, <2>1
    <2>3. QED
      BY <2>2 DEF Stored
  <1> HIDE DEF a, b, crashed
  <1>11. \A s \in Seq(Message) : s \o <<>> = s
    BY ConcatEmptySeq
  <1>12. Remaining = (a \o d) \o <<>>
    <2>1. Associates(a, b, InHand) /\ Associates(a, b \o InHand, queue)
      BY <1>5, <1>6, <1>7, Associate
    <2>2. Remaining = a \o d
      BY <1>8, <2>1 DEF Remaining, Associates
    <2>3. QED
      BY <1>7, <1>11, <2>2
  <1>13. Remaining' = a \o <<>>
    <2>1. InHand' = <<>>
      BY <1>2 DEF InHand, At
    <2>2. QED
      BY <1>2, <1>5, <1>10, <1>11, <2>1 DEF Remaining
  <1>14. Gone' = Gone \cup Range(d)
    BY <1>2 DEF Gone
  <1> HIDE DEF d
  <1>15. RestOf(a \o <<>>, taken, Gone \cup Range(d))
    <2>1. RestOf((a \o d) \o <<>>, taken, Gone)
      BY <1>12, ConservedIs
    <2>2. <<>> \in Seq(Message)
      OBVIOUS
    <2> DEFINE none == <<>>
    <2>3. none \in Seq(Message) /\ RestOf((a \o d) \o none, taken, Gone)
      BY <2>1, <2>2
    <2> HIDE DEF none
    <2>4. RestOf(a \o none, taken, Gone \cup Range(d))
      BY <1>5, <1>6, <1>7, <2>3, RestRemoved
    <2>5. QED
      BY <2>4 DEF none
  <1>16. QED
    BY <1>2, <1>13, <1>14, <1>15, ConservedNext

\* The last message of a callback is none of those that were taken.
LEMMA PushedIsNew ==
    ASSUME Numbered, TypeOK, NEW c \in Source, callback[c] = "push"
    PROVE  [from |-> c, seq |-> received[c]] \notin Range(taken) \cup Gone
  <1> DEFINE m == [from |-> c, seq |-> received[c]]
  <1>1. taken \in Seq(Message) /\ received[c] \in Nat
    BY DEF TypeOK
  <1>2. \A i \in 1..Len(taken) : taken[i] # m
    <2>1. DOMAIN taken = 1..Len(taken)
      BY <1>1
    <2>2. QED
      BY <1>1, <2>1 DEF Numbered
  <1> HIDE DEF m
  <1>3. m \notin Range(taken)
    BY <1>1, <1>2, RangeMembers
  <1>4. Gone \subseteq Range(taken)
    BY DEF Numbered, Gone
  <1>5. QED
    BY <1>3, <1>4 DEF m

LEMMA ConservedPush ==
    ASSUME Base, Numbered, Conserved, NEW c \in Source, Push(c)
    PROVE  Conserved'
  <1> DEFINE m == [from |-> c, seq |-> received[c]]
             before == Stored \o InHand
  <1>1. TypeOK
    BY DEF Base
  <1>2. callback[c] = "push"
    BY DEF Push
  <1>3. m \in Message /\ m \notin Range(taken) /\ m \notin Gone
    BY <1>1, <1>2, PushTyped, PushedIsNew
  <1>4. /\ before \in Seq(Message) /\ queue \in Seq(Message) /\ taken \in Seq(Message)
        /\ Remaining \in Seq(Message)
    BY <1>1, RemainingTyped
  <1>5. /\ taken' = Append(taken, m) /\ writer' = Notified
        /\ UNCHANGED <<lost, files, log>>
    BY DEF Push, written
  <1>6. before' = before
    <2>1. Stored' = Stored
      BY <1>5 DEF Stored
    <2>2. InHand' = InHand
      BY <1>1, <1>5, NotifiedTyped DEF InHand
    <2>3. QED
      BY <2>1, <2>2
  <1>7. Remaining = before \o queue /\ Remaining' = before \o queue'
    BY <1>6 DEF Remaining
  <1>8. RestOf(before \o queue, taken, Gone)
    BY <1>7, ConservedIs
  <1>9. CASE Discards(c)
    <2> DEFINE head == Head(queue)
               rest == Tail(queue)
               one == <<head>>
    <2>1. queue' = Append(rest, m) /\ dropped' = dropped \cup {head} /\ queue # <<>>
      BY <1>9 DEF Push, Discards
    <2>2. head \in Message /\ rest \in Seq(Message) /\ queue = one \o rest
      BY <1>4, <2>1, HeadAndTail
    <2>3. one \in Seq(Message) /\ Range(one) = {head}
      BY <2>2, RangeOne
    <2> HIDE DEF before, one, rest, m, head
    <2>4. before \o rest \in Seq(Message)
      BY <1>4, <2>2, ConcatProperties
    <2>5. before \o queue = (before \o one) \o rest
      <3>1. before \in Seq(Message) /\ one \in Seq(Message) /\ rest \in Seq(Message)
        BY <1>4, <2>2, <2>3
      <3>2. Associates(before, one, rest)
        BY <3>1, Associate
      <3>3. QED
        BY <2>2, <3>2 DEF Associates
    <2>6. RestOf(before \o rest, taken, Gone \cup Range(one))
      <3>1. RestOf((before \o one) \o rest, taken, Gone)
        BY <1>8, <2>5
      <3>2. QED
        BY <1>4, <2>2, <2>3, <3>1, RestRemoved
    <2>7. head \in Range(taken)
      <3>1. Range(queue) \subseteq Range(taken)
        BY <1>1, RemainingTaken
      <3>2. Range(queue) = Range(one) \cup Range(rest)
        BY <2>2, <2>3, RangeConcat
      <3>3. QED
        BY <2>3, <3>1, <3>2
    <2>8. m \notin Gone \cup Range(one)
      BY <1>3, <2>3, <2>7
    <2>9. RestOf(Append(before \o rest, m), Append(taken, m), Gone \cup Range(one))
      BY <1>3, <1>4, <2>4, <2>6, <2>8, RestAppended
    <2>10. before \o Append(rest, m) = Append(before \o rest, m)
      BY <1>3, <1>4, <2>2, ConcatAppend
    <2>11. Remaining' = Append(before \o rest, m)
      BY <1>7, <2>1, <2>10
    <2>12. Gone' = Gone \cup Range(one)
      BY <1>5, <2>1, <2>3 DEF Gone
    <2>13. QED
      BY <1>5, <2>9, <2>11, <2>12, ConservedNext
  <1>10. CASE ~ Discards(c)
    <2>1. queue' = Append(queue, m) /\ dropped' = dropped
      BY <1>10 DEF Push
    <2> HIDE DEF before, m
    <2>2. before \o queue \in Seq(Message)
      BY <1>4, <1>7
    <2>3. RestOf(Append(before \o queue, m), Append(taken, m), Gone)
      BY <1>3, <1>4, <1>8, <2>2, RestAppended
    <2>4. before \o Append(queue, m) = Append(before \o queue, m)
      BY <1>3, <1>4, ConcatAppend
    <2>5. Remaining' = Append(before \o queue, m)
      BY <1>7, <2>1, <2>4
    <2>6. Gone' = Gone
      BY <1>5, <2>1 DEF Gone
    <2>7. QED
      BY <1>5, <2>3, <2>5, <2>6, ConservedNext
  <1>11. QED
    BY <1>9, <1>10

LEMMA ConservedStep ==
    ASSUME Base, Numbered, Conserved, [Next]_vars
    PROVE  Conserved'
  <1>1. TypeOK /\ Control
    BY DEF Base
  \* The steps that leave the recordings alone and the writer's hands empty.
  <1>2. ASSUME UNCHANGED <<queue, taken, dropped, lost, files>>,
               Table(log') = Table(log),
               writer' = writer \/ (writer.pc # "write" /\ writer'.pc # "write")
        PROVE  Conserved'
    <2>1. Stored' = Stored /\ InHand' = InHand
      BY <1>2 DEF Stored, InHand
    <2>2. QED
      BY <1>2, <2>1, ConservedSame
  <1>3. CASE UNCHANGED vars
    BY <1>2, <1>3 DEF vars
  <1>4. CASE \E c \in Source : Receive(c)
    BY <1>2, <1>4 DEF Receive, written
  <1>5. CASE \E c \in Source : Push(c)
    BY <1>5, ConservedPush
  <1>6. CASE WriterLoop \/ WriterFindNothing \/ WriterBlock \/ SpuriousWakeup
    BY <1>2, <1>6
       DEF WriterLoop, WriterFindNothing, WriterBlock, SpuriousWakeup, WriterStep, At, written
  <1>7. CASE WriterTake
    BY <1>1, <1>7, ConservedTake
  <1>8. CASE WriterWrite
    BY <1>8, ConservedWriter
  <1>9. CASE Start
    <2>1. log = NoLog /\ log' = NewLog /\ writer.pc = "none" /\ writer' = At("loop")
      BY <1>1, <1>9 DEF Start, Control
    <2>2. UNCHANGED <<queue, taken, dropped, lost, files>>
      BY <1>9 DEF Start
    <2>3. QED
      BY <1>2, <2>1, <2>2, EmptyTable DEF At
  <1>10. CASE Stop \/ StopJoin \/ FlushDone
    BY <1>2, <1>10 DEF Stop, StopJoin, FlushDone, written
  <1>11. CASE StopNotify
    <2>1. writer' = Notified /\ UNCHANGED <<queue, taken, dropped, lost, files, log>>
      BY <1>11 DEF StopNotify, written
    <2>2. QED
      BY <1>1, <1>2, <2>1, NotifiedTyped
  <1>12. CASE Flush
    BY <1>12, ConservedFlush
  <1>13. CASE Close
    BY <1>13, ConservedClose
  <1>14. CASE Tick
    <2>1. UNCHANGED <<queue, taken, dropped, lost, files, writer>>
      BY <1>14 DEF Tick
    <2>2. QED
      BY <1>2, <1>14, <2>1, BaseTick
  <1>15. CASE Crash
    BY <1>15, ConservedCrash
  <1>16. QED
    BY <1>3, <1>4, <1>5, <1>6, <1>7, <1>8, <1>9, <1>10, <1>11, <1>12, <1>13, <1>14, <1>15
       DEF Next, WriterRuns, StopContinues

-----------------------------------------------------------------------------
(* The numbers of the messages, and who has been given up.                 *)

\* Only what was taken is discarded or given up.
LEMMA GoneStep ==
    ASSUME Base, Numbered, Conserved, [Next]_vars
    PROVE  dropped' \cup lost' \subseteq Range(taken')
  <1>1. TypeOK /\ Control /\ Waits
    BY DEF Base
  <1>2. dropped \cup lost \subseteq Range(taken)
    BY DEF Numbered
  <1>3. /\ Range(Stored) \subseteq Range(taken) /\ Range(InHand) \subseteq Range(taken)
        /\ Range(queue) \subseteq Range(taken)
    BY <1>1, RemainingTaken
  <1>4. queue \in Seq(Message) /\ taken \in Seq(Message)
    BY <1>1 DEF TypeOK
  <1>5. ASSUME queue # <<>> PROVE Head(queue) \in Range(queue) /\ Head(queue) \in Message
    <2>1. /\ Head(queue) \in Message /\ Tail(queue) \in Seq(Message)
          /\ queue = <<Head(queue)>> \o Tail(queue)
      BY <1>4, <1>5, HeadAndTail
    <2>2. <<Head(queue)>> \in Seq(Message) /\ Range(<<Head(queue)>>) = {Head(queue)}
      BY <2>1, RangeOne
    <2> DEFINE one == <<Head(queue)>>
               rest == Tail(queue)
    <2>3. one \in Seq(Message) /\ rest \in Seq(Message) /\ queue = one \o rest
          /\ Range(one) = {Head(queue)}
      BY <2>1, <2>2
    <2> HIDE DEF one, rest
    <2>4. Range(one \o rest) = Range(one) \cup Range(rest)
      BY <2>3, RangeConcat
    <2>5. QED
      BY <2>1, <2>3, <2>4
  <1>6. ASSUME UNCHANGED <<taken, dropped, lost>> PROVE dropped' \cup lost' \subseteq Range(taken')
    BY <1>2, <1>6
  <1>7. ASSUME recording, NEW m \in Message, m \in Range(taken), WriteToLogFile(m),
               UNCHANGED <<taken, dropped>>
        PROVE  dropped' \cup lost' \subseteq Range(taken')
    <2>1. lost' = lost \/ lost' = lost \cup {m}
      BY <1>1, <1>7, WriteEffect
    <2>2. QED
      BY <1>2, <1>7, <2>1
  <1>8. CASE \E c \in Source : Push(c)
    <2>1. PICK c \in Source : Push(c)
      BY <1>8
    <2> DEFINE m == [from |-> c, seq |-> received[c]]
    <2>2. m \in Message
      BY <1>1, <2>1, PushTyped DEF Push
    <2>3. taken' = Append(taken, m) /\ lost' = lost
      BY <2>1 DEF Push, written
    <2>4. dropped' = dropped \/ (queue # <<>> /\ dropped' = dropped \cup {Head(queue)})
      BY <2>1 DEF Push, Discards
    <2> HIDE DEF m
    <2>5. Range(taken') = Range(taken) \cup {m}
      BY <1>4, <2>2, <2>3, RangeAppend
    <2>6. QED
      BY <1>2, <1>3, <1>5, <2>3, <2>4, <2>5
  <1>9. CASE WriterWrite
    <2>1. writer.msg \in Message /\ writer.pc = "write"
      BY <1>1, <1>9 DEF WriterWrite, TypeOK, WriterState
    <2>2. recording
      BY <1>1, <2>1 DEF Control
    <2> DEFINE m == writer.msg
    <2>3. InHand = <<m>> /\ m \in Message
      BY <2>1 DEF InHand
    <2>4. WriteToLogFile(m) /\ UNCHANGED <<taken, dropped>>
      BY <1>9 DEF WriterWrite
    <2> HIDE DEF m
    <2>5. m \in Range(taken)
      BY <1>3, <2>3, RangeOne
    <2>6. QED
      BY <1>7, <2>2, <2>3, <2>4, <2>5
  <1>10. CASE Flush
    <2> DEFINE m == Head(queue)
    <2>1. WriteToLogFile(m) /\ queue # <<>> /\ user = "flush" /\ UNCHANGED <<taken, dropped>>
      BY <1>10 DEF Flush
    <2>2. recording
      BY <1>1, <2>1 DEF Control
    <2>3. m \in Message /\ m \in Range(taken)
      BY <1>3, <1>5, <2>1
    <2> HIDE DEF m
    <2>4. QED
      BY <1>7, <2>1, <2>2, <2>3
  <1>11. Messages(log.pending) \in Seq(Message) /\ Range(Messages(log.pending)) \subseteq Range(taken)
    <2> DEFINE a == Messages(files \o log.committed)
               b == Messages(log.pending)
    <2>3. /\ files \in Seq(LogRow) /\ log.committed \in Seq(LogRow)
          /\ log.pending \in Seq(LogRow) /\ files \o log.committed \in Seq(LogRow)
      <3>1. /\ files \in Seq(LogRow) /\ log.committed \in Seq(LogRow)
            /\ log.pending \in Seq(LogRow)
        BY <1>1 DEF TypeOK
      <3>2. QED
        BY <3>1, ConcatProperties
    <2>4. files \o Table(log) = (files \o log.committed) \o log.pending
      <3>1. Associates(files, log.committed, log.pending)
        BY <2>3, Associate
      <3>2. QED
        BY <3>1 DEF Associates, Table
    <2>5. Stored = a \o b
      BY <2>3, <2>4, MessagesConcat DEF Stored
    <2>6. a \in Seq(Message) /\ b \in Seq(Message)
      BY <2>3, MessagesTyped
    <2> HIDE DEF a
    <2>7. b \in Seq(Message) /\ Range(b) \subseteq Range(Stored)
      <3> HIDE DEF b
      <3>1. QED
        BY <2>5, <2>6, RangeConcat
    <2>8. QED
      BY <1>3, <2>7
  <1>15. CASE Close
    BY <1>2, <1>11, <1>15 DEF Close
  <1>16. CASE Crash
    <2> DEFINE b == Messages(log.pending)
               d == b \o InHand \o queue
    <2>1. UNCHANGED <<taken, dropped>> /\ lost' = lost \cup Range(d)
      BY <1>16 DEF Crash
    <2>2. b \in Seq(Message) /\ Range(b) \subseteq Range(taken)
      BY <1>11
    <2> HIDE DEF b
    <2>3. InHand \in Seq(Message)
      BY <1>1, RemainingTyped
    <2>4. b \o InHand \in Seq(Message) /\ Range(b \o InHand) = Range(b) \cup Range(InHand)
      BY <2>2, <2>3, ConcatProperties, RangeConcat
    <2>5. Range(d) = Range(b \o InHand) \cup Range(queue)
      BY <1>4, <2>4, RangeConcat
    <2> HIDE DEF d
    <2>6. QED
      BY <1>2, <1>3, <2>1, <2>2, <2>4, <2>5
  <1>12. CASE UNCHANGED vars
    BY <1>6, <1>12 DEF vars
  <1>13. CASE \/ \E c \in Source : Receive(c)
              \/ WriterLoop \/ WriterFindNothing \/ WriterBlock \/ WriterTake
              \/ SpuriousWakeup \/ Start \/ Stop \/ StopNotify \/ StopJoin \/ FlushDone
              \/ Tick
    <2>1. UNCHANGED <<taken, dropped, lost>>
      BY <1>13 DEF Receive, WriterLoop, WriterFindNothing, WriterBlock, WriterTake,
            SpuriousWakeup, Start, Stop, StopNotify, StopJoin, FlushDone, Tick, WriterStep, written
    <2>2. QED
      BY <1>6, <2>1
  <1>14. QED
    BY <1>8, <1>9, <1>10, <1>12, <1>13, <1>15, <1>16 DEF Next, WriterRuns, StopContinues

LEMMA NumberedStep ==
    ASSUME Base, Numbered, Conserved, [Next]_vars
    PROVE  Numbered'
  <1>1. TypeOK
    BY DEF Base
  <1>2. /\ taken \in Seq(Message) /\ received \in [Source -> Nat]
        /\ callback \in [Source -> {"idle", "push"}]
    BY <1>1 DEF TypeOK
  <1>3. DOMAIN taken = 1..Len(taken) /\ \A i \in DOMAIN taken : taken[i] \in Message
    BY <1>2
  <1>4. \A i \in DOMAIN taken : taken[i].from \in Source /\ taken[i].seq \in Nat
    BY <1>3 DEF Message
  <1>5. dropped' \cup lost' \subseteq Range(taken')
    BY GoneStep
  <1>6. ASSUME UNCHANGED <<taken, received, callback>>
        PROVE  Numbered'
    BY <1>5, <1>6 DEF Numbered
  <1>7. CASE \E c \in Source : Receive(c)
    <2>1. PICK c \in Source : Receive(c)
      BY <1>7
    <2>2. /\ taken' = taken
          /\ received' = [received EXCEPT ![c] = @ + 1]
          /\ callback' = [callback EXCEPT ![c] = IF running THEN "push" ELSE "idle"]
          /\ callback[c] = "idle"
      BY <2>1 DEF Receive
    <2>3. \A d \in Source : /\ received'[d] = IF d = c THEN received[d] + 1 ELSE received[d]
                            /\ d # c => callback'[d] = callback[d]
      BY <1>2, <2>2
    <2>4. \A d \in Source : callback'[d] = "push" => received'[d] > 0
      BY <1>2, <2>3 DEF Numbered
    <2>5. \A i \in DOMAIN taken :
              /\ taken[i].seq <= received'[taken[i].from]
              /\ callback'[taken[i].from] = "push" => taken[i].seq < received'[taken[i].from]
      <3> TAKE i \in DOMAIN taken
      <3> DEFINE d == taken[i].from
                 k == taken[i].seq
      <3>1. d \in Source /\ k \in Nat /\ received[d] \in Nat
        BY <1>2, <1>4
      <3>2. k <= received[d] /\ (callback[d] = "push" => k < received[d])
        BY DEF Numbered
      <3> HIDE DEF d, k
      <3>3. /\ received'[d] = IF d = c THEN received[d] + 1 ELSE received[d]
            /\ d # c => callback'[d] = callback[d]
        BY <2>3, <3>1
      <3>4. k <= received'[d] /\ (callback'[d] = "push" => k < received'[d])
        BY <3>1, <3>2, <3>3
      <3>5. QED
        BY <3>4 DEF d, k
    <2>6. QED
      BY <1>5, <2>2, <2>4, <2>5 DEF Numbered
  <1>8. CASE \E c \in Source : Push(c)
    <2>1. PICK c \in Source : Push(c)
      BY <1>8
    <2> DEFINE m == [from |-> c, seq |-> received[c]]
    <2>2. /\ taken' = Append(taken, m)
          /\ received' = received
          /\ callback' = [callback EXCEPT ![c] = "idle"]
      BY <2>1 DEF Push
    <2>3. \A d \in Source : callback'[d] = IF d = c THEN "idle" ELSE callback[d]
      BY <1>2, <2>2
    <2>4. m.from = c /\ m.seq = received[c] /\ received[c] \in Nat
      BY <1>2
    <2> HIDE DEF m
    <2>5. \A i \in DOMAIN taken' : (i \in DOMAIN taken /\ taken'[i] = taken[i]) \/ taken'[i] = m
      BY <1>2, <2>2
    <2>6. \A d \in Source : callback'[d] = "push" => received'[d] > 0
      BY <2>2, <2>3 DEF Numbered
    <2>7. \A i \in DOMAIN taken' :
              /\ taken'[i].seq <= received'[taken'[i].from]
              /\ callback'[taken'[i].from] = "push" => taken'[i].seq < received'[taken'[i].from]
      <3> TAKE i \in DOMAIN taken'
      <3>1. CASE taken'[i] = m
        BY <2>2, <2>3, <2>4, <3>1
      <3>2. CASE i \in DOMAIN taken /\ taken'[i] = taken[i]
        BY <1>4, <2>2, <2>3, <3>2 DEF Numbered
      <3>3. QED
        BY <2>5, <3>1, <3>2
    <2>8. QED
      BY <1>5, <2>6, <2>7 DEF Numbered
  <1>9. CASE UNCHANGED vars
    BY <1>6, <1>9 DEF vars
  <1>10. CASE WriterRuns \/ SpuriousWakeup
    <2>1. UNCHANGED <<taken, received, callback>>
      BY <1>10 DEF WriterRuns, WriterLoop, WriterFindNothing, WriterBlock, WriterTake,
            WriterWrite, SpuriousWakeup, WriterStep
    <2>2. QED
      BY <1>6, <2>1
  <1>11. CASE Start \/ Stop \/ StopContinues \/ Tick
    <2>1. UNCHANGED <<taken, received, callback>>
      BY <1>11 DEF Start, Stop, StopContinues, StopNotify, StopJoin, Flush, FlushDone, Close, Tick
    <2>2. QED
      BY <1>6, <2>1
  <1>12. CASE Crash
    <2>1. UNCHANGED <<taken, received>> /\ \A c \in Source : callback'[c] = "idle"
      BY <1>12 DEF Crash
    <2>2. \A i \in DOMAIN taken : callback'[taken[i].from] # "push"
      BY <1>4, <2>1
    <2>3. QED
      BY <1>5, <2>1, <2>2 DEF Numbered
  <1>13. QED
    BY <1>7, <1>8, <1>9, <1>10, <1>11, <1>12 DEF Next

-----------------------------------------------------------------------------
(* What is left behind.                                                    *)

LEMMA LateStep ==
    ASSUME Base, Numbered, Late, [Next]_vars
    PROVE  Late'
  <1>1. TypeOK /\ Control
    BY DEF Base
  <1>2. queue \in Seq(Message) /\ callback \in [Source -> {"idle", "push"}]
    BY <1>1 DEF TypeOK
  <1>3. DOMAIN queue = 1..Len(queue) /\ Len(queue) \in Nat
    BY <1>2
  \* The steps after which a queue that was late is the same, and no further
  \* callback is about to queue.
  <1>4. ASSUME queue' = queue, user' = "close" \/ ~ recording' => user = "close" \/ ~ recording,
               \A c \in Source : callback'[c] = "push" /\ (user = "close" \/ ~ recording)
                                    => callback[c] = "push"
        PROVE  Late'
    BY <1>4 DEF Late
  <1>5. ASSUME UNCHANGED <<queue, callback>>,
               user' = "close" \/ ~ recording' => user = "close" \/ ~ recording
        PROVE  Late'
    BY <1>4, <1>5
  <1>6. ASSUME recording', user' # "close"
        PROVE  Late'
    BY <1>6 DEF Late
  <1>7. CASE UNCHANGED vars
    BY <1>5, <1>7 DEF vars
  <1>8. CASE \E c \in Source : Receive(c)
    <2>1. PICK c \in Source : Receive(c)
      BY <1>8
    <2>2. /\ UNCHANGED <<queue, recording, user>>
          /\ callback' = [callback EXCEPT ![c] = IF running THEN "push" ELSE "idle"]
      BY <2>1 DEF Receive
    <2>3. user = "close" \/ ~ recording => ~ running
      BY <1>1 DEF Control
    <2>4. \A d \in Source : callback'[d] = "push" /\ (user = "close" \/ ~ recording)
                              => callback[d] = "push"
      BY <1>2, <2>2, <2>3
    <2>5. QED
      BY <1>4, <2>2, <2>4
  <1>9. CASE \E c \in Source : Push(c)
    <2>1. PICK c \in Source : Push(c)
      BY <1>9
    <2> DEFINE m == [from |-> c, seq |-> received[c]]
    <2>2. /\ UNCHANGED <<recording, user>>
          /\ callback' = [callback EXCEPT ![c] = "idle"] /\ callback[c] = "push"
      BY <2>1 DEF Push
    <2>3. m \in Message /\ m.from = c
      BY <1>1, <2>1, PushTyped DEF Push
    <2>4. SUFFICES ASSUME user = "close" \/ ~ recording
                   PROVE  Late'
      BY <2>2 DEF Late
    <2>5. /\ \A d \in Source : \A i, j \in 1..Len(queue) :
                queue[i].from = d /\ queue[j].from = d => i = j
          /\ \A d \in Source : callback[d] = "push" =>
                \A i \in 1..Len(queue) : queue[i].from # d
      BY <1>3, <2>4 DEF Late
    <2>6. \A d \in Source : callback'[d] = IF d = c THEN "idle" ELSE callback[d]
      BY <1>2, <2>2
    \* Without the new message, the queue is one of which this was true.
    <2>7. PICK q \in Seq(Message) :
              /\ queue' = Append(q, m)
              /\ \A d \in Source : \A i, j \in 1..Len(q) :
                    q[i].from = d /\ q[j].from = d => i = j
              /\ \A d \in Source : callback[d] = "push" => \A i \in 1..Len(q) : q[i].from # d
      <3>1. CASE Discards(c)
        <4>1. queue # <<>> /\ queue' = Append(Tail(queue), m)
          BY <2>1, <3>1 DEF Push, Discards
        <4> HIDE DEF m
        <4> DEFINE q == Tail(queue)
        <4>2. q \in Seq(Message) /\ Len(q) = Len(queue) - 1
          BY <1>2, <4>1, HeadTailProperties
        <4>3. \A i \in 1..Len(q) : i + 1 \in 1..Len(queue) /\ q[i] = queue[i+1]
          <5> TAKE i \in 1..Len(q)
          <5>1. i \in 1..Len(queue) - 1 /\ i + 1 \in 1..Len(queue)
            BY <1>3, <4>2
          <5>2. QED
            BY <1>2, <4>1, <5>1
        <4> HIDE DEF q
        <4>4. \A d \in Source : \A i, j \in 1..Len(q) :
                  q[i].from = d /\ q[j].from = d => i = j
          <5> TAKE d \in Source
          <5> TAKE i, j \in 1..Len(q)
          <5> HAVE q[i].from = d /\ q[j].from = d
          <5>1. i + 1 = j + 1
            BY <2>5, <4>3
          <5>2. QED
            BY <4>2, <5>1
        <4>5. \A d \in Source : callback[d] = "push" => \A i \in 1..Len(q) : q[i].from # d
          BY <2>5, <4>3
        <4>6. queue' = Append(q, m)
          BY <4>1 DEF q
        <4>7. QED
          BY <4>2, <4>4, <4>5, <4>6
      <3>2. CASE ~ Discards(c)
        <4>1. queue' = Append(queue, m)
          BY <2>1, <3>2 DEF Push
        <4>2. QED
          BY <1>2, <2>5, <4>1
      <3>3. QED
        BY <3>1, <3>2
    <2> HIDE DEF m
    <2>8. /\ DOMAIN queue' = 1..Len(q) + 1 /\ Len(q) \in Nat
          /\ queue'[Len(q) + 1] = m /\ \A i \in 1..Len(q) : queue'[i] = q[i]
          /\ \A i \in 1..Len(q) + 1 : i \in 1..Len(q) \/ i = Len(q) + 1
      BY <2>3, <2>7
    <2>9. \A i \in 1..Len(q) : queue'[i].from # c
      BY <2>2, <2>7, <2>8
    <2>10. \A d \in Source : \A i, j \in DOMAIN queue' :
              queue'[i].from = d /\ queue'[j].from = d => i = j
      <3> TAKE d \in Source
      <3> TAKE i, j \in DOMAIN queue'
      <3> HAVE queue'[i].from = d /\ queue'[j].from = d
      <3>1. CASE d = c
        BY <2>8, <2>9, <3>1
      <3>2. CASE d # c
        <4>1. i \in 1..Len(q) /\ j \in 1..Len(q)
          BY <2>3, <2>8, <3>2
        <4>2. QED
          BY <2>7, <2>8, <4>1
      <3>3. QED
        BY <3>1, <3>2
    <2>11. \A d \in Source : callback'[d] = "push" => \A i \in DOMAIN queue' : queue'[i].from # d
      BY <2>3, <2>6, <2>7, <2>8
    <2>12. QED
      BY <2>10, <2>11 DEF Late
  <1>10. CASE WriterLoop \/ WriterFindNothing \/ WriterBlock \/ WriterWrite \/ SpuriousWakeup
    <2>1. UNCHANGED <<queue, callback, user, recording>>
      BY <1>10 DEF WriterLoop, WriterFindNothing, WriterBlock, WriterWrite, SpuriousWakeup, WriterStep
    <2>2. QED
      BY <1>5, <2>1
  <1>11. CASE WriterTake
    <2>1. recording /\ user # "close" /\ UNCHANGED <<recording, user>>
      BY <1>1, <1>11 DEF WriterTake, Control
    <2>2. QED
      BY <1>6, <2>1
  <1>12. CASE Start
    BY <1>6, <1>12 DEF Start
  <1>13. CASE Stop \/ StopNotify \/ StopJoin \/ Tick
    <2>1. UNCHANGED <<queue, callback, recording>> /\ (user' = user \/ user' # "close")
      BY <1>13 DEF Stop, StopNotify, StopJoin, Tick
    <2>2. QED
      BY <1>5, <2>1
  <1>14. CASE Flush
    <2>1. recording /\ user = "flush" /\ UNCHANGED <<recording, user>>
      BY <1>1, <1>14 DEF Flush, Control
    <2>2. QED
      BY <1>6, <2>1
  <1>15. CASE FlushDone
    <2>1. queue' = <<>>
      BY <1>15 DEF FlushDone
    <2>2. DOMAIN queue' = {}
      BY <2>1
    <2>3. QED
      BY <2>2 DEF Late
  <1>16. CASE Close
    <2>1. UNCHANGED <<queue, callback>> /\ user = "close"
      BY <1>16 DEF Close
    <2>2. QED
      BY <1>5, <2>1
  <1>17. CASE Crash
    <2>1. queue' = <<>>
      BY <1>17 DEF Crash
    <2>2. DOMAIN queue' = {}
      BY <2>1
    <2>3. QED
      BY <2>2 DEF Late
  <1>18. QED
    BY <1>7, <1>8, <1>9, <1>10, <1>11, <1>12, <1>13, <1>14, <1>15, <1>16, <1>17
       DEF Next, WriterRuns, StopContinues

LEMMA LateMeans ==
    ASSUME TypeOK, Late
    PROVE  LeftBehind
  <1> SUFFICES ASSUME ~ recording, NEW c \in Source
               PROVE  Cardinality(Of(c, InQueue)) <= 1
    BY DEF LeftBehind
  <1>1. queue \in Seq(Message) /\ DOMAIN queue = 1..Len(queue)
    BY DEF TypeOK
  <1>2. \A x, y \in Of(c, InQueue) : x = y
    <2> SUFFICES ASSUME NEW x \in Of(c, InQueue), NEW y \in Of(c, InQueue)
                 PROVE  x = y
      OBVIOUS
    <2>1. x \in Range(queue) /\ y \in Range(queue) /\ x.from = c /\ y.from = c
      BY DEF Of, InQueue
    <2>2. PICK i \in 1..Len(queue) : x = queue[i]
      BY <1>1, <2>1, RangeMembers
    <2>3. PICK j \in 1..Len(queue) : y = queue[j]
      BY <1>1, <2>1, RangeMembers
    <2>4. i = j
      BY <1>1, <2>1, <2>2, <2>3 DEF Late
    <2>5. QED
      BY <2>2, <2>3, <2>4
  <1>3. CASE Of(c, InQueue) = {}
    BY <1>3, FS_EmptySet
  <1>4. CASE Of(c, InQueue) # {}
    <2>1. PICK x : Of(c, InQueue) = {x}
      BY <1>2, <1>4
    <2>2. QED
      BY <2>1, FS_Singleton
  <1>5. QED
    BY <1>3, <1>4

-----------------------------------------------------------------------------
(* The theorems.                                                           *)

LEMMA InvInit == Init => Inv
  <1> SUFFICES ASSUME Init PROVE Inv
    OBVIOUS
  <1>1. Base
    BY BaseInit
  <1>2. queue = <<>> /\ taken = <<>> /\ dropped = {} /\ lost = {} /\ files = <<>>
        /\ log = NoLog /\ InHand = <<>>
    BY DEF Init, InHand, At
  <1>3. DOMAIN <<>> = {}
    OBVIOUS
  <1>4. Numbered
    <2>1. \A c \in Source : callback[c] = "idle"
      BY DEF Init
    <2>2. QED
      BY <1>2, <1>3, <2>1 DEF Numbered
  <1>5. Late
    BY <1>2, <1>3 DEF Late
  <1>6. Conserved
    <2>1. \A s \in {<<>>} : <<>> \o s = <<>>
      <3>1. <<>> \in Seq(Message)
        OBVIOUS
      <3>2. QED
        BY <3>1, ConcatEmptySeq
    <2>2. Table(log) = <<>>
      BY <1>2, EmptyTable
    <2>3. Stored = <<>>
      BY <1>2, <2>1, <2>2, MessagesEmpty DEF Stored
    <2>4. Remaining = <<>>
      BY <1>2, <2>1, <2>3 DEF Remaining
    <2>5. Range(<<>>) = {}
      BY <1>3 DEF Range
    <2>6. RestOf(<<>>, <<>>, {})
      BY <1>3, <2>5 DEF RestOf
    <2>7. QED
      BY <1>2, <2>4, <2>6, ConservedIs DEF Gone
  <1>7. QED
    BY <1>1, <1>4, <1>5, <1>6 DEF Inv, Base

LEMMA InvStep == Inv /\ [Next]_vars => Inv'
  <1> SUFFICES ASSUME Inv, [Next]_vars PROVE Inv'
    OBVIOUS
  <1>1. Base /\ Numbered /\ Conserved /\ Late
    BY DEF Inv, Base
  <1>2. Base' /\ Numbered' /\ Conserved' /\ Late'
    BY <1>1, BaseStep, NumberedStep, ConservedStep, LateStep
  <1>3. QED
    BY <1>2 DEF Inv, Base

LEMMA InvAlways == Spec => []Inv
  BY InvInit, InvStep, PTL DEF Spec

\* Every variable of the recorder keeps its type: the queue and the rows are
\* of messages, the byte count is never negative, and the log's transaction
\* and the waiting time stay in their range.
THEOREM TypeCorrect == Spec => []TypeOK
  <1>1. Inv => TypeOK
    BY DEF Inv
  <1>2. QED
    BY <1>1, InvAlways, PTL

\* What the callbacks queued and did not discard is written once, in the order
\* of the queue, by the writer or by Stop, over any number of recordings, for
\* any number of threads; and Stop leaves one message of a thread at most.
THEOREM EverythingIsWrittenOnce == Spec => []WrittenOnce
  <1>1. Inv => WrittenOnce
    BY LateMeans DEF Inv, WrittenOnce
  <1>2. QED
    BY <1>1, InvAlways, PTL

-----------------------------------------------------------------------------
(* The buffer.                                                             *)

\* What the second part of BufferBounded says of a queue of n messages.
Fits(n) == MaxBuffer = 0 \/ n <= 1 \/ \E c \in Source : n * LenOf[c] <= MaxBuffer

LEMMA FewerFit ==
    ASSUME NEW n \in Nat, NEW k \in Nat, k <= n, Fits(n)
    PROVE  Fits(k)
  <1>1. CASE MaxBuffer = 0 \/ n <= 1
    BY <1>1 DEF Fits
  <1>2. CASE \E c \in Source : n * LenOf[c] <= MaxBuffer
    <2>1. PICK c \in Source : n * LenOf[c] <= MaxBuffer
      BY <1>2
    <2>2. LenOf[c] \in Nat /\ MaxBuffer \in Nat
      BY BufferAssumption
    <2> DEFINE len == LenOf[c]
    <2> HIDE DEF len
    <2>3. k * len <= n * len
      <3>1. PICK d \in Nat : n = k + d
        <4>1. n - k \in Nat /\ n = k + (n - k)
          OBVIOUS
        <4>2. QED
          BY <4>1
      <3>2. len \in Nat
        BY <2>2 DEF len
      <3>3. n * len = k * len + d * len /\ d * len \in Nat /\ k * len \in Nat
        BY <3>1, <3>2
      <3>4. QED
        BY <3>3
    <2>4. k * len \in Nat /\ n * len \in Nat
      BY <2>2 DEF len
    <2>5. k * LenOf[c] <= MaxBuffer
      BY <2>1, <2>2, <2>3, <2>4 DEF len
    <2>6. QED
      BY <2>5 DEF Fits
  <1>3. QED
    BY <1>1, <1>2 DEF Fits

\* A queue of no more than MaxBuffer bytes fits: the shortest messages count.
LEMMA BytesFit ==
    ASSUME NEW q \in Seq(Message), q # <<>>, Bytes(q) <= MaxBuffer
    PROVE  Fits(Len(q))
  <1> DEFINE S == { LenOf[c] : c \in Source }
  <1>1. S \in SUBSET Nat
    BY BufferAssumption
  <1>2. S # {}
    <2>1. Head(q) \in Message
      BY HeadAndTail
    <2>2. Head(q).from \in Source
      BY <2>1 DEF Message
    <2>3. QED
      BY <2>2
  <1>3. PICK len \in S : \A m \in S : len <= m
    <2> HIDE DEF S
    <2>1. QED
      BY <1>1, <1>2, LeastNumber
  <1>4. PICK c \in Source : len = LenOf[c]
    BY <1>3
  <1>5. \A d \in Source : len <= LenOf[d]
    BY <1>3
  <1>6. len \in Nat /\ Len(q) \in Nat
    BY <1>1
  <1> HIDE DEF S
  <1>7. Len(q) * len <= Bytes(q) /\ Len(q) * len \in Nat
    BY <1>5, <1>6, BytesAtLeast
  <1>8. Bytes(q) \in Nat /\ MaxBuffer \in Nat
    BY BytesType, BufferAssumption
  <1>9. Len(q) * LenOf[c] <= MaxBuffer
    BY <1>4, <1>7, <1>8
  <1>10. QED
    BY <1>9 DEF Fits

LEMMA BufferPush ==
    ASSUME TypeOK, Numbered, BufferBounded, NEW c \in Source, Push(c)
    PROVE  BufferBounded'
  <1> DEFINE m == [from |-> c, seq |-> received[c]]
             len == LenOf[c]
  <1>1. m \in Message /\ m.from = c
    BY PushTyped DEF Push
  <1>2. queue \in Seq(Message) /\ bufferSize \in Nat
    BY DEF TypeOK
  <1>3. len \in Nat /\ MaxBuffer \in Nat
    BY BufferAssumption
  <1>4. bufferSize >= Bytes(queue) /\ Fits(Len(queue)) /\ Bytes(queue) \in Nat
    BY <1>2, BytesType DEF BufferBounded, Fits
  <1> HIDE DEF m
  <1>5. CASE Discards(c)
    <2> DEFINE rest == Tail(queue)
               head == LenOf[Head(queue).from]
    <2>1. /\ queue # <<>>
          /\ queue' = Append(rest, m)
          /\ bufferSize' = Decremented(head) + len
      BY <1>5 DEF Push, Discards, m
    <2>2. rest \in Seq(Message) /\ Head(queue) \in Message /\ Len(rest) = Len(queue) - 1
      BY <1>2, <2>1, HeadTailProperties
    <2>3. head \in Nat
      BY <2>2, BufferAssumption DEF Message
    <2>4. Bytes(queue) = head + Bytes(rest) /\ Bytes(rest) \in Nat
      BY <1>2, <2>1, <2>2, BytesTail, BytesType
    <2> HIDE DEF rest, head
    <2>5. Bytes(queue') = Bytes(rest) + len
      BY <1>1, <2>1, <2>2, BytesAppend
    <2> HIDE DEF len
    <2>6. Decremented(head) = bufferSize - head
      BY <1>2, <1>4, <2>3, <2>4 DEF Decremented
    <2>7. bufferSize' >= Bytes(queue')
      BY <1>2, <1>3, <1>4, <2>1, <2>3, <2>4, <2>5, <2>6
    <2>8. Len(queue') = Len(queue)
      BY <1>1, <1>2, <2>1, <2>2
    <2>9. QED
      BY <1>4, <2>7, <2>8 DEF BufferBounded, Fits
  <1>6. CASE ~ Discards(c)
    <2>1. queue' = Append(queue, m) /\ bufferSize' = bufferSize + len
      BY <1>6 DEF Push, m
    <2>2. queue' \in Seq(Message) /\ queue' # <<>> /\ Len(queue') = Len(queue) + 1
      BY <1>1, <1>2, <2>1
    <2>3. Bytes(queue') = Bytes(queue) + len
      BY <1>1, <1>2, <2>1, BytesAppend
    <2>4. bufferSize' >= Bytes(queue')
      BY <1>2, <1>3, <1>4, <2>1, <2>3
    <2>5. Fits(Len(queue'))
      <3>1. CASE MaxBuffer = 0
        BY <3>1 DEF Fits
      <3>2. CASE queue = <<>>
        <4>1. Len(queue') = 1
          BY <2>2, <3>2
        <4>2. QED
          BY <4>1 DEF Fits
      <3>3. CASE MaxBuffer > 0 /\ queue # <<>>
        <4>1. bufferSize + len <= MaxBuffer
          BY <1>2, <1>3, <1>6, <3>3 DEF Discards, Full
        <4>2. Bytes(queue') <= MaxBuffer
          BY <1>2, <1>3, <1>4, <2>3, <4>1
        <4> DEFINE q == queue'
        <4>3. q \in Seq(Message) /\ q # <<>> /\ Bytes(q) <= MaxBuffer
          BY <2>2, <4>2
        <4> HIDE DEF q
        <4>4. Fits(Len(q))
          BY <4>3, BytesFit
        <4>5. QED
          BY <4>4 DEF q
      <3>4. QED
        BY <1>3, <3>1, <3>2, <3>3
    <2>6. QED
      BY <2>4, <2>5 DEF BufferBounded, Fits
  <1>7. QED
    BY <1>5, <1>6

\* The writer and Stop take messages without touching the count.
LEMMA BufferTaken ==
    ASSUME TypeOK, BufferBounded, queue # <<>>, queue' = Tail(queue), bufferSize' = bufferSize
    PROVE  BufferBounded'
  <1> DEFINE rest == Tail(queue)
             head == LenOf[Head(queue).from]
  <1>1. queue \in Seq(Message) /\ bufferSize \in Nat
    BY DEF TypeOK
  <1>2. rest \in Seq(Message) /\ Head(queue) \in Message /\ Len(rest) = Len(queue) - 1
    BY <1>1, HeadTailProperties
  <1>3. head \in Nat
    BY <1>2, BufferAssumption DEF Message
  <1>4. Bytes(queue) = head + Bytes(rest) /\ Bytes(rest) \in Nat
    BY <1>1, <1>2, BytesTail, BytesType
  <1>5. bufferSize >= Bytes(queue) /\ Fits(Len(queue))
    BY DEF BufferBounded, Fits
  <1> HIDE DEF rest, head
  <1>6. bufferSize >= Bytes(rest)
    BY <1>1, <1>3, <1>4, <1>5
  <1>7. Len(rest) \in Nat /\ Len(queue) \in Nat /\ Len(rest) <= Len(queue)
    BY <1>1, <1>2
  <1>8. Fits(Len(rest))
    BY <1>5, <1>7, FewerFit
  <1>9. queue' = rest
    BY DEF rest
  <1>10. QED
    BY <1>6, <1>8, <1>9 DEF BufferBounded, Fits

LEMMA BufferStep ==
    ASSUME TypeOK, Numbered, BufferBounded, [Next]_vars
    PROVE  BufferBounded'
  <1>1. ASSUME UNCHANGED <<queue, bufferSize>>
        PROVE  BufferBounded'
    BY <1>1 DEF BufferBounded
  <1>2. CASE UNCHANGED vars
    BY <1>1, <1>2 DEF vars
  <1>3. CASE \E c \in Source : Receive(c)
    BY <1>1, <1>3 DEF Receive
  <1>4. CASE \E c \in Source : Push(c)
    BY <1>4, BufferPush
  <1>5. CASE WriterTake
    BY <1>5, BufferTaken DEF WriterTake
  <1>6. CASE Flush
    BY <1>6, BufferTaken DEF Flush
  <1>7. CASE WriterLoop \/ WriterFindNothing \/ WriterBlock \/ WriterWrite \/ SpuriousWakeup
    <2>1. UNCHANGED <<queue, bufferSize>>
      BY <1>7 DEF WriterLoop, WriterFindNothing, WriterBlock, WriterWrite, SpuriousWakeup, WriterStep
    <2>2. QED
      BY <1>1, <2>1
  <1>8. CASE Start \/ Stop \/ StopNotify \/ StopJoin \/ FlushDone \/ Close \/ Tick
    <2>1. UNCHANGED <<queue, bufferSize>>
      BY <1>8 DEF Start, Stop, StopNotify, StopJoin, FlushDone, Close, Tick
    <2>2. QED
      BY <1>1, <2>1
  <1>9. CASE Crash
    <2>1. queue' = <<>> /\ bufferSize' = 0 /\ Len(queue') = 0
      BY <1>9 DEF Crash
    <2>2. QED
      BY <2>1, BytesEmpty DEF BufferBounded
  <1>10. QED
    BY <1>2, <1>3, <1>4, <1>5, <1>6, <1>7, <1>8, <1>9 DEF Next, WriterRuns, StopContinues

\* The count never falls behind the bytes of the queue, so that
\* DecrementBufferSize never meets the case that its comment excludes, and the
\* number of queued messages keeps the limit of SetBufferSize, whatever the
\* lengths of the messages.
THEOREM BufferStaysBounded == Spec => []BufferBounded
  <1>1. Init => BufferBounded
    <2> SUFFICES ASSUME Init PROVE BufferBounded
      OBVIOUS
    <2>1. queue = <<>> /\ bufferSize = 0 /\ Len(queue) = 0
      BY DEF Init
    <2>2. QED
      BY <2>1, BytesEmpty DEF BufferBounded
  <1>2. Inv /\ BufferBounded /\ [Next]_vars => BufferBounded'
    BY BufferStep DEF Inv
  <1>3. QED
    BY <1>1, <1>2, InvAlways, PTL DEF Spec

-----------------------------------------------------------------------------
(* The disk.                                                               *)

\* A Stop that SQLite does not fail leaves every row in the file.
LEMMA FlushedToFile ==
    ASSUME TypeOK, Close, failures' = 0
    PROVE  Len(files') = Len(files \o Table(log))
  \* A failure would have been counted.
  <1>1. files' = files \o FileOf(log)
    <2>1. failures \in Nat
      BY BoundAssumption DEF TypeOK
    <2>2. ~ Fails
      BY <2>1 DEF Fails
    <2>3. QED
      BY <2>2 DEF Close
  <1>2. DOMAIN log = LogFields
    BY FieldsOfLog DEF TypeOK
  <1>3. FileOf(log) = Table(log)
    BY <1>2, TransactionEnded DEF FileOf, Table
  <1>4. QED
    BY <1>1, <1>3

LEMMA OnDiskStep ==
    ASSUME Inv, [Next]_vars
    PROVE  /\ crashes' # crashes /\ failures = 0 => spread <= TransactionPeriod
           /\ crashes' = crashes /\ failures' = 0 /\ recording /\ ~ recording' =>
                  Len(files') = Len(files \o Table(log))
  <1>1. TypeOK /\ Control /\ Waits
    BY DEF Inv
  <1>2. failures = 0 => spread <= TransactionPeriod
    BY <1>1 DEF Waits
  \* Only Close and a crash end a recording.
  <1>3. ASSUME recording, ~ recording', crashes' = crashes
        PROVE  Close
    <2>1. ~ Crash
      BY <1>1, <1>3, BoundAssumption DEF Crash, TypeOK
    <2>2. recording' # recording
      BY <1>3
    <2>3. CASE UNCHANGED vars
      BY <2>2, <2>3 DEF vars
    <2>4. CASE \/ \E c \in Source : Receive(c) \/ Push(c)
               \/ WriterRuns \/ SpuriousWakeup
               \/ Stop \/ StopNotify \/ StopJoin \/ Flush \/ FlushDone \/ Tick
      BY <2>2, <2>4 DEF Receive, Push, WriterRuns, WriterLoop, WriterFindNothing, WriterBlock,
            WriterTake, WriterWrite, SpuriousWakeup, Stop, StopNotify, StopJoin, Flush,
            FlushDone, Tick, WriterStep
    <2>5. CASE Start
      BY <1>3, <2>5 DEF Start
    <2>6. QED
      BY <2>1, <2>3, <2>4, <2>5 DEF Next, StopContinues
  <1>4. QED
    BY <1>1, <1>2, <1>3, FlushedToFile

\* While SQLite does not fail, the rows that a process takes with it when it
\* dies were inserted within one period of a transaction, for any number of
\* threads, recordings and deaths, and Stop leaves no row in memory.
THEOREM LossIsOfOnePeriod == Spec => OnDisk
  <1>1. Inv /\ [Next]_vars
        => [/\ crashes' # crashes /\ failures = 0 => spread <= TransactionPeriod
            /\ crashes' = crashes /\ failures' = 0 /\ recording /\ ~ recording' =>
                   Len(files') = Len(files \o Table(log))]_vars
    BY OnDiskStep
  <1>2. QED
    BY <1>1, InvAlways, PTL DEF Spec, OnDisk
=============================================================================
