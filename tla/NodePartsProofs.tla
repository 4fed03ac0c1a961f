--------------------------- MODULE NodePartsProofs ---------------------------
(***************************************************************************)
(* Theorems about the small modules that make up a node and what it tells  *)
(* other processes, each of them for every value of its constants: the     *)
(* names of topics, the records of publishers, what a node holds in its    *)
(* process, the books kept from the liveliness tokens of Zenoh, and calls  *)
(* that are queries.  As in NodeParts one part moves in a behavior; what is  *)
(* proved of it is what its own specification says.                        *)
(***************************************************************************)
EXTENDS NodeParts, SequenceTheorems, FiniteSetTheorems, WellFoundedInduction, TLAPS

-----------------------------------------------------------------------------
(* Names: sequences that are cut and joined.                               *)

\* A set of numbers that is not empty has a least one.
LEMMA LeastNumber ==
    ASSUME NEW S \in SUBSET Nat, S # {}
    PROVE  \E n \in S : \A m \in S : n <= m
  <1> DEFINE T == { 0..n : n \in S }
             R == StrictSubsetOrdering(Nat)
  <1>1. IsWellFoundedOn(R, FiniteSubsetsOf(Nat))
    BY FS_StrictSubsetOrderingWellFounded
  <1>2. T \subseteq FiniteSubsetsOf(Nat) /\ T # {}
    <2>1. \A n \in S : IsFiniteSet(0..n) /\ 0..n \subseteq Nat
      BY FS_Interval
    <2>2. QED
      BY <2>1 DEF FiniteSubsetsOf
  <1>3. PICK I \in T : \A J \in T : <<J, I>> \notin R
    <2> HIDE DEF R, T
    <2> QED
      BY <1>1, <1>2, WFMin
  <1>4. PICK n \in S : I = 0..n
    OBVIOUS
  <1>5. ASSUME NEW m \in S, m < n PROVE FALSE
    <2>1. 0..m \in T /\ 0..m \subseteq 0..n /\ n \in 0..n /\ n \notin 0..m
      BY <1>5
    <2>2. 0..m # 0..n
      BY <2>1
    <2>3. 0..m \in SUBSET Nat /\ 0..n \in SUBSET Nat
      OBVIOUS
    <2>4. <<0..m, 0..n>> \in R
      BY <2>1, <2>2, <2>3 DEF StrictSubsetOrdering
    <2>5. QED
      BY <1>3, <1>4, <2>1, <2>4
  <1>6. QED
    BY <1>5

LEMMA UpTo ==
    ASSUME NEW n \in Nat, NEW S, 0 \in S,
           \A k \in 1..n : k - 1 \in S => k \in S
    PROVE  0..n \subseteq S
  <1> DEFINE Out == { k \in 0..n : k \notin S }
  <1>1. SUFFICES ASSUME Out # {} PROVE FALSE
    OBVIOUS
  <1>2. PICK k \in Out : \A m \in Out : k <= m
    <2>1. Out \in SUBSET Nat
      OBVIOUS
    <2> HIDE DEF Out
    <2>2. QED
      BY <1>1, <2>1, LeastNumber
  <1>3. k \in 1..n /\ k - 1 \in 0..n
    OBVIOUS
  <1>4. k - 1 \in S
    BY <1>2, <1>3
  <1>5. QED
    BY <1>3, <1>4

LEMMA TextCounts == \A S : TN!Cardinality(S) = Cardinality(S)
  BY DEF TN!Cardinality, Cardinality

\* Ends say where pieces of a sequence end, one after the other.
Ending(e, m) ==
    /\ e \in [0..m -> Nat] /\ e[0] = 0
    /\ \A k \in 1..m : e[k - 1] < e[k]

LEMMA EndsRise ==
    ASSUME NEW m \in Nat \ {0}, NEW e, Ending(e, m)
    PROVE  /\ \A j, k \in 0..m : j < k => e[j] < e[k]
           /\ \A i \in 1..e[m] : \E k \in 1..m : e[k - 1] < i /\ i <= e[k]
  <1>1. e \in [0..m -> Nat] /\ e[0] = 0 /\ \A k \in 1..m : e[k - 1] < e[k]
    BY DEF Ending
  <1>2. ASSUME NEW j \in 0..m PROVE \A k \in 0..m : j < k => e[j] < e[k]
    <2> DEFINE Good == { k \in 0..m : j < k => e[j] < e[k] }
    <2>1. 0 \in Good
      OBVIOUS
    <2>2. ASSUME NEW k \in 1..m, k - 1 \in Good PROVE k \in Good
      <3>1. e[k - 1] < e[k] /\ e[k - 1] \in Nat /\ e[k] \in Nat /\ e[j] \in Nat
        BY <1>1
      <3>2. CASE j < k - 1
        BY <2>2, <3>1, <3>2
      <3>3. CASE j = k - 1
        BY <3>1, <3>3
      <3>4. CASE k <= j
        BY <3>4
      <3>5. QED
        BY <3>2, <3>3, <3>4
    <2> HIDE DEF Good
    <2>3. 0..m \subseteq Good
      BY <2>1, <2>2, UpTo
    <2>4. QED
      BY <2>3 DEF Good
  <1>3. \A i \in 1..e[m] : \E k \in 1..m : e[k - 1] < i /\ i <= e[k]
    <2> DEFINE Good == { n \in 0..m : \A i \in 1..e[n] : \E k \in 1..m : e[k - 1] < i /\ i <= e[k] }
    <2>1. 0 \in Good
      BY <1>1
    <2>2. ASSUME NEW n \in 1..m, n - 1 \in Good PROVE n \in Good
      <3>1. e[n - 1] \in Nat /\ e[n] \in Nat
        BY <1>1
      <3>2. ASSUME NEW i \in 1..e[n] PROVE \E k \in 1..m : e[k - 1] < i /\ i <= e[k]
        <4>1. CASE i <= e[n - 1]
          BY <2>2, <3>1, <4>1
        <4>2. CASE e[n - 1] < i
          BY <3>1, <4>2
        <4>3. QED
          BY <3>1, <4>1, <4>2
      <3>3. QED
        BY <3>2
    <2> HIDE DEF Good
    <2>3. 0..m \subseteq Good
      BY <2>1, <2>2, UpTo
    <2>4. m \in Good
      BY <2>3
    <2>5. QED
      BY <2>4 DEF Good
  <1>4. QED
    BY <1>2, <1>3

\* There are as many of the ends below the k-th as k.
LEMMA EndsBelow ==
    ASSUME NEW m \in Nat \ {0}, NEW e, Ending(e, m), NEW k \in 0..m + 1
    PROVE  Cardinality({ e[j] : j \in 0..k - 1 }) = k
  <1> DEFINE T == { e[j] : j \in 0..k - 1 }
             r == [j \in 0..k - 1 |-> e[j]]
  <1>1. e \in [0..m -> Nat] /\ 0..k - 1 \subseteq 0..m
    BY DEF Ending
  <1>2. \A i, j \in 0..k - 1 : e[i] = e[j] => i = j
    <2>1. \A i, j \in 0..m : i < j => e[i] < e[j]
      BY EndsRise
    <2>2. SUFFICES ASSUME NEW i \in 0..k - 1, NEW j \in 0..k - 1, e[i] = e[j], i # j
                   PROVE  FALSE
      OBVIOUS
    <2>3. e[i] < e[j] \/ e[j] < e[i]
      BY <1>1, <2>1, <2>2
    <2>4. e[i] \in Nat /\ e[j] \in Nat
      BY <1>1
    <2>5. QED
      BY <2>2, <2>3, <2>4
  <1>3. r \in [0..k - 1 -> T] /\ \A j \in 0..k - 1 : r[j] = e[j]
    OBVIOUS
  <1>4. \A t \in T : \E j \in 0..k - 1 : e[j] = t
    OBVIOUS
  <1>5. IsFiniteSet(0..k - 1) /\ Cardinality(0..k - 1) = k
    BY FS_Interval
  <1> HIDE DEF r, T
  <1>6. r \in Injection(0..k - 1, T)
    BY <1>2, <1>3 DEF Injection, IsInjective
  <1>7. r \in Surjection(0..k - 1, T)
    BY <1>3, <1>4 DEF Surjection
  <1>8. Cardinality(T) = Cardinality(0..k - 1)
    BY <1>5, <1>6, <1>7, FS_Surjection
  <1>9. QED
    BY <1>5, <1>8 DEF T

\* A sequence is split at the ends, if c is there and nowhere else.
Separates(c, s, e, m) ==
    /\ Len(s) \in Nat /\ m \in Nat \ {0}
    /\ Ending(e, m) /\ e[m] = Len(s) + 1
    /\ \A k \in 1..m - 1 : s[e[k]] = c
    /\ \A k \in 1..m : \A i \in e[k - 1] + 1 .. e[k] - 1 : s[i] # c

SplitsAt(c, s, e, m) ==
    TN!Split(s, c) = [k \in 1..m |-> SubSeq(s, e[k - 1] + 1, e[k] - 1)]

LEMMA SplitAt ==
    ASSUME NEW s, NEW c, NEW m, NEW e, Separates(c, s, e, m)
    PROVE  SplitsAt(c, s, e, m)
  <1> DEFINE cuts == {0, Len(s) + 1} \cup {i \in 1..Len(s) : s[i] = c}
             below(i) == {j \in cuts : j < i}
             cutAt(k) == CHOOSE i \in cuts : TN!Cardinality({j \in cuts : j < i}) = k - 1
  <1> /\ m \in Nat \ {0} /\ Ending(e, m) /\ e[m] = Len(s) + 1
      /\ \A k \in 1..m - 1 : s[e[k]] = c
      /\ \A k \in 1..m : \A i \in e[k - 1] + 1 .. e[k] - 1 : s[i] # c
    BY DEF Separates
  <1>1. e \in [0..m -> Nat] /\ e[0] = 0 /\ Len(s) \in Nat
    BY DEF Ending, Separates
  <1>2. /\ \A j, k \in 0..m : j < k => e[j] < e[k]
        /\ \A i \in 1..e[m] : \E k \in 1..m : e[k - 1] < i /\ i <= e[k]
    BY EndsRise
  <1>3. cuts = { e[j] : j \in 0..m }
    <2>1. ASSUME NEW j \in 0..m PROVE e[j] \in cuts
      <3>1. CASE j = 0 \/ j = m
        BY <1>1, <3>1
      <3>2. CASE j \in 1..m - 1
        <4>1. e[0] < e[j] /\ e[j] < e[m] /\ e[j] \in Nat
          BY <1>1, <1>2, <3>2
        <4>2. QED
          BY <1>1, <3>2, <4>1
      <3>3. QED
        BY <3>1, <3>2
    <2>2. ASSUME NEW i \in cuts PROVE \E j \in 0..m : i = e[j]
      <3>1. CASE i = 0
        BY <1>1, <3>1
      <3>2. CASE i # 0
        <4>1. i \in 1..e[m]
          BY <1>1, <3>2
        <4>2. PICK k \in 1..m : e[k - 1] < i /\ i <= e[k]
          BY <1>2, <4>1
        <4>3. k - 1 \in 0..m /\ k \in 0..m /\ e[k - 1] \in Nat /\ e[k] \in Nat
          BY <1>1
        <4>4. CASE i < e[k]
          <5>1. i \in e[k - 1] + 1 .. e[k] - 1 /\ e[k] <= e[m]
            <6>1. i \in Int /\ e[m] \in Nat
              BY <1>1, <4>1
            <6>2. k = m \/ e[k] < e[m]
              BY <1>2, <4>3
            <6>3. QED
              BY <4>2, <4>3, <4>4, <6>1, <6>2
          <5>2. i \in 1..Len(s) /\ s[i] # c
            BY <1>1, <4>1, <4>3, <5>1
          <5>3. QED
            BY <1>1, <5>2
        <4>5. QED
          BY <4>2, <4>3, <4>4
      <3>3. QED
        BY <3>1, <3>2
    <2>3. QED
      BY <2>1, <2>2
  <1>4. TN!Split(s, c) = [k \in 1..TN!Cardinality(cuts) - 1 |-> SubSeq(s, cutAt(k) + 1, cutAt(k + 1) - 1)]
    BY DEF TN!Split
  <1> HIDE DEF cuts
  <1>5. ASSUME NEW k \in 0..m PROVE Cardinality(below(e[k])) = k
    <2>1. \A j \in 0..m : e[j] < e[k] <=> j < k
      <3>1. SUFFICES ASSUME NEW j \in 0..m, e[j] < e[k], ~(j < k) PROVE FALSE
        BY <1>2
      <3>2. j = k \/ e[k] < e[j]
        BY <1>2, <3>1
      <3>3. e[j] \in Nat /\ e[k] \in Nat
        BY <1>1
      <3>4. QED
        BY <3>1, <3>2, <3>3
    <2>2. below(e[k]) = { e[j] : j \in 0..k - 1 }
      <3>1. \A j \in 0..m : j < k <=> j \in 0..k - 1
        OBVIOUS
      <3>2. 0..k - 1 \subseteq 0..m
        OBVIOUS
      <3>3. below(e[k]) = { e[j] : j \in {n \in 0..m : e[n] < e[k]} }
        BY ONLY <1>3 DEF below
      <3>4. {n \in 0..m : e[n] < e[k]} = 0..k - 1
        BY ONLY <2>1, <3>1, <3>2
      <3>5. QED
        BY ONLY <3>3, <3>4
    <2>3. k \in 0..m + 1
      OBVIOUS
    <2>4. Cardinality({ e[j] : j \in 0..k - 1 }) = k
      BY <2>3, EndsBelow
    <2> HIDE DEF below
    <2>5. QED
      BY <2>2, <2>4
  <1>6. Cardinality(cuts) = m + 1
    <2>1. m + 1 \in 0..m + 1 /\ (m + 1) - 1 = m
      OBVIOUS
    <2>2. Cardinality({ e[j] : j \in 0..(m + 1) - 1 }) = m + 1
      BY <2>1, EndsBelow
    <2>3. QED
      BY <1>3, <2>1, <2>2
  <1>7. ASSUME NEW k \in 1..m + 1 PROVE cutAt(k) = e[k - 1]
    <2> DEFINE count(i) == TN!Cardinality({j \in cuts : j < i})
    <2>1. ASSUME NEW j \in 0..m PROVE e[j] \in cuts /\ count(e[j]) = j
      BY <1>3, <1>5, TextCounts
    <2>2. cutAt(k) = CHOOSE i \in cuts : count(i) = k - 1
      OBVIOUS
    <2> HIDE DEF count, cutAt
    <2>3. \A i \in cuts : count(i) = k - 1 => i = e[k - 1]
      BY <1>3, <2>1
    <2>4. k - 1 \in 0..m
      OBVIOUS
    <2>5. e[k - 1] \in cuts /\ count(e[k - 1]) = k - 1
      BY <2>1, <2>4
    <2>6. QED
      BY <2>2, <2>3, <2>5
  <1> HIDE DEF cutAt, below
  <1>8. ASSUME NEW k \in 1..m PROVE cutAt(k) = e[k - 1] /\ cutAt(k + 1) = e[k]
    <2>1. k \in 1..m + 1 /\ k + 1 \in 1..m + 1 /\ (k + 1) - 1 = k
      OBVIOUS
    <2>2. QED
      BY <1>7, <2>1
  <1>9. TN!Cardinality(cuts) - 1 = m
    BY <1>6, TextCounts
  <1>10. QED
    BY <1>4, <1>8, <1>9 DEF SplitsAt

\* What is computed from one number to the next.
Stepping(next, m, T) == next \in [1..m -> [T -> T]]
Follows(f, m, T, first, next) ==
    f \in [0..m -> T] /\ f[0] = first /\ \A i \in 1..m : f[i] = next[i][f[i - 1]]

LEMMA Recursion ==
    ASSUME NEW T, NEW m \in Nat, NEW first \in T, NEW next, Stepping(next, m, T)
    PROVE  \E f : Follows(f, m, T, first, next)
  <1> DEFINE Steps(f, n) ==
                 /\ f \in [0..n -> T] /\ f[0] = first
                 /\ \A i \in 1..n : f[i] = next[i][f[i - 1]]
             Some == { n \in 0..m : \E f : Steps(f, n) }
  <1> next \in [1..m -> [T -> T]]
    BY DEF Stepping
  <1>1. 0 \in Some
    <2>1. Steps([i \in 0..0 |-> first], 0)
      OBVIOUS
    <2> HIDE DEF Steps
    <2>2. QED
      BY <2>1
  <1>2. ASSUME NEW n \in 1..m, n - 1 \in Some PROVE n \in Some
    <2>1. PICK f : Steps(f, n - 1)
      BY <1>2
    <2> DEFINE g == [i \in 0..n |-> IF i = n THEN next[n][f[n - 1]] ELSE f[i]]
    <2>2. f[n - 1] \in T /\ next[n] \in [T -> T] /\ next[n][f[n - 1]] \in T
      BY <2>1
    <2>3. g \in [0..n -> T]
      BY <2>1, <2>2
    <2>4. \A i \in 0..n : g[i] = IF i = n THEN next[n][f[n - 1]] ELSE f[i]
      OBVIOUS
    <2> HIDE DEF g
    <2>5. g[0] = first
      BY <2>1, <2>4
    <2>6. ASSUME NEW i \in 1..n PROVE g[i] = next[i][g[i - 1]]
      <3>1. i \in 0..n /\ i - 1 \in 0..n /\ i - 1 # n
        OBVIOUS
      <3>2. g[i - 1] = f[i - 1]
        BY <2>4, <3>1
      <3>3. CASE i = n
        BY <2>4, <3>1, <3>2, <3>3
      <3>4. CASE i # n
        <4>1. i \in 1..n - 1
          BY <3>4
        <4>2. f[i] = next[i][f[i - 1]]
          BY <2>1, <4>1
        <4>3. QED
          BY <2>4, <3>1, <3>2, <3>4, <4>2
      <3>5. QED
        BY <3>3, <3>4
    <2>7. Steps(g, n)
      BY <2>3, <2>5, <2>6
    <2> HIDE DEF Steps
    <2>8. QED
      BY <2>7
  <1> HIDE DEF Steps, Some
  <1>3. m \in Some
    <2>1. 0..m \subseteq Some
      BY <1>1, <1>2, UpTo
    <2>2. QED
      BY <2>1
  <1>4. PICK g : Steps(g, m)
    BY <1>3 DEF Some
  <1>5. Follows(g, m, T, first, next)
    BY <1>4 DEF Steps, Follows
  <1>6. QED
    BY <1>5

\* FlattenSeq appends one sequence after the other.
Texts(seqs, m, S) == seqs \in Seq(Seq(S)) /\ m \in Nat \ {0} /\ m = Len(seqs)

Flattening(f, seqs, m, S) ==
    /\ \A i \in 1..m : f[i] \in Seq(S)
    /\ f[1] = seqs[1]
    /\ \A i \in 2..m : f[i] = f[i - 1] \o seqs[i]
    /\ TN!FlattenSeq(seqs) = f[m]

LEMMA Flattened ==
    ASSUME NEW S, NEW seqs, NEW m, Texts(seqs, m, S)
    PROVE  \E f : Flattening(f, seqs, m, S)
  <1> DEFINE Flat(f) == f = [i \in 1..Len(seqs) |-> IF i = 1 THEN seqs[i] ELSE f[i - 1] \o seqs[i]]
             T == Seq(S)
             first == <<>>
             next == [i \in 1..m |-> [t \in T |-> IF i = 1 THEN seqs[i] ELSE t \o seqs[i]]]
  <1> seqs \in Seq(Seq(S)) /\ m \in Nat \ {0} /\ m = Len(seqs)
    BY DEF Texts
  <1>1. \A i \in 1..m : seqs[i] \in T
    OBVIOUS
  <1>2. \A i \in 1..m, t \in T : t \o seqs[i] \in T
    BY <1>1, ConcatProperties
  <1>3. /\ next \in [1..m -> [T -> T]]
        /\ \A i \in 1..m, t \in T : next[i][t] = IF i = 1 THEN seqs[i] ELSE t \o seqs[i]
    BY <1>1, <1>2
  <1>4. first \in T
    OBVIOUS
  <1> HIDE DEF T, first, next
  <1>5. PICK g : g \in [0..m -> T] /\ g[0] = first /\ \A i \in 1..m : g[i] = next[i][g[i - 1]]
    <2>1. m \in Nat /\ Stepping(next, m, T)
      BY <1>3 DEF Stepping
    <2>2. \E f : Follows(f, m, T, first, next)
      BY <1>4, <2>1, Recursion
    <2>3. QED
      BY <2>2 DEF Follows
  <1>6. \E f : Flat(f)
    <2> DEFINE a == [i \in 1..m |-> g[i]]
    <2>1. ASSUME NEW i \in 1..m PROVE a[i] = IF i = 1 THEN seqs[i] ELSE a[i - 1] \o seqs[i]
      <3>1. g[i - 1] \in T
        <4>1. i - 1 \in 0..m
          OBVIOUS
        <4>2. QED
          BY <1>5, <4>1
      <3>2. a[i] = next[i][g[i - 1]]
        BY <1>5
      <3>3. a[i] = IF i = 1 THEN seqs[i] ELSE g[i - 1] \o seqs[i]
        BY <1>3, <3>1, <3>2
      <3>4. i # 1 => i - 1 \in 1..m
        OBVIOUS
      <3>5. i # 1 => a[i - 1] = g[i - 1]
        BY <3>4
      <3> HIDE DEF a
      <3>6. QED
        BY <3>3, <3>5
    <2>2. a = [i \in 1..m |-> a[i]]
      OBVIOUS
    <2> HIDE DEF a
    <2>3. Flat(a)
      BY <2>1, <2>2
    <2> HIDE DEF Flat
    <2>4. QED
      BY <2>3
  <1> DEFINE h == CHOOSE f : Flat(f)
  <1>7. Flat(h)
    <2> HIDE DEF Flat
    <2>1. QED
      BY <1>6
  <1>8. TN!FlattenSeq(seqs) = h[m]
    BY <1>1 DEF TN!FlattenSeq
  <1> HIDE DEF h
  <1>9. \A i \in 1..m : h[i] = IF i = 1 THEN seqs[i] ELSE h[i - 1] \o seqs[i]
    BY <1>7
  <1>10. h[1] = seqs[1] /\ \A i \in 2..m : h[i] = h[i - 1] \o seqs[i]
    <2>1. 1 \in 1..m /\ \A i \in 2..m : i \in 1..m /\ i # 1
      BY <1>1
    <2>2. QED
      BY <1>9, <2>1
  <1>11. \A i \in 1..m : h[i] \in T
    <2> DEFINE Good == { i \in 0..m : i = 0 \/ h[i] \in T }
    <2>1. 0 \in Good
      OBVIOUS
    <2>2. ASSUME NEW i \in 1..m, i - 1 \in Good PROVE i \in Good
      <3>1. i = 1 \/ (i \in 2..m /\ h[i - 1] \in T)
        BY <2>2
      <3>2. CASE i = 1
        <4>1. h[i] \in T
          BY <1>1, <1>10, <3>2
        <4>2. QED
          BY <4>1
      <3>3. CASE i \in 2..m /\ h[i - 1] \in T
        <4>1. h[i - 1] \o seqs[i] \in T
          BY <1>2, <3>3
        <4>2. h[i] = h[i - 1] \o seqs[i]
          BY <1>10, <3>3
        <4>3. h[i] \in T
          BY <4>1, <4>2
        <4>4. QED
          BY <4>3
      <3>4. QED
        BY <3>1, <3>2, <3>3
    <2> HIDE DEF Good
    <2>3. 0..m \subseteq Good
      BY <2>1, <2>2, UpTo
    <2>4. \A i \in 1..m : i \in 0..m /\ i # 0
      OBVIOUS
    <2>5. QED
      BY <2>3, <2>4 DEF Good
  <1>12. Flattening(h, seqs, m, S)
    BY <1>8, <1>10, <1>11 DEF T, Flattening
  <1>13. QED
    BY <1>12

\* Pieces that are joined stand in the sequence with c at the ends but the last.
LEMMA Joined ==
    ASSUME NEW S, NEW c \in S, NEW pieces, NEW m, Texts(pieces, m, S)
    PROVE  /\ TN!Join(pieces, c) \in Seq(S)
           /\ \E e : /\ Ending(e, m)
                     /\ e[m] = Len(TN!Join(pieces, c)) + 1
                     /\ \A k \in 1..m - 1 : TN!Join(pieces, c)[e[k]] = c
                     /\ \A k \in 1..m :
                            /\ e[k] = e[k - 1] + Len(pieces[k]) + 1
                            /\ \A i \in 1..Len(pieces[k]) :
                                   TN!Join(pieces, c)[e[k - 1] + i] = pieces[k][i]
  <1> DEFINE parts == [i \in 1..Len(pieces) |-> IF i = 1 THEN pieces[i] ELSE <<c>> \o pieces[i]]
  <1>0. pieces \in Seq(Seq(S)) /\ m = Len(pieces)
    BY DEF Texts
  <1> m \in Nat \ {0}
    BY DEF Texts
  <1>1. \A i \in 1..m : pieces[i] \in Seq(S) /\ Len(pieces[i]) \in Nat
    BY <1>0
  <1>2. /\ \A i \in 1..m : parts[i] = IF i = 1 THEN pieces[i] ELSE <<c>> \o pieces[i]
        /\ TN!Join(pieces, c) = TN!FlattenSeq(parts)
    BY <1>0 DEF TN!Join
  <1>3. \A p \in Seq(S) : /\ <<c>> \o p \in Seq(S) /\ Len(<<c>> \o p) = Len(p) + 1
                          /\ (<<c>> \o p)[1] = c
                          /\ \A i \in 1..Len(p) : (<<c>> \o p)[i + 1] = p[i]
    <2>1. SUFFICES ASSUME NEW p \in Seq(S)
                   PROVE  /\ <<c>> \o p \in Seq(S) /\ Len(<<c>> \o p) = Len(p) + 1
                          /\ (<<c>> \o p)[1] = c
                          /\ \A i \in 1..Len(p) : (<<c>> \o p)[i + 1] = p[i]
      OBVIOUS
    <2>2. <<c>> \in Seq(S) /\ Len(<<c>>) = 1 /\ <<c>>[1] = c
      OBVIOUS
    <2>3. QED
      BY <2>2, ConcatProperties
  <1>4. parts \in Seq(Seq(S)) /\ m = Len(parts)
    <2>1. \A i \in 1..m : (IF i = 1 THEN pieces[i] ELSE <<c>> \o pieces[i]) \in Seq(S)
      BY <1>1, <1>3
    <2>2. parts \in [1..m -> Seq(S)]
      BY <1>0, <2>1
    <2> DEFINE Q == Seq(S)
    <2>3. parts \in [1..m -> Q] /\ m \in Nat
      BY <2>2
    <2> HIDE DEF parts, Q
    <2>4. parts \in Seq(Q) /\ m = Len(parts)
      BY <2>3
    <2>5. QED
      BY <2>4 DEF Q
  <1> HIDE DEF parts
  <1>5. PICK f : /\ \A i \in 1..m : f[i] \in Seq(S)
                 /\ f[1] = parts[1]
                 /\ \A i \in 2..m : f[i] = f[i - 1] \o parts[i]
                 /\ TN!FlattenSeq(parts) = f[m]
    <2>1. Texts(parts, m, S)
      BY <1>4 DEF Texts
    <2>2. \E f : Flattening(f, parts, m, S)
      BY <2>1, Flattened
    <2>3. QED
      BY <2>2 DEF Flattening
  <1>6. f[1] = pieces[1]
    <2>1. 1 \in 1..m
      OBVIOUS
    <2>2. parts[1] = pieces[1]
      BY <1>2, <2>1
    <2>3. QED
      BY <1>5, <2>2
  <1>7. ASSUME NEW k \in 2..m
        PROVE  /\ f[k - 1] \in Seq(S) /\ f[k] \in Seq(S) /\ pieces[k] \in Seq(S)
               /\ Len(f[k]) = Len(f[k - 1]) + 1 + Len(pieces[k])
               /\ \A i \in 1..Len(f[k - 1]) : f[k][i] = f[k - 1][i]
               /\ f[k][Len(f[k - 1]) + 1] = c
               /\ \A i \in 1..Len(pieces[k]) : f[k][Len(f[k - 1]) + 1 + i] = pieces[k][i]
    <2> DEFINE a == f[k - 1]
               p == pieces[k]
               b == <<c>> \o p
    <2>1. a \in Seq(S) /\ p \in Seq(S) /\ f[k] = a \o b /\ f[k] \in Seq(S)
      <3>1. k \in 1..m /\ k - 1 \in 1..m /\ k # 1
        OBVIOUS
      <3>2. parts[k] = b
        BY <1>2, <3>1
      <3>3. f[k] = a \o parts[k]
        BY <1>5
      <3>4. QED
        BY <1>1, <1>5, <3>1, <3>2, <3>3
    <2>2. /\ b \in Seq(S) /\ Len(b) = Len(p) + 1 /\ b[1] = c
          /\ \A i \in 1..Len(p) : b[i + 1] = p[i]
      BY <1>3, <2>1
    <2> HIDE DEF a, b, p
    <2>3. Len(a) \in Nat /\ Len(b) \in Nat /\ Len(p) \in Nat
      BY <2>1, <2>2
    <2>4. /\ Len(a \o b) = Len(a) + Len(b)
          /\ \A i \in 1..Len(a) + Len(b) : (a \o b)[i] = IF i <= Len(a) THEN a[i] ELSE b[i - Len(a)]
      BY <2>1, <2>2, ConcatProperties
    <2>5. \A i \in 1..Len(a) : (a \o b)[i] = a[i]
      BY <2>3, <2>4
    <2>6. \A j \in 1..Len(b) : (a \o b)[Len(a) + j] = b[j]
      <3>1. SUFFICES ASSUME NEW j \in 1..Len(b) PROVE (a \o b)[Len(a) + j] = b[j]
        OBVIOUS
      <3>2. Len(a) + j \in 1..Len(a) + Len(b) /\ ~(Len(a) + j <= Len(a)) /\ (Len(a) + j) - Len(a) = j
        BY <2>3
      <3>3. QED
        BY <2>4, <3>2
    <2>7. (a \o b)[Len(a) + 1] = c
      BY <2>2, <2>3, <2>6
    <2>8. ASSUME NEW i \in 1..Len(p) PROVE (a \o b)[Len(a) + 1 + i] = p[i]
      <3>1. i + 1 \in 1..Len(b) /\ Len(a) + 1 + i = Len(a) + (i + 1)
        BY <2>2, <2>3
      <3>2. QED
        BY <2>2, <2>6, <3>1
    <2>9. Len(a \o b) = Len(a) + 1 + Len(p)
      BY <2>2, <2>3, <2>4
    <2>10. QED
      BY <2>1, <2>5, <2>7, <2>8, <2>9 DEF a, p
  <1> DEFINE e == [k \in 0..m |-> IF k = 0 THEN 0 ELSE Len(f[k]) + 1]
  <1>8. /\ e[0] = 0 /\ \A k \in 1..m : e[k] = Len(f[k]) + 1 /\ Len(f[k]) \in Nat
        /\ e \in [0..m -> Nat]
    <2>1. \A k \in 1..m : Len(f[k]) \in Nat
      BY <1>5
    <2>2. \A k \in 1..m : k \in 0..m /\ k # 0
      OBVIOUS
    <2>3. 0 \in 0..m
      OBVIOUS
    <2>4. \A k \in 0..m : (IF k = 0 THEN 0 ELSE Len(f[k]) + 1) \in Nat
      BY <2>1
    <2>5. e \in [0..m -> Nat]
      BY <2>4
    <2>6. QED
      BY <2>1, <2>2, <2>3, <2>5
  <1> HIDE DEF e
  <1>9. ASSUME NEW k \in 1..m
        PROVE  e[k] = e[k - 1] + Len(pieces[k]) + 1 /\ Len(pieces[k]) \in Nat
    <2>1. Len(pieces[k]) \in Nat
      BY <1>1
    <2>2. CASE k = 1
      BY <1>1, <1>6, <1>8, <2>1, <2>2
    <2>3. CASE k # 1
      <3>1. k \in 2..m /\ k - 1 \in 1..m
        BY <2>3
      <3>2. QED
        <4>1. Len(f[k]) = Len(f[k - 1]) + 1 + Len(pieces[k])
          BY <1>7, <3>1
        <4>2. e[k] = Len(f[k]) + 1 /\ e[k - 1] = Len(f[k - 1]) + 1 /\ Len(f[k - 1]) \in Nat
          BY <1>8, <3>1
        <4>3. QED
          BY <2>1, <4>1, <4>2
    <2>4. QED
      BY <2>2, <2>3
  <1>10. Ending(e, m)
    <2>1. ASSUME NEW k \in 1..m PROVE e[k - 1] < e[k]
      <3>1. e[k - 1] \in Nat
        <4>1. k - 1 \in 0..m
          OBVIOUS
        <4>2. QED
          BY <1>8, <4>1
      <3>2. \A x, y \in Nat : x < x + y + 1
        OBVIOUS
      <3>3. e[k] = e[k - 1] + Len(pieces[k]) + 1 /\ Len(pieces[k]) \in Nat
        BY <1>9
      <3>4. QED
        BY <3>1, <3>2, <3>3
    <2>2. QED
      BY <1>8, <2>1 DEF Ending
  <1>11. ASSUME NEW k \in 1..m
         PROVE  \A n \in k..m : Len(f[k]) <= Len(f[n]) /\ \A i \in 1..Len(f[k]) : f[n][i] = f[k][i]
    <2> DEFINE Good == { n \in 0..m : n >= k => /\ Len(f[k]) <= Len(f[n])
                                               /\ \A i \in 1..Len(f[k]) : f[n][i] = f[k][i] }
    <2>1. 0 \in Good
      BY <1>1
    <2>2. ASSUME NEW n \in 1..m, n - 1 \in Good PROVE n \in Good
      <3>1. CASE n <= k
        BY <1>8, <3>1
      <3>2. CASE n > k
        <4>1. n \in 2..m /\ n - 1 >= k /\ n - 1 \in 1..m
          BY <3>2
        <4>2. Len(f[k]) <= Len(f[n - 1]) /\ \A i \in 1..Len(f[k]) : f[n - 1][i] = f[k][i]
          BY <2>2, <4>1
        <4>3. Len(f[k]) \in Nat /\ Len(f[n - 1]) \in Nat /\ Len(f[n]) \in Nat /\ Len(pieces[n]) \in Nat
          BY <1>8, <1>9, <4>1
        <4>4. Len(f[n]) = Len(f[n - 1]) + 1 + Len(pieces[n])
          BY <1>7, <4>1
        <4>5. \A i \in 1..Len(f[n - 1]) : f[n][i] = f[n - 1][i]
          BY <1>7, <4>1
        <4>6. ASSUME NEW i \in 1..Len(f[k]) PROVE f[n][i] = f[k][i]
          <5>1. i \in 1..Len(f[n - 1])
            BY <4>2, <4>3
          <5>2. QED
            BY <4>2, <4>5, <5>1
        <4>7. Len(f[k]) <= Len(f[n])
          <5>1. Len(f[k]) <= Len(f[n - 1])
            BY <4>2
          <5>2. \A x, y, z, p \in Nat : x <= y /\ z = y + 1 + p => x <= z
            OBVIOUS
          <5>3. QED
            BY <4>3, <4>4, <5>1, <5>2
        <4>8. QED
          BY <4>6, <4>7
      <3>3. QED
        BY <3>1, <3>2
    <2> HIDE DEF Good
    <2>3. 0..m \subseteq Good
      <3>1. m \in Nat
        OBVIOUS
      <3>2. QED
        BY <2>1, <2>2, <3>1, UpTo
    <2>4. \A n \in k..m : n \in 0..m /\ n >= k
      OBVIOUS
    <2>5. QED
      BY <2>3, <2>4 DEF Good
  <1> DEFINE s == f[m]
  <1>12. s \in Seq(S) /\ s = TN!Join(pieces, c) /\ e[m] = Len(s) + 1
    <2>1. m \in 1..m
      OBVIOUS
    <2>2. QED
      BY <1>2, <1>5, <1>8, <2>1
  <1>13. ASSUME NEW k \in 1..m - 1 PROVE s[e[k]] = c
    <2>1. k + 1 \in 2..m /\ (k + 1) - 1 = k /\ m \in k + 1..m /\ k \in 1..m /\ k + 1 \in 1..m
      BY <1>1
    <2>2. f[k + 1][Len(f[k]) + 1] = c /\ Len(f[k + 1]) = Len(f[k]) + 1 + Len(pieces[k + 1])
      BY <1>7, <2>1
    <2>3. e[k] = Len(f[k]) + 1 /\ Len(f[k]) \in Nat /\ Len(pieces[k + 1]) \in Nat
      BY <1>8, <1>9, <2>1
    <2>4. e[k] \in 1..Len(f[k + 1])
      <3>1. Len(f[k + 1]) = Len(f[k]) + 1 + Len(pieces[k + 1])
        BY <2>2
      <3>2. \A x, p \in Nat : x + 1 \in 1..x + 1 + p
        OBVIOUS
      <3>3. QED
        BY <2>3, <3>1, <3>2
    <2>5. s[e[k]] = f[k + 1][e[k]]
      BY <1>11, <2>1, <2>4
    <2>6. QED
      BY <2>2, <2>3, <2>5
  <1>14. ASSUME NEW k \in 1..m, NEW i \in 1..Len(pieces[k]) PROVE s[e[k - 1] + i] = pieces[k][i]
    <2>1. Len(pieces[k]) \in Nat /\ e[k - 1] \in Nat /\ e[k] = Len(f[k]) + 1 /\ m \in k..m
      BY <1>1, <1>8, <1>9
    <2>2. e[k - 1] + i \in 1..Len(f[k])
      <3>1. e[k] = e[k - 1] + Len(pieces[k]) + 1
        BY <1>9
      <3>2. i \in Nat /\ i >= 1 /\ i <= Len(pieces[k])
        BY <2>1
      <3>3. \A x, y, z, j \in Nat : z + 1 = x + y + 1 /\ j >= 1 /\ j <= y => x + j \in 1..z
        OBVIOUS
      <3>4. Len(f[k]) \in Nat /\ Len(f[k]) + 1 = e[k - 1] + Len(pieces[k]) + 1
        BY <1>8, <2>1, <3>1
      <3>5. QED
        BY <2>1, <3>2, <3>3, <3>4
    <2>3. s[e[k - 1] + i] = f[k][e[k - 1] + i]
      BY <1>11, <2>1, <2>2
    <2>4. CASE k = 1
      BY <1>6, <1>8, <2>3, <2>4
    <2>5. CASE k # 1
      <3>1. k \in 2..m /\ k - 1 \in 1..m
        BY <2>5
      <3>2. e[k - 1] = Len(f[k - 1]) + 1
        BY <1>8, <3>1
      <3>3. QED
        BY <1>7, <2>3, <3>1, <3>2
    <2>6. QED
      BY <2>4, <2>5
  <1> HIDE DEF s
  <1>15. QED
    BY <1>9, <1>10, <1>12, <1>13, <1>14

\* None of the characters of s is c.
Free(s, c) == \A i \in 1..Len(s) : s[i] # c

\* Joining is undone by splitting.
LEMMA SplitJoined ==
    ASSUME NEW S, NEW c \in S, NEW pieces, NEW m, Texts(pieces, m, S),
           \A k \in 1..m : Free(pieces[k], c)
    PROVE  TN!Split(TN!Join(pieces, c), c) = pieces
  <1> DEFINE s == TN!Join(pieces, c)
  <1>1. m \in Nat \ {0} /\ pieces = [k \in 1..m |-> pieces[k]] /\ \A k \in 1..m : pieces[k] \in Seq(S)
    BY DEF Texts
  <1>2. s \in Seq(S)
    BY Joined
  <1>3. PICK e : /\ Ending(e, m) /\ e[m] = Len(s) + 1
                 /\ \A k \in 1..m - 1 : s[e[k]] = c
                 /\ \A k \in 1..m :
                        /\ e[k] = e[k - 1] + Len(pieces[k]) + 1
                        /\ \A i \in 1..Len(pieces[k]) : s[e[k - 1] + i] = pieces[k][i]
    BY Joined
  <1> HIDE DEF s
  <1>4. ASSUME NEW k \in 1..m
        PROVE  /\ e[k - 1] \in Nat /\ Len(pieces[k]) \in Nat
               /\ e[k] - 1 = e[k - 1] + Len(pieces[k])
    <2>1. e \in [0..m -> Nat] /\ k - 1 \in 0..m
      BY <1>1, <1>3 DEF Ending
    <2>2. Len(pieces[k]) \in Nat
      BY <1>1
    <2>3. e[k - 1] \in Nat
      BY <2>1
    <2>4. e[k] = e[k - 1] + Len(pieces[k]) + 1
      BY <1>3
    <2>5. \A x, y, z \in Nat : z = x + y + 1 => z - 1 = x + y
      OBVIOUS
    <2>6. QED
      BY <2>2, <2>3, <2>4
  <1>5. ASSUME NEW k \in 1..m, NEW i \in e[k - 1] + 1 .. e[k] - 1 PROVE s[i] # c
    <2>1. i - e[k - 1] \in 1..Len(pieces[k]) /\ e[k - 1] + (i - e[k - 1]) = i
      BY <1>4
    <2>2. s[i] = pieces[k][i - e[k - 1]]
      BY <1>3, <2>1
    <2>3. QED
      BY <2>1, <2>2 DEF Free
  <1>6. TN!Split(s, c) = [k \in 1..m |-> SubSeq(s, e[k - 1] + 1, e[k] - 1)]
    <2>1. Separates(c, s, e, m)
      BY <1>1, <1>2, <1>3, <1>5 DEF Separates
    <2>2. SplitsAt(c, s, e, m)
      BY <2>1, SplitAt
    <2>3. QED
      BY <2>2 DEF SplitsAt
  <1>7. ASSUME NEW k \in 1..m PROVE SubSeq(s, e[k - 1] + 1, e[k] - 1) = pieces[k]
    <2> DEFINE a == e[k - 1]
               n == Len(pieces[k])
               p == pieces[k]
               t == SubSeq(s, a + 1, a + n)
    <2>1. a \in Nat /\ n \in Nat /\ e[k] - 1 = a + n /\ p \in Seq(S) /\ n = Len(p)
      BY <1>1, <1>4
    <2>2. \A i \in 1..n : s[a + i] = p[i]
      BY <1>3
    <2> HIDE DEF a, n, p
    <2>3. \A i \in a + 1 .. a + n : s[i] \in S
      <3>1. SUFFICES ASSUME NEW i \in a + 1 .. a + n PROVE s[i] \in S
        OBVIOUS
      <3>2. i - a \in 1..n /\ a + (i - a) = i
        BY <2>1
      <3>3. s[i] = p[i - a]
        BY <2>2, <3>2
      <3>4. QED
        BY <2>1, <3>2, <3>3
    <2>4. a + 1 \in Int /\ a + n \in Int /\ (a + n) - (a + 1) + 1 = n
          /\ \A i : i \in 1..n => (a + 1) + i - 1 = a + i
      BY <2>1
    <2>5. /\ t \in Seq(S)
          /\ Len(t) = IF a + 1 <= a + n THEN (a + n) - (a + 1) + 1 ELSE 0
          /\ \A i \in 1..(a + n) - (a + 1) + 1 : t[i] = s[(a + 1) + i - 1]
      BY <2>3, <2>4, SubSeqProperties
    <2> HIDE DEF t
    <2>6. Len(t) = n
      BY <2>1, <2>4, <2>5
    <2>7. \A i \in 1..n : t[i] = p[i]
      BY <2>2, <2>4, <2>5
    <2>8. t = p
      BY <2>1, <2>5, <2>6, <2>7, SeqEqual
    <2>9. SubSeq(s, e[k - 1] + 1, e[k] - 1) = t
      BY <2>1 DEF a, t
    <2>10. QED
      BY <2>8, <2>9 DEF p
  <1>8. TN!Split(s, c) = [k \in 1..m |-> pieces[k]]
    BY <1>6, <1>7
  <1>9. QED
    BY <1>1, <1>8 DEF s

\* What is joined has the characters of its pieces and c; it begins with the first
\* piece, and is this piece if there is no other.
LEMMA JoinedIs ==
    ASSUME NEW S, NEW c \in S, NEW pieces, NEW m, Texts(pieces, m, S)
    PROVE  /\ TN!Join(pieces, c) \in Seq(S)
           /\ \A d : d # c /\ (\A k \in 1..m : Free(pieces[k], d)) => Free(TN!Join(pieces, c), d)
           /\ m = 1 => TN!Join(pieces, c) = pieces[1]
           /\ pieces[1] # <<>> =>
                  TN!Join(pieces, c) # <<>> /\ Head(TN!Join(pieces, c)) = pieces[1][1]
  <1> DEFINE s == TN!Join(pieces, c)
  <1>1. m \in Nat \ {0} /\ pieces = [k \in 1..m |-> pieces[k]] /\ \A k \in 1..m : pieces[k] \in Seq(S)
    BY DEF Texts
  <1>2. s \in Seq(S)
    BY Joined
  <1>3. PICK e : /\ Ending(e, m) /\ e[m] = Len(s) + 1
                 /\ \A k \in 1..m - 1 : s[e[k]] = c
                 /\ \A k \in 1..m :
                        /\ e[k] = e[k - 1] + Len(pieces[k]) + 1
                        /\ \A i \in 1..Len(pieces[k]) : s[e[k - 1] + i] = pieces[k][i]
    BY Joined
  <1> HIDE DEF s
  <1>4. /\ e \in [0..m -> Nat] /\ e[0] = 0 /\ Len(s) \in Nat
        /\ \A k \in 1..m : Len(pieces[k]) \in Nat /\ e[k - 1] \in Nat /\ e[k] \in Nat
    <2>1. e \in [0..m -> Nat] /\ e[0] = 0
      BY <1>3 DEF Ending
    <2>2. \A k \in 1..m : k - 1 \in 0..m /\ k \in 0..m
      BY <1>1
    <2>3. QED
      BY <1>1, <1>2, <2>1, <2>2
  <1>5. ASSUME NEW d, d # c, \A k \in 1..m : Free(pieces[k], d), NEW i \in 1..Len(s)
        PROVE  s[i] # d
    <2>1. i \in 1..e[m] /\ i < e[m]
      BY <1>3, <1>4
    <2>2. PICK k \in 1..m : e[k - 1] < i /\ i <= e[k]
      BY <1>1, <1>3, <2>1, EndsRise
    <2>3. CASE i = e[k]
      <3>1. k \in 1..m - 1
        BY <1>1, <2>1, <2>3
      <3>2. QED
        BY <1>3, <1>5, <2>3, <3>1
    <2>4. CASE i # e[k]
      <3> DEFINE a == e[k - 1]
                 p == pieces[k]
      <3>1. a \in Nat /\ Len(p) \in Nat /\ e[k] = a + Len(p) + 1 /\ a < i /\ i <= e[k] /\ i \in Nat
            /\ i # e[k]
        BY <1>3, <1>4, <2>2, <2>4
      <3>2. i - a \in 1..Len(p) /\ a + (i - a) = i
        <4> HIDE DEF a, p
        <4>1. \A x, l, y \in Nat : x < y /\ y <= x + l + 1 /\ y # x + l + 1 =>
                  y - x \in 1..l /\ x + (y - x) = y
          OBVIOUS
        <4>2. QED
          BY <3>1, <4>1
      <3>3. s[i] = p[i - a]
        BY <1>3, <3>2
      <3>4. Free(p, d)
        BY <1>5
      <3> HIDE DEF a, p
      <3>5. QED
        BY <3>2, <3>3, <3>4 DEF Free
    <2>5. QED
      BY <2>3, <2>4
  <1>6. /\ e[1] = Len(pieces[1]) + 1 /\ Len(pieces[1]) \in Nat /\ pieces[1] \in Seq(S)
        /\ \A i \in 1..Len(pieces[1]) : s[i] = pieces[1][i]
    <2>1. 1 \in 1..m /\ 1 - 1 = 0
      BY <1>1
    <2>2. e[1] = e[1 - 1] + Len(pieces[1]) + 1 /\ \A i \in 1..Len(pieces[1]) : s[e[1 - 1] + i] = pieces[1][i]
      BY <1>3, <2>1
    <2>3. Len(pieces[1]) \in Nat /\ pieces[1] \in Seq(S)
      BY <1>1, <2>1
    <2>4. \A i \in 1..Len(pieces[1]) : e[1 - 1] + i = i
      BY <1>4, <2>1
    <2>5. \A x \in Nat : 0 + x + 1 = x + 1
      OBVIOUS
    <2>6. e[1] = Len(pieces[1]) + 1
      BY <1>4, <2>1, <2>2, <2>3, <2>5
    <2>7. QED
      BY <2>2, <2>3, <2>4, <2>6
  <1>7. ASSUME m = 1 PROVE s = pieces[1]
    <2>1. Len(s) = Len(pieces[1])
      BY <1>3, <1>4, <1>6, <1>7
    <2>2. QED
      BY <1>2, <1>6, <2>1, SeqEqual
  <1>8. ASSUME pieces[1] # <<>> PROVE s # <<>> /\ Head(s) = pieces[1][1]
    <2>1. Len(pieces[1]) >= 1
      BY <1>6, <1>8
    <2>2. e[1] <= e[m]
      <3>1. m = 1 \/ e[1] < e[m]
        <4>1. 1 \in 0..m /\ m \in 0..m /\ (m = 1 \/ 1 < m)
          BY <1>1
        <4>2. QED
          BY <1>1, <1>3, <4>1, EndsRise
      <3>2. e[1] \in Nat /\ e[m] \in Nat
        BY <1>1, <1>4
      <3>3. QED
        BY <3>1, <3>2
    <2>3. Len(s) >= 1 /\ 1 \in 1..Len(pieces[1])
      BY <1>3, <1>4, <1>6, <2>1, <2>2
    <2>4. s[1] = pieces[1][1] /\ s # <<>>
      BY <1>2, <1>6, <2>3
    <2>5. QED
      BY <1>2, <2>4
  <1>9. QED
    BY <1>2, <1>5, <1>7, <1>8 DEF s, Free

-----------------------------------------------------------------------------
(* A fully qualified name and its parts.                                     *)

Full(p, t) == <<"@">> \o p \o <<"@">> \o t

\* Concatenation, place by place.
Appends(c, a, b, S) ==
    /\ c \in Seq(S) /\ Len(c) = Len(a) + Len(b)
    /\ \A i \in 1..Len(a) : c[i] = a[i]
    /\ \A i \in 1..Len(b) : c[Len(a) + i] = b[i]

LEMMA Concatenated ==
    ASSUME NEW S, NEW a \in Seq(S), NEW b \in Seq(S)
    PROVE  Appends(a \o b, a, b, S)
  <1>1. Len(a) \in Nat /\ Len(b) \in Nat
    OBVIOUS
  <1>2. /\ a \o b \in Seq(S) /\ Len(a \o b) = Len(a) + Len(b)
        /\ \A i \in 1 .. Len(a) + Len(b) : (a \o b)[i] = IF i <= Len(a) THEN a[i] ELSE b[i - Len(a)]
    BY ConcatProperties
  <1>3. ASSUME NEW i \in 1..Len(a) PROVE (a \o b)[i] = a[i]
    <2>1. i \in 1..Len(a) + Len(b) /\ i <= Len(a)
      BY <1>1
    <2>2. QED
      BY <1>2, <2>1
  <1>4. ASSUME NEW i \in 1..Len(b) PROVE (a \o b)[Len(a) + i] = b[i]
    <2>1. Len(a) + i \in 1..Len(a) + Len(b) /\ ~(Len(a) + i <= Len(a)) /\ (Len(a) + i) - Len(a) = i
      BY <1>1
    <2>2. QED
      BY <1>2, <2>1
  <1>5. QED
    BY <1>2, <1>3, <1>4 DEF Appends

Parted(s, p, t, S) ==
    /\ s \in Seq(S) /\ Len(s) = Len(p) + 2 + Len(t)
    /\ s[1] = "@" /\ s[Len(p) + 2] = "@"
    /\ \A i \in 1..Len(p) : s[1 + i] = p[i]
    /\ \A i \in 1..Len(t) : s[Len(p) + 2 + i] = t[i]

LEMMA FullIs ==
    ASSUME NEW S, "@" \in S, NEW p \in Seq(S), NEW t \in Seq(S)
    PROVE  Parted(Full(p, t), p, t, S)
  <1> DEFINE at == <<"@">>
             a == at \o p
             b == a \o at
             c == b \o t
  <1>0. Full(p, t) = c
    BY DEF Full
  <1>1. at \in Seq(S) /\ Len(at) = 1 /\ at[1] = "@" /\ Len(p) \in Nat /\ Len(t) \in Nat
    OBVIOUS
  <1> HIDE DEF at
  <1>2. /\ a \in Seq(S) /\ Len(a) = Len(at) + Len(p)
        /\ \A i \in 1..Len(at) : a[i] = at[i]
        /\ \A i \in 1..Len(p) : a[Len(at) + i] = p[i]
    <2>1. Appends(a, at, p, S)
      BY <1>1, Concatenated
    <2>2. QED
      BY <2>1 DEF Appends
  <1> HIDE DEF a
  <1>3. /\ b \in Seq(S) /\ Len(b) = Len(a) + Len(at)
        /\ \A i \in 1..Len(a) : b[i] = a[i]
        /\ \A i \in 1..Len(at) : b[Len(a) + i] = at[i]
    <2>1. Appends(b, a, at, S)
      BY <1>1, <1>2, Concatenated
    <2>2. QED
      BY <2>1 DEF Appends
  <1> HIDE DEF b
  <1>4. /\ c \in Seq(S) /\ Len(c) = Len(b) + Len(t)
        /\ \A i \in 1..Len(b) : c[i] = b[i]
        /\ \A i \in 1..Len(t) : c[Len(b) + i] = t[i]
    <2>1. Appends(c, b, t, S)
      BY <1>3, Concatenated
    <2>2. QED
      BY <2>1 DEF Appends
  <1> HIDE DEF c
  <1>5. Len(a) = Len(p) + 1 /\ Len(b) = Len(p) + 2
    <2>1. \A x, y, l \in Nat : x = 1 + l /\ y = x + 1 => x = l + 1 /\ y = l + 2
      OBVIOUS
    <2>2. Len(a) \in Nat /\ Len(b) \in Nat
      BY <1>2, <1>3
    <2>3. QED
      BY <1>1, <1>2, <1>3, <2>1, <2>2
  <1>6. c[1] = "@"
    <2>1. 1 \in 1..Len(b) /\ 1 \in 1..Len(a) /\ 1 \in 1..Len(at)
      BY <1>1, <1>5
    <2>2. c[1] = b[1] /\ b[1] = a[1] /\ a[1] = at[1]
      BY <1>2, <1>3, <1>4, <2>1
    <2>3. QED
      BY <1>1, <2>2
  <1>7. c[Len(p) + 2] = "@"
    <2>1. Len(p) + 2 \in 1..Len(b) /\ Len(p) + 2 = Len(a) + 1 /\ 1 \in 1..Len(at)
      BY <1>1, <1>5
    <2>2. c[Len(p) + 2] = b[Len(p) + 2] /\ b[Len(a) + 1] = at[1]
      BY <1>3, <1>4, <2>1
    <2>3. QED
      BY <1>1, <2>1, <2>2
  <1>8. ASSUME NEW i \in 1..Len(p) PROVE c[1 + i] = p[i]
    <2>1. 1 + i \in 1..Len(b) /\ 1 + i \in 1..Len(a)
      BY <1>1, <1>5
    <2>2. c[1 + i] = b[1 + i] /\ b[1 + i] = a[1 + i]
      BY <1>3, <1>4, <2>1
    <2>3. a[1 + i] = p[i]
      BY <1>1, <1>2
    <2>4. QED
      BY <2>2, <2>3
  <1>9. \A i \in 1..Len(t) : c[Len(p) + 2 + i] = t[i]
    BY <1>4, <1>5
  <1>10. QED
    BY <1>0, <1>1, <1>4, <1>5, <1>6, <1>7, <1>8, <1>9 DEF Parted

\* A full name is taken apart at its two "@".
LEMMA FullSplit ==
    ASSUME NEW S, "@" \in S, NEW p \in Seq(S), NEW t \in Seq(S), Free(p, "@"), Free(t, "@")
    PROVE  /\ TN!Split(Full(p, t), "@") = <<<<>>, p, t>>
           /\ SubSeq(Full(p, t), 2, Len(p) + 1) = p
  <1> DEFINE s == Full(p, t)
             l == Len(p)
             n == Len(t)
             e == [k \in 0..3 |-> CASE k = 0 -> 0 [] k = 1 -> 1 [] k = 2 -> l + 2 [] OTHER -> l + n + 3]
  <1>1. /\ s \in Seq(S) /\ Len(s) = l + 2 + n
        /\ s[1] = "@" /\ s[l + 2] = "@"
        /\ \A i \in 1..l : s[1 + i] = p[i]
        /\ \A i \in 1..n : s[l + 2 + i] = t[i]
    <2>1. Parted(Full(p, t), p, t, S)
      BY FullIs
    <2>2. QED
      BY <2>1 DEF Parted
  <1>2. l \in Nat /\ n \in Nat
    OBVIOUS
  <1>3. e[0] = 0 /\ e[1] = 1 /\ e[2] = l + 2 /\ e[3] = l + n + 3 /\ e \in [0..3 -> Nat]
    BY <1>2
  <1> HIDE DEF s, l, n, e
  <1>4. \A k \in 1..3 : k = 1 \/ k = 2 \/ k = 3
    OBVIOUS
  <1>5. Ending(e, 3)
    <2>1. \A k \in 1..3 : e[k - 1] < e[k]
      <3>1. e[1 - 1] < e[1] /\ e[2 - 1] < e[2] /\ e[3 - 1] < e[3]
        BY <1>2, <1>3
      <3>2. QED
        BY <1>4, <3>1
    <2>2. QED
      BY <1>3, <2>1 DEF Ending
  <1>6. \A k \in 1..3 - 1 : s[e[k]] = "@"
    <2>1. \A k \in 1..3 - 1 : k = 1 \/ k = 2
      OBVIOUS
    <2>2. QED
      BY <1>1, <1>3, <2>1
  <1>7. ASSUME NEW k \in 1..3, NEW i \in e[k - 1] + 1 .. e[k] - 1 PROVE s[i] # "@"
    <2>1. CASE k = 1
      BY <1>3, <2>1
    <2>2. CASE k = 2
      <3>1. i \in 2..l + 1
        <4>1. e[2 - 1] + 1 = 2 /\ e[2] - 1 = l + 1
          BY <1>2, <1>3
        <4>2. i \in e[2 - 1] + 1 .. e[2] - 1
          BY <2>2
        <4>3. QED
          BY <4>1, <4>2
      <3>2. i - 1 \in 1..l /\ 1 + (i - 1) = i
        BY <1>2, <3>1
      <3>3. s[i] = p[i - 1]
        BY <1>1, <3>2
      <3>4. QED
        BY <3>2, <3>3 DEF Free, l
    <2>3. CASE k = 3
      <3>1. i \in l + 3..l + n + 2
        <4>1. e[3 - 1] + 1 = l + 3 /\ e[3] - 1 = l + n + 2
          BY <1>2, <1>3
        <4>2. i \in e[3 - 1] + 1 .. e[3] - 1
          BY <2>3
        <4>3. QED
          BY <4>1, <4>2
      <3>2. i - (l + 2) \in 1..n /\ l + 2 + (i - (l + 2)) = i
        BY <1>2, <3>1
      <3>3. s[i] = t[i - (l + 2)]
        BY <1>1, <3>2
      <3>4. QED
        BY <3>2, <3>3 DEF Free, n
    <2>4. QED
      BY <1>4, <2>1, <2>2, <2>3
  <1>8. Separates("@", s, e, 3)
    <2>1. Len(s) \in Nat /\ e[3] = Len(s) + 1
      BY <1>1, <1>2, <1>3
    <2>2. QED
      BY <1>5, <1>6, <1>7, <2>1 DEF Separates
  <1>9. TN!Split(s, "@") = [k \in 1..3 |-> SubSeq(s, e[k - 1] + 1, e[k] - 1)]
    <2> DEFINE m == 3
    <2>1. Separates("@", s, e, m) /\ m = 3
      BY <1>8
    <2> HIDE DEF m
    <2>2. SplitsAt("@", s, e, m)
      BY <2>1, SplitAt
    <2>3. QED
      BY <2>1, <2>2 DEF SplitsAt
  <1>10. SubSeq(s, 1, 0) = <<>>
    <2>1. 1 \in Int /\ 0 \in Int /\ 0 < 1
      OBVIOUS
    <2>2. QED
      BY <2>1, SubSeqEmpty
  <1>11. SubSeq(s, 2, l + 1) = p
    <2> DEFINE u == SubSeq(s, 2, l + 1)
    <2>1. \A i \in 2..l + 1 : s[i] \in S
      BY <1>1, <1>2
    <2>2. 2 \in Int /\ l + 1 \in Int /\ (l + 1) - 2 + 1 = l /\ \A i \in 1..l : 2 + i - 1 = 1 + i
      BY <1>2
    <2>3. /\ u \in Seq(S)
          /\ Len(u) = IF 2 <= l + 1 THEN (l + 1) - 2 + 1 ELSE 0
          /\ \A i \in 1..(l + 1) - 2 + 1 : u[i] = s[2 + i - 1]
      BY <2>1, <2>2, SubSeqProperties
    <2> HIDE DEF u
    <2>4. Len(u) = l
      BY <1>2, <2>2, <2>3
    <2>5. \A i \in 1..l : u[i] = p[i]
      BY <1>1, <2>2, <2>3
    <2>6. u = p
      BY <2>3, <2>4, <2>5, SeqEqual DEF l
    <2>7. QED
      BY <2>6 DEF u
  <1>12. SubSeq(s, l + 3, l + n + 2) = t
    <2> DEFINE u == SubSeq(s, l + 3, l + n + 2)
    <2>1. \A i \in l + 3..l + n + 2 : s[i] \in S
      BY <1>1, <1>2
    <2>2. /\ l + 3 \in Int /\ l + n + 2 \in Int /\ (l + n + 2) - (l + 3) + 1 = n
          /\ \A i \in 1..n : (l + 3) + i - 1 = l + 2 + i
      BY <1>2
    <2>3. /\ u \in Seq(S)
          /\ Len(u) = IF l + 3 <= l + n + 2 THEN (l + n + 2) - (l + 3) + 1 ELSE 0
          /\ \A i \in 1..(l + n + 2) - (l + 3) + 1 : u[i] = s[(l + 3) + i - 1]
      BY <2>1, <2>2, SubSeqProperties
    <2> HIDE DEF u
    <2>4. Len(u) = n
      BY <1>2, <2>2, <2>3
    <2>5. \A i \in 1..n : u[i] = t[i]
      BY <1>1, <2>2, <2>3
    <2>6. u = t
      BY <2>3, <2>4, <2>5, SeqEqual DEF n
    <2>7. QED
      BY <2>6 DEF u
  <1>13. TN!Split(s, "@") = <<<<>>, p, t>>
    <2> DEFINE piece(k) == SubSeq(s, e[k - 1] + 1, e[k] - 1)
    <2>1. piece(1) = SubSeq(s, 1, 0)
      <3>1. e[1 - 1] + 1 = 1 /\ e[1] - 1 = 0
        BY <1>3
      <3>2. QED
        BY <3>1
    <2>2. piece(2) = SubSeq(s, 2, l + 1)
      <3>1. e[2 - 1] + 1 = 2 /\ e[2] - 1 = l + 1
        BY <1>2, <1>3
      <3>2. QED
        BY <3>1
    <2>3. piece(3) = SubSeq(s, l + 3, l + n + 2)
      <3>1. e[3 - 1] + 1 = l + 3 /\ e[3] - 1 = l + n + 2
        BY <1>2, <1>3
      <3>2. QED
        BY <3>1
    <2>4. [k \in 1..3 |-> piece(k)] = <<piece(1), piece(2), piece(3)>>
      <3> HIDE DEF piece
      <3>1. QED
        OBVIOUS
    <2>5. QED
      BY <1>9, <1>10, <1>11, <1>12, <2>1, <2>2, <2>3, <2>4
  <1>14. QED
    BY <1>11, <1>13 DEF s, l

-----------------------------------------------------------------------------
(* Valid names, place by place.                                              *)

\* A piece of a sequence, place by place.
Slices(u, s, i, j, S) ==
    /\ u \in Seq(S)
    /\ i <= j => Len(u) = j - i /\ \A k \in 1..j - i : u[k] = s[i + k]
    /\ j <= i => u = <<>>

LEMMA Slice ==
    ASSUME NEW S, NEW s \in Seq(S), NEW i \in 0..Len(s), NEW j \in 0..Len(s)
    PROVE  Slices(SubSeq(s, i + 1, j), s, i, j, S)
  <1> DEFINE u == SubSeq(s, i + 1, j)
  <1>1. i + 1 \in Int /\ j \in Int /\ i \in Int
    OBVIOUS
  <1>2. \A k \in i + 1..j : s[k] \in S
    OBVIOUS
  <1>3. /\ u \in Seq(S)
        /\ Len(u) = IF i + 1 <= j THEN j - (i + 1) + 1 ELSE 0
        /\ \A k \in 1..j - (i + 1) + 1 : u[k] = s[(i + 1) + k - 1]
    BY <1>1, <1>2, SubSeqProperties
  <1>4. j <= i => u = <<>>
    BY <1>1, SubSeqEmpty
  <1> HIDE DEF u
  <1>5. ASSUME i <= j PROVE Len(u) = j - i /\ \A k \in 1..j - i : u[k] = s[i + k]
    <2>1. j - (i + 1) + 1 = j - i /\ \A k \in Int : (i + 1) + k - 1 = i + k
      BY <1>1
    <2>2. Len(u) = j - i
      BY <1>1, <1>3, <1>5, <2>1
    <2>3. ASSUME NEW k \in 1..j - i PROVE u[k] = s[i + k]
      <3>1. u[k] = s[(i + 1) + k - 1]
        BY <1>3, <2>1
      <3>2. (i + 1) + k - 1 = i + k
        BY <2>1
      <3>3. QED
        BY <3>1, <3>2
    <2>4. QED
      BY <2>2, <2>3
  <1>6. Slices(u, s, i, j, S)
    BY <1>3, <1>4, <1>5 DEF Slices
  <1>7. QED
    BY <1>6 DEF u

LEMMA HasOne ==
    ASSUME NEW S, NEW s \in Seq(S), NEW c
    PROVE  TN!Has(s, <<c>>) <=> \E k \in 1..Len(s) : s[k] = c
  <1>1. ASSUME NEW i \in 0..Len(s), NEW j \in 0..Len(s), <<c>> = SubSeq(s, i + 1, j)
        PROVE  \E k \in 1..Len(s) : s[k] = c
    <2>1. Slices(<<c>>, s, i, j, S)
      BY <1>1, Slice
    <2>2. Len(<<c>>) = 1 /\ <<c>>[1] = c /\ <<c>> # <<>>
      OBVIOUS
    <2>3. i <= j /\ j - i = 1
      BY <2>1, <2>2 DEF Slices
    <2>4. 1 \in 1..j - i /\ i + 1 \in 1..Len(s)
      BY <2>3
    <2>5. s[i + 1] = c
      BY <2>1, <2>2, <2>3, <2>4 DEF Slices
    <2>6. QED
      BY <2>4, <2>5
  <1>2. ASSUME NEW k \in 1..Len(s), s[k] = c
        PROVE  \E i, j \in 0..Len(s) : <<c>> = SubSeq(s, i + 1, j)
    <2> DEFINE u == SubSeq(s, (k - 1) + 1, k)
    <2>1. k - 1 \in 0..Len(s) /\ k \in 0..Len(s) /\ k - 1 <= k /\ k - (k - 1) = 1 /\ (k - 1) + 1 = k
      OBVIOUS
    <2>2. Slices(u, s, k - 1, k, S)
      BY <2>1, Slice
    <2> HIDE DEF u
    <2>3. u \in Seq(S) /\ Len(u) = 1 /\ u[1] = c
      <3>1. u \in Seq(S) /\ Len(u) = k - (k - 1) /\ \A x \in 1..k - (k - 1) : u[x] = s[(k - 1) + x]
        BY <2>1, <2>2 DEF Slices
      <3>2. 1 \in 1..k - (k - 1)
        BY <2>1
      <3>3. QED
        BY <1>2, <2>1, <3>1, <3>2
    <2>4. u = <<c>>
      BY <2>3
    <2>5. QED
      BY <2>1, <2>4 DEF u
  <1>3. QED
    BY <1>1, <1>2 DEF TN!Has, TN!SubSeqs

LEMMA HasTwo ==
    ASSUME NEW S, NEW s \in Seq(S), NEW c, NEW d
    PROVE  TN!Has(s, <<c, d>>) <=> \E k \in 1..Len(s) - 1 : s[k] = c /\ s[k + 1] = d
  <1>1. ASSUME NEW i \in 0..Len(s), NEW j \in 0..Len(s), <<c, d>> = SubSeq(s, i + 1, j)
        PROVE  \E k \in 1..Len(s) - 1 : s[k] = c /\ s[k + 1] = d
    <2>1. Slices(<<c, d>>, s, i, j, S)
      BY <1>1, Slice
    <2>2. Len(<<c, d>>) = 2 /\ <<c, d>>[1] = c /\ <<c, d>>[2] = d /\ <<c, d>> # <<>>
      OBVIOUS
    <2>3. i <= j /\ j - i = 2
      BY <2>1, <2>2 DEF Slices
    <2>4. 1 \in 1..j - i /\ 2 \in 1..j - i /\ i + 1 \in 1..Len(s) - 1 /\ (i + 1) + 1 = i + 2
      BY <2>3
    <2>5. s[i + 1] = c /\ s[i + 2] = d
      BY <2>1, <2>2, <2>3, <2>4 DEF Slices
    <2>6. QED
      BY <2>4, <2>5
  <1>2. ASSUME NEW k \in 1..Len(s) - 1, s[k] = c, s[k + 1] = d
        PROVE  \E i, j \in 0..Len(s) : <<c, d>> = SubSeq(s, i + 1, j)
    <2> DEFINE u == SubSeq(s, (k - 1) + 1, k + 1)
    <2>1. /\ k - 1 \in 0..Len(s) /\ k + 1 \in 0..Len(s) /\ k - 1 <= k + 1 /\ (k + 1) - (k - 1) = 2
          /\ (k - 1) + 1 = k /\ (k - 1) + 2 = k + 1
      OBVIOUS
    <2>2. Slices(u, s, k - 1, k + 1, S)
      BY <2>1, Slice
    <2> HIDE DEF u
    <2>3. u \in Seq(S) /\ Len(u) = 2 /\ u[1] = c /\ u[2] = d
      <3>1. /\ u \in Seq(S) /\ Len(u) = (k + 1) - (k - 1)
            /\ \A x \in 1..(k + 1) - (k - 1) : u[x] = s[(k - 1) + x]
        BY <2>1, <2>2 DEF Slices
      <3>2. 1 \in 1..(k + 1) - (k - 1) /\ 2 \in 1..(k + 1) - (k - 1)
        BY <2>1
      <3>3. QED
        BY <1>2, <2>1, <3>1, <3>2
    <2>4. u = <<c, d>>
      BY <2>3
    <2>5. QED
      BY <2>1, <2>4 DEF u
  <1>3. QED
    BY <1>1, <1>2 DEF TN!Has, TN!SubSeqs

\* The names of these two are not those of SMT: a proof that needs what they are
\* expands them, and is found by Zenon.
Blank == " "
LowLine == "_"

\* Two characters that may not follow one another.
Clash(c, d) == (c = "/" /\ d = "/") \/ (c = ":" /\ d = "=")

\* Valid but for the length and the name that is a slash.
Proper(s) ==
    /\ \A k \in 1..Len(s) : s[k] \notin {"~", Blank, "@"}
    /\ \A k \in 1..Len(s) - 1 : ~Clash(s[k], s[k + 1])

LEMMA ValidIs ==
    ASSUME NEW S, NEW s \in Seq(S)
    PROVE  TN!IsValidNamespace(s) <=> Len(s) <= MaxNameLength /\ s # <<"/">> /\ Proper(s)
  <1>1. \A c : TN!Has(s, <<c>>) <=> \E k \in 1..Len(s) : s[k] = c
    BY HasOne
  <1>2. \A c, d : TN!Has(s, <<c, d>>) <=> \E k \in 1..Len(s) - 1 : s[k] = c /\ s[k + 1] = d
    BY HasTwo
  <1>3. (\A sub \in {<<"~">>, <<Blank>>, <<"/", "/">>, <<"@">>, <<":", "=">>} : ~TN!Has(s, sub))
            <=> /\ ~TN!Has(s, <<"~">>) /\ ~TN!Has(s, <<Blank>>) /\ ~TN!Has(s, <<"/", "/">>)
                /\ ~TN!Has(s, <<"@">>) /\ ~TN!Has(s, <<":", "=">>)
    OBVIOUS
  <1>4. ~TN!Has(s, <<"~">>) /\ ~TN!Has(s, <<Blank>>) /\ ~TN!Has(s, <<"@">>)
            <=> \A k \in 1..Len(s) : s[k] \notin {"~", Blank, "@"}
    BY <1>1
  <1>5. ~TN!Has(s, <<"/", "/">>) /\ ~TN!Has(s, <<":", "=">>)
            <=> \A k \in 1..Len(s) - 1 : ~Clash(s[k], s[k + 1])
    BY <1>2 DEF Clash
  <1>6. QED
    <2>1. TN!IsValidNamespace(s) <=>
              /\ Len(s) <= MaxNameLength /\ s # <<"/">>
              /\ \A sub \in {<<"~">>, <<Blank>>, <<"/", "/">>, <<"@">>, <<":", "=">>} : ~TN!Has(s, sub)
      BY Zenon DEF TN!IsValidNamespace, TN!Slash, Blank
    <2>2. QED
      BY <1>3, <1>4, <1>5, <2>1 DEF Proper

LEMMA ProperJoined ==
    ASSUME NEW S, NEW a \in Seq(S), NEW b \in Seq(S), Proper(a), Proper(b),
           a # <<>> /\ b # <<>> => ~Clash(a[Len(a)], b[1])
    PROVE  Proper(a \o b)
  <1> DEFINE c == a \o b
             m == Len(a)
             n == Len(b)
  <1>1. Appends(c, a, b, S)
    BY Concatenated
  <1>2. m \in Nat /\ n \in Nat /\ (a = <<>> <=> m = 0) /\ (b = <<>> <=> n = 0)
    OBVIOUS
  <1> HIDE DEF c
  <1>3. /\ Len(c) = m + n /\ \A i \in 1..m : c[i] = a[i]
        /\ \A i \in 1..n : c[m + i] = b[i]
    BY <1>1 DEF Appends
  <1>4. /\ \A k \in 1..m : a[k] \notin {"~", Blank, "@"}
        /\ \A k \in 1..n : b[k] \notin {"~", Blank, "@"}
        /\ \A k \in 1..m - 1 : ~Clash(a[k], a[k + 1])
        /\ \A k \in 1..n - 1 : ~Clash(b[k], b[k + 1])
        /\ m # 0 /\ n # 0 => ~Clash(a[m], b[1])
    BY <1>2 DEF Proper
  <1> HIDE DEF m, n
  <1>5. ASSUME NEW k \in 1..m + n PROVE c[k] \notin {"~", Blank, "@"}
    <2>1. CASE k <= m
      <3>1. k \in 1..m
        BY <1>2, <2>1
      <3>2. QED
        BY <1>3, <1>4, <3>1
    <2>2. CASE k > m
      <3>1. k - m \in 1..n /\ m + (k - m) = k
        BY <1>2, <2>2
      <3>2. c[k] = b[k - m]
        BY <1>3, <3>1
      <3>3. QED
        BY <1>4, <3>1, <3>2
    <2>3. QED
      BY <1>2, <2>1, <2>2
  <1>6. ASSUME NEW k \in 1..(m + n) - 1 PROVE ~Clash(c[k], c[k + 1])
    <2>1. CASE k < m
      <3>1. k \in 1..m - 1 /\ k \in 1..m /\ k + 1 \in 1..m
        BY <1>2, <2>1
      <3>2. QED
        BY <1>3, <1>4, <3>1
    <2>2. CASE k = m
      <3>1. k \in 1..m /\ 1 \in 1..n /\ k + 1 = m + 1 /\ m # 0 /\ n # 0
        BY <1>2, <2>2
      <3>2. c[k] = a[m] /\ c[k + 1] = b[1]
        BY <1>3, <2>2, <3>1
      <3>3. QED
        BY <1>4, <3>1, <3>2
    <2>3. CASE k > m
      <3>1. /\ k - m \in 1..n - 1 /\ k - m \in 1..n /\ (k - m) + 1 \in 1..n
            /\ m + (k - m) = k /\ m + ((k - m) + 1) = k + 1
        BY <1>2, <2>3
      <3>2. c[m + (k - m)] = b[k - m] /\ c[m + ((k - m) + 1)] = b[(k - m) + 1]
        BY <1>3, <3>1
      <3>3. c[k] = b[k - m] /\ c[k + 1] = b[(k - m) + 1]
        BY <3>1, <3>2
      <3>4. ~Clash(b[k - m], b[(k - m) + 1])
        BY <1>4, <3>1
      <3>5. QED
        BY <3>3, <3>4
    <2>4. QED
      BY <1>2, <2>1, <2>2, <2>3
  <1>7. Proper(c)
    BY <1>3, <1>5, <1>6 DEF Proper
  <1>8. QED
    BY <1>7 DEF c

\* A name that begins with a slash, and goes on, and does not end with one.
Rooted(s) == Len(s) >= 2 /\ s[1] = "/" /\ s[Len(s)] # "/" /\ Proper(s)

LEMMA EdgesOf ==
    ASSUME NEW S, NEW s \in Seq(S)
    PROVE  /\ TN!Starts(s, "/") <=> s # <<>> /\ s[1] = "/"
           /\ TN!Ends(s, "/") <=> s # <<>> /\ s[Len(s)] = "/"
           /\ Len(s) \in Nat /\ (s = <<>> <=> Len(s) = 0)
  BY DEF TN!Starts, TN!Ends, TN!Last

\* A name without the slash at its end.
Trims(u, s, S) ==
    /\ u \in Seq(S) /\ u # <<>> /\ Proper(u) /\ u[Len(u)] # "/" /\ u[1] = s[1]
    /\ s[Len(s)] # "/" => u = s

LEMMA Trimmed ==
    ASSUME NEW S, NEW s \in Seq(S), Proper(s), s # <<>>, s # <<"/">>
    PROVE  Trims(TN!WithoutBack(s), s, S)
  <1> DEFINE n == Len(s)
             u == SubSeq(s, 0 + 1, n - 1)
  <1>1. n \in Nat /\ n >= 1 /\ (TN!Ends(s, "/") <=> s[n] = "/")
    BY EdgesOf
  <1>2. CASE s[n] # "/"
    BY <1>1, <1>2 DEF TN!WithoutBack, Trims
  <1>3. CASE s[n] = "/"
    <2>1. n # 1
      <3>1. n = 1 => s = <<"/">>
        BY <1>3
      <3>2. QED
        BY <3>1
    <2>2. TN!WithoutBack(s) = u
      <3>1. 0 + 1 = 1
        OBVIOUS
      <3>2. QED
        BY <1>1, <1>3, <3>1 DEF TN!WithoutBack, TN!Front
    <2>3. Slices(u, s, 0, n - 1, S)
      <3>1. 0 \in 0..Len(s) /\ n - 1 \in 0..Len(s)
        BY <1>1
      <3>2. QED
        BY <3>1, Slice
    <2>4. \A k \in 1..n : s[k] \notin {"~", Blank, "@"}
      BY DEF Proper
    <2>5. \A k \in 1..n - 1 : ~Clash(s[k], s[k + 1])
      BY DEF Proper
    <2> HIDE DEF u, n
    <2>6. u \in Seq(S) /\ Len(u) = n - 1 /\ \A k \in 1..n - 1 : u[k] = s[k]
      <3>1. 0 <= n - 1 /\ (n - 1) - 0 = n - 1 /\ \A k \in 1..n - 1 : 0 + k = k
        BY <1>1, <2>1
      <3>2. u \in Seq(S) /\ Len(u) = (n - 1) - 0 /\ \A k \in 1..(n - 1) - 0 : u[k] = s[0 + k]
        BY <2>3, <3>1 DEF Slices
      <3>3. QED
        BY <3>1, <3>2
    <2>7. n - 1 \in 1..n - 1 /\ 1 \in 1..n - 1 /\ (n - 1) + 1 = n
      BY <1>1, <2>1
    <2>8. u # <<>> /\ u[Len(u)] # "/" /\ u[1] = s[1]
      <3>1. ~Clash(s[n - 1], s[n])
        BY <2>5, <2>7
      <3>2. s[n - 1] # "/"
        BY <1>3, <3>1 DEF Clash
      <3>3. QED
        BY <2>6, <2>7, <3>2
    <2>9. Proper(u)
      <3>1. \A k \in 1..n - 1 : k \in 1..n
        BY <1>1
      <3>2. \A k \in 1..(n - 1) - 1 : k \in 1..n - 1 /\ k + 1 \in 1..n - 1
        BY <1>1
      <3>3. QED
        BY <2>4, <2>5, <2>6, <3>1, <3>2 DEF Proper
    <2>10. QED
      BY <1>3, <2>2, <2>6, <2>8, <2>9 DEF Trims, n
  <1>4. QED
    BY <1>2, <1>3

LEMMA SlashIs ==
    ASSUME NEW S, "/" \in S
    PROVE  /\ <<"/">> \in Seq(S) /\ Len(<<"/">>) = 1 /\ <<"/">>[1] = "/" /\ <<"/">> # <<>>
           /\ Proper(<<"/">>)
  <1> DEFINE u == <<"/">>
  <1>1. u \in Seq(S) /\ Len(u) = 1 /\ u[1] = "/" /\ u # <<>>
    OBVIOUS
  <1>2. "/" \notin {"~", Blank, "@"}
    BY Zenon DEF Blank
  <1> HIDE DEF u
  <1>3. \A i \in 1..Len(u) : i = 1
    BY <1>1
  <1>4. \A i \in 1..Len(u) - 1 : FALSE
    BY <1>1
  <1>5. Proper(u)
    BY <1>1, <1>2, <1>3, <1>4 DEF Proper
  <1>6. QED
    BY <1>1, <1>5 DEF u

\* A name with a slash in front of it.
LEMMA Slashed ==
    ASSUME NEW S, "/" \in S, NEW s \in Seq(S), s # <<>>
    PROVE  LET w == <<"/">> \o s
           IN  /\ w \in Seq(S) /\ w # <<>> /\ w # <<"/">> /\ w[1] = "/"
               /\ Len(w) = Len(s) + 1 /\ w[Len(w)] = s[Len(s)]
               /\ s[1] # "/" /\ Proper(s) => Proper(w)
               /\ Tail(w) = s
  <1> DEFINE w == <<"/">> \o s
  <1>1. Appends(w, <<"/">>, s, S)
    BY SlashIs, Concatenated
  <1>2. Len(s) \in Nat /\ Len(s) >= 1
    BY EdgesOf
  <1>3. s[1] # "/" /\ Proper(s) => Proper(w)
    <2>1. s[1] # "/" => ~Clash("/", s[1])
      BY DEF Clash
    <2>2. QED
      BY <2>1, SlashIs, ProperJoined
  <1>4. Tail(w) = s
    OBVIOUS
  <1> HIDE DEF w
  <1>5. w \in Seq(S) /\ Len(w) = 1 + Len(s) /\ w[1] = "/" /\ \A i \in 1..Len(s) : w[1 + i] = s[i]
    <2>1. 1 \in 1..Len(<<"/">>)
      BY SlashIs
    <2>2. QED
      BY <1>1, <2>1, SlashIs DEF Appends
  <1>6. w # <<>> /\ w # <<"/">>
    BY <1>2, <1>5, SlashIs
  <1>7. Len(w) = Len(s) + 1 /\ w[Len(w)] = s[Len(s)]
    <2>1. Len(s) \in 1..Len(s) /\ 1 + Len(s) = Len(s) + 1
      BY <1>2
    <2>2. QED
      BY <1>5, <2>1
  <1>8. QED
    BY <1>3, <1>4, <1>5, <1>6, <1>7 DEF w

\* A partition is empty, or rooted in the names made from it.
LEMMA PartitionIs ==
    ASSUME NEW S, "/" \in S, NEW p \in Seq(S), Proper(p), p # <<"/">>
    PROVE  /\ TN!PartitionPart(p) \in Seq(S)
           /\ p = <<>> => TN!PartitionPart(p) = <<>>
           /\ p # <<>> => Rooted(TN!PartitionPart(p))
  <1> DEFINE w == TN!WithFront(p)
             u == TN!WithoutBack(w)
  <1>1. CASE p = <<>>
    BY <1>1 DEF TN!PartitionPart
  <1>2. CASE p # <<>>
    <2>1. w \in Seq(S) /\ Proper(w) /\ w # <<>> /\ w # <<"/">> /\ w[1] = "/"
      <3>1. CASE p[1] = "/"
        BY <1>2, <3>1, EdgesOf DEF TN!WithFront
      <3>2. CASE p[1] # "/"
        <4>1. w = <<"/">> \o p
          BY <3>2, EdgesOf DEF TN!WithFront, TN!Slash
        <4>2. QED
          BY <1>2, <3>2, <4>1, Slashed
      <3>3. QED
        BY <3>1, <3>2
    <2> HIDE DEF w
    <2>2. Trims(u, w, S)
      BY <2>1, Trimmed
    <2> HIDE DEF u
    <2>3. u \in Seq(S) /\ u # <<>> /\ Proper(u) /\ u[Len(u)] # "/" /\ u[1] = "/"
      BY <2>1, <2>2 DEF Trims
    <2>4. Len(u) \in Nat /\ Len(u) # 0 /\ Len(u) # 1
      BY <2>3, EdgesOf
    <2>5. Rooted(u)
      BY <2>3, <2>4 DEF Rooted
    <2>6. TN!PartitionPart(p) = u
      BY <1>2 DEF TN!PartitionPart, u, w
    <2>7. QED
      BY <1>2, <2>3, <2>5, <2>6
  <1>3. QED
    BY <1>1, <1>2

\* A partition without a slash at an end gets one in front, and no more.
LEMMA PlainPartition ==
    ASSUME NEW S, "/" \in S, NEW p \in Seq(S), TN!Plain(p), p # <<>>
    PROVE  TN!PartitionPart(p) = <<"/">> \o p
  <1> DEFINE w == <<"/">> \o p
  <1>1. p[1] # "/" /\ p[Len(p)] # "/"
    BY EdgesOf DEF TN!Plain
  <1>2. TN!WithFront(p) = w
    BY <1>1, EdgesOf DEF TN!WithFront, TN!Slash
  <1>3. w \in Seq(S) /\ w[Len(w)] = p[Len(p)]
    BY Slashed
  <1> HIDE DEF w
  <1>4. TN!WithoutBack(w) = w
    BY <1>1, <1>3, EdgesOf DEF TN!WithoutBack
  <1>5. QED
    BY <1>2, <1>4 DEF TN!PartitionPart, w

\* What is rooted stays as it is.
LEMMA RootedStays ==
    ASSUME NEW S, NEW s \in Seq(S), Rooted(s)
    PROVE  /\ TN!PartitionPart(s) = s /\ TN!WithoutBack(s) = s /\ TN!Starts(s, "/")
           /\ s # <<>> /\ s # <<"/">> /\ Proper(s) /\ Tail(s) # <<>>
           /\ s = <<"/">> \o Tail(s)
  <1>1. Len(s) >= 2 /\ s[1] = "/" /\ s[Len(s)] # "/" /\ Proper(s) /\ Len(s) \in Nat
    BY DEF Rooted
  <1>2. s # <<>> /\ s # <<"/">>
    BY <1>1
  <1>3. TN!Starts(s, "/") /\ ~TN!Ends(s, "/")
    BY <1>1, <1>2, EdgesOf
  <1>4. TN!PartitionPart(s) = s /\ TN!WithoutBack(s) = s
    BY <1>2, <1>3 DEF TN!PartitionPart, TN!WithFront, TN!WithoutBack
  <1>5. Tail(s) # <<>>
    BY <1>1, <1>2
  <1>6. s = <<"/">> \o Tail(s)
    <2>1. s = <<s[1]>> \o Tail(s)
      BY <1>2
    <2>2. QED
      BY <1>1, <2>1
  <1>7. QED
    BY <1>1, <1>2, <1>3, <1>4, <1>5, <1>6

\* The topic of a full name, with the namespace unless it has a slash in front.
Long(ns, topic) ==
    LET short == TN!WithoutBack(topic)
    IN  IF TN!Starts(short, "/") THEN short
        ELSE TN!WithFront(TN!WithBack(ns)) \o short

LEMMA LongIs ==
    ASSUME NEW S, "/" \in S, NEW ns \in Seq(S), NEW topic \in Seq(S),
           Proper(ns), ns # <<"/">>, Proper(topic), topic # <<"/">>, topic # <<>>
    PROVE  Long(ns, topic) \in Seq(S) /\ Rooted(Long(ns, topic))
  <1> DEFINE short == TN!WithoutBack(topic)
             rear == TN!WithBack(ns)
             front == TN!WithFront(rear)
             long == front \o short
  <1>1. short \in Seq(S) /\ short # <<>> /\ Proper(short) /\ short[Len(short)] # "/"
    <2>1. Trims(short, topic, S)
      BY Trimmed
    <2>2. QED
      BY <2>1 DEF Trims
  <1>2. Len(short) \in Nat /\ Len(short) # 0 /\ (TN!Starts(short, "/") <=> short[1] = "/")
    BY <1>1, EdgesOf
  <1>3. Long(ns, topic) = IF TN!Starts(short, "/") THEN short ELSE long
    BY DEF Long
  <1> HIDE DEF short
  <1>4. CASE short[1] = "/"
    <2>1. Len(short) # 1
      BY <1>1, <1>4
    <2>2. QED
      BY <1>1, <1>2, <1>3, <1>4, <2>1 DEF Rooted
  <1>5. CASE short[1] # "/"
    <2>1. rear \in Seq(S) /\ rear # <<>> /\ Proper(rear) /\ rear[Len(rear)] = "/"
      <3>1. CASE ns = <<>>
        <4>1. rear = ns \o <<"/">>
          BY <3>1, EdgesOf DEF TN!WithBack, TN!Slash
        <4>2. <<>> \o <<"/">> = <<"/">>
          OBVIOUS
        <4>3. QED
          BY <3>1, <4>1, <4>2, SlashIs
      <3>2. CASE ns # <<>> /\ ns[Len(ns)] = "/"
        BY <3>2, EdgesOf DEF TN!WithBack
      <3>3. CASE ns # <<>> /\ ns[Len(ns)] # "/"
        <4>1. rear = ns \o <<"/">>
          BY <3>3, EdgesOf DEF TN!WithBack, TN!Slash
        <4>2. ~Clash(ns[Len(ns)], <<"/">>[1])
          BY <3>3, SlashIs DEF Clash
        <4>3. Proper(ns \o <<"/">>)
          BY <4>2, SlashIs, ProperJoined
        <4>4. Appends(ns \o <<"/">>, ns, <<"/">>, S)
          BY SlashIs, Concatenated
        <4> HIDE DEF rear
        <4>5. /\ rear \in Seq(S) /\ Len(rear) = Len(ns) + 1
              /\ \A i \in 1..1 : rear[Len(ns) + i] = <<"/">>[i]
          BY <4>1, <4>4, SlashIs DEF Appends
        <4>6. Len(ns) \in Nat /\ 1 \in 1..1
          OBVIOUS
        <4>7. rear[Len(rear)] = "/"
          BY <4>5, <4>6, SlashIs
        <4>8. rear # <<>>
          BY <4>5, <4>6
        <4>9. QED
          BY <4>1, <4>3, <4>5, <4>7, <4>8
      <3>4. QED
        BY <3>1, <3>2, <3>3
    <2> HIDE DEF rear
    <2>2. front \in Seq(S) /\ front # <<>> /\ Proper(front) /\ front[1] = "/" /\ front[Len(front)] = "/"
      <3>0. TN!Starts(rear, "/") <=> rear[1] = "/"
        BY <2>1, EdgesOf
      <3>1. CASE rear[1] = "/"
        BY <2>1, <3>0, <3>1 DEF TN!WithFront
      <3>2. CASE rear[1] # "/"
        <4>1. front = <<"/">> \o rear
          BY <3>0, <3>2 DEF TN!WithFront, TN!Slash
        <4>2. QED
          BY <2>1, <3>2, <4>1, Slashed
      <3>3. QED
        BY <3>1, <3>2
    <2> HIDE DEF front
    <2>3. Len(front) \in Nat /\ Len(front) # 0
      BY <2>2, EdgesOf
    <2>4. Proper(long)
      <3>1. ~Clash(front[Len(front)], short[1])
        BY <1>5, <2>2 DEF Clash
      <3>2. QED
        BY <1>1, <2>2, <3>1, ProperJoined
    <2>5. Appends(long, front, short, S)
      BY <1>1, <2>2, Concatenated
    <2> HIDE DEF long
    <2>6. /\ long \in Seq(S) /\ Len(long) = Len(front) + Len(short)
          /\ \A i \in 1..Len(front) : long[i] = front[i]
          /\ \A i \in 1..Len(short) : long[Len(front) + i] = short[i]
      BY <2>5 DEF Appends
    <2>7. 1 \in 1..Len(front) /\ Len(short) \in 1..Len(short) /\ Len(long) >= 2
      BY <1>2, <2>3, <2>6
    <2>8. long[1] = "/" /\ long[Len(long)] # "/"
      BY <1>1, <2>2, <2>6, <2>7
    <2>9. Rooted(long)
      BY <2>4, <2>7, <2>8 DEF Rooted
    <2>10. QED
      BY <1>2, <1>3, <1>5, <2>6, <2>9
  <1>6. QED
    BY <1>4, <1>5

\* A full name of a partition and a topic.
Named(full, p, t, S) ==
    /\ full = Full(p, t) /\ Len(full) <= MaxNameLength
    /\ p \in Seq(S) /\ (p = <<>> \/ Rooted(p)) /\ TN!IsValidNamespace(p) /\ Free(p, "@")
    /\ t \in Seq(S) /\ Rooted(t) /\ TN!IsValidTopic(t) /\ Free(t, "@")

LEMMA FullLength ==
    ASSUME NEW S, "@" \in S, NEW p \in Seq(S), NEW t \in Seq(S)
    PROVE  Len(Full(p, t)) = Len(p) + 2 + Len(t) /\ Full(p, t) # <<>> /\ Full(p, t)[1] = "@"
  <1>1. Parted(Full(p, t), p, t, S)
    BY FullIs
  <1>2. Len(p) \in Nat /\ Len(t) \in Nat
    OBVIOUS
  <1>3. Full(p, t) \in Seq(S) /\ Len(Full(p, t)) = Len(p) + 2 + Len(t) /\ Full(p, t)[1] = "@"
    BY <1>1 DEF Parted
  <1> HIDE DEF Full
  <1>4. Full(p, t) # <<>>
    BY <1>2, <1>3
  <1>5. QED
    BY <1>3, <1>4

LEMMA ProperIsFree == ASSUME NEW s, Proper(s) PROVE Free(s, "@")
  BY DEF Proper, Free

LEMMA Qualified ==
    ASSUME NEW S, "@" \in S, "/" \in S, MaxNameLength \in Nat,
           NEW p \in Seq(S), NEW ns \in Seq(S), NEW t \in Seq(S),
           TN!FullyQualifiedName(p, ns, t) # TN!NoName
    PROVE  /\ Named(TN!FullyQualifiedName(p, ns, t), TN!PartitionPart(p), Long(ns, t), S)
           /\ TN!IsValidNamespace(ns)
           /\ p = <<>> <=> TN!PartitionPart(p) = <<>>
  <1> DEFINE P == TN!PartitionPart(p)
             L == Long(ns, t)
  <1>1. /\ TN!FullyQualifiedName(p, ns, t) = Full(P, L) /\ Len(Full(P, L)) <= MaxNameLength
        /\ TN!IsValidNamespace(p) /\ TN!IsValidNamespace(ns) /\ TN!IsValidNamespace(t) /\ t # <<>>
    BY DEF TN!FullyQualifiedName, Full, Long, TN!IsValidPartition, TN!IsValidTopic
  <1>2. /\ p # <<"/">> /\ Proper(p) /\ ns # <<"/">> /\ Proper(ns)
        /\ t # <<"/">> /\ Proper(t)
    BY <1>1, ValidIs
  <1>3. P \in Seq(S) /\ (p = <<>> => P = <<>>) /\ (p # <<>> => Rooted(P))
    BY <1>2, PartitionIs
  <1>4. L \in Seq(S) /\ Rooted(L)
    BY <1>1, <1>2, LongIs
  <1> HIDE DEF P, L
  <1>5. Len(P) <= MaxNameLength /\ Len(L) <= MaxNameLength
    <2>1. Len(Full(P, L)) = Len(P) + 2 + Len(L)
      BY <1>3, <1>4, FullLength
    <2>2. Len(P) \in Nat /\ Len(L) \in Nat
      BY <1>3, <1>4
    <2>3. QED
      BY <1>1, <2>1, <2>2
  <1>6. P # <<>> => P # <<"/">> /\ Proper(P)
    BY <1>3, RootedStays
  <1>7. Proper(P) /\ P # <<"/">>
    <2>1. Proper(<<>>) /\ <<>> # <<"/">>
      BY DEF Proper
    <2>2. QED
      BY <1>6, <2>1
  <1>8. L # <<>> /\ L # <<"/">> /\ Proper(L)
    BY <1>4, RootedStays
  <1>9. TN!IsValidNamespace(P) /\ TN!IsValidNamespace(L)
    BY <1>3, <1>4, <1>5, <1>7, <1>8, ValidIs
  <1>10. Free(P, "@") /\ Free(L, "@")
    BY <1>7, <1>8, ProperIsFree
  <1>11. p = <<>> <=> P = <<>>
    <2>1. Rooted(P) => P # <<>>
      BY <1>3, RootedStays
    <2>2. QED
      BY <1>3, <2>1
  <1>12. Named(TN!FullyQualifiedName(p, ns, t), P, L, S)
    BY <1>1, <1>3, <1>4, <1>8, <1>9, <1>10 DEF Named, TN!IsValidTopic
  <1>13. QED
    BY <1>1, <1>11, <1>12 DEF P, L

\* One piece joined is the piece.
LEMMA JoinedOne ==
    ASSUME NEW S, NEW c \in S, NEW p \in Seq(S)
    PROVE  TN!Join(<<p>>, c) = p
  <1> DEFINE pieces == <<p>>
  <1>1. pieces \in Seq(Seq(S)) /\ Len(pieces) = 1 /\ pieces[1] = p
    OBVIOUS
  <1> HIDE DEF pieces
  <1>2. Texts(pieces, 1, S)
    BY <1>1 DEF Texts
  <1>3. TN!Join(pieces, c) = pieces[1]
    BY <1>2, JoinedIs
  <1>4. QED
    BY <1>1, <1>3 DEF pieces

LEMMA TakenApart ==
    ASSUME NEW S, "@" \in S, NEW full, NEW p, NEW t, Named(full, p, t, S)
    PROVE  /\ TN!DecomposeFullyQualifiedTopic(full) = [partition |-> p, topic |-> t]
           /\ TN!DecomposeFullyQualifiedTopic(full) # TN!NoParts
  <1> DEFINE pieces == TN!Split(full, "@")
  <1>1. /\ full = Full(p, t) /\ p \in Seq(S) /\ t \in Seq(S) /\ Free(p, "@") /\ Free(t, "@")
        /\ TN!IsValidNamespace(p) /\ Rooted(t) /\ TN!IsValidTopic(t) /\ t # <<>>
    BY DEF Named, TN!IsValidTopic
  <1>2. pieces = <<<<>>, p, t>>
    BY <1>1, FullSplit
  <1>3. full # <<>> /\ Head(full) = "@"
    <2>1. full # <<>> /\ full[1] = "@"
      BY <1>1, FullLength
    <2>2. Parted(full, p, t, S)
      BY <1>1, FullIs
    <2>3. full \in Seq(S)
      BY <2>2 DEF Parted
    <2>4. QED
      BY <2>1, <2>3
  <1> HIDE DEF pieces
  <1>4. Len(pieces) = 3 /\ TN!Last(pieces) = t /\ SubSeq(pieces, 2, Len(pieces) - 1) = <<p>>
    <2>1. Len(pieces) = 3 /\ pieces[2] = p /\ pieces[3] = t /\ pieces \in Seq(Seq(S))
      BY <1>1, <1>2
    <2> DEFINE Q == Seq(S)
               two == SubSeq(pieces, 2, 2)
    <2> HIDE DEF Q
    <2>5. pieces \in Seq(Q)
      BY <2>1 DEF Q
    <2>6. 2 \in 1..Len(pieces) + 1 /\ 2 \in (2 - 1)..Len(pieces)
      BY <2>1
    <2>7. two \in Seq(Q) /\ Len(two) = 1 /\ two[1] = p
      <3>1. 1 \in 1..(2 - 2 + 1)
        OBVIOUS
      <3>2. /\ two \in Seq(Q) /\ Len(two) = 2 - 2 + 1
            /\ \A k \in 1..(2 - 2 + 1) : two[k] = pieces[2 + k - 1]
        BY <2>5, <2>6, SubSeqProperties
      <3>3. two[1] = pieces[2 + 1 - 1]
        BY <3>1, <3>2
      <3>4. QED
        BY <2>1, <3>2, <3>3
    <2> DEFINE one == <<p>>
    <2>8. one \in Seq(Q) /\ Len(one) = 1 /\ one[1] = p
      BY <1>1 DEF Q
    <2>9. two = one
      <3> HIDE DEF one, two
      <3>1. Len(two) = Len(one) /\ \A k \in 1..Len(two) : two[k] = one[k]
        BY <2>7, <2>8
      <3>2. QED
        BY <2>7, <2>8, <3>1, SeqEqual
    <2>2. SubSeq(pieces, 2, 2) = <<p>>
      BY <2>9
    <2>3. Len(pieces) - 1 = 2
      BY <2>1
    <2>4. QED
      BY <2>1, <2>2, <2>3 DEF TN!Last
  <1>5. TN!Join(SubSeq(pieces, 2, Len(pieces) - 1), "@") = p
    BY <1>1, <1>4, JoinedOne
  <1>6. TN!DecomposeFullyQualifiedTopic(full) = [partition |-> p, topic |-> t]
    <2>1. TN!Starts(full, "@")
      BY <1>3 DEF TN!Starts
    <2>2. Len(pieces) > 2
      BY <1>4
    <2>3. TN!IsValidPartition(p)
      BY <1>1 DEF TN!IsValidPartition
    <2> DEFINE middle == TN!Join(SubSeq(pieces, 2, Len(pieces) - 1), "@")
               topic == TN!Last(pieces)
    <2>4. TN!DecomposeFullyQualifiedTopic(full) =
            IF /\ TN!Starts(full, "@") /\ Len(pieces) > 2 /\ topic # <<>>
               /\ TN!IsValidPartition(middle) /\ TN!IsValidTopic(topic)
            THEN [partition |-> middle, topic |-> topic] ELSE TN!NoParts
      BY Zenon DEF TN!DecomposeFullyQualifiedTopic, pieces
    <2>5. middle = p /\ topic = t
      BY <1>4, <1>5
    <2> HIDE DEF middle, topic
    <2>6. QED
      BY <1>1, <2>1, <2>2, <2>3, <2>4, <2>5
  <1>7. [partition |-> p, topic |-> t].topic = t /\ TN!NoParts.topic = <<>>
    BY DEF TN!NoParts
  <1>8. QED
    BY <1>1, <1>6, <1>7

\* What was taken apart makes the same name again, in any namespace.
LEMMA MadeAgain ==
    ASSUME NEW S, "@" \in S, NEW full, NEW p, NEW t, Named(full, p, t, S),
           NEW ns, TN!IsValidNamespace(ns)
    PROVE  TN!FullyQualifiedName(p, ns, t) = full
  <1>1. /\ full = Full(p, t) /\ p \in Seq(S) /\ t \in Seq(S) /\ Len(full) <= MaxNameLength
        /\ TN!IsValidNamespace(p) /\ Rooted(t) /\ TN!IsValidTopic(t) /\ (p = <<>> \/ Rooted(p))
    BY DEF Named
  <1>2. TN!PartitionPart(p) = p
    <2>1. CASE p = <<>>
      BY <2>1 DEF TN!PartitionPart
    <2>2. CASE Rooted(p)
      BY <1>1, <2>2, RootedStays
    <2>3. QED
      BY <1>1, <2>1, <2>2
  <1>3. TN!WithoutBack(t) = t /\ TN!Starts(t, "/")
    BY <1>1, RootedStays
  <1>4. QED
    BY <1>1, <1>2, <1>3 DEF TN!FullyQualifiedName, TN!IsValidPartition, Full

\* The nodes of the partition list it, and no other.
LEMMA ListedThere ==
    ASSUME NEW S, "@" \in S, "/" \in S, NEW full, NEW p, NEW t, Named(full, p, t, S),
           NEW q \in Seq(S), TN!Plain(q)
    PROVE  /\ TN!Lists(q, full) <=> TN!PartitionPart(q) = p
           /\ TN!ListsService(q, full) <=> TN!PartitionPart(q) = p
  <1> DEFINE own == IF p = <<>> THEN <<>> ELSE Tail(p)
  <1>1. /\ full = Full(p, t) /\ p \in Seq(S) /\ t \in Seq(S) /\ Free(p, "@") /\ Free(t, "@")
        /\ (p = <<>> \/ Rooted(p))
    BY DEF Named
  <1>2. q = own <=> TN!PartitionPart(q) = p
    <2>1. CASE p = <<>>
      <3>1. q = <<>> => TN!PartitionPart(q) = <<>>
        BY DEF TN!PartitionPart
      <3>2. q # <<>> => TN!PartitionPart(q) # <<>>
        <4>1. q # <<>> => TN!PartitionPart(q) = <<"/">> \o q /\ <<"/">> \o q # <<>>
          BY PlainPartition, Slashed
        <4>2. QED
          BY <4>1
      <3>3. QED
        BY <2>1, <3>1, <3>2
    <2>2. CASE Rooted(p)
      <3>1. p # <<>> /\ Tail(p) # <<>> /\ p = <<"/">> \o Tail(p)
        BY <1>1, <2>2, RootedStays
      <3>2. CASE q = <<>>
        BY <3>1, <3>2 DEF TN!PartitionPart
      <3>3. CASE q # <<>>
        <4>1. TN!PartitionPart(q) = <<"/">> \o q /\ Tail(<<"/">> \o q) = q
          BY <3>3, PlainPartition, Slashed
        <4>2. QED
          BY <3>1, <4>1
      <3>4. QED
        BY <3>2, <3>3
    <2>3. QED
      BY <1>1, <2>1, <2>2
  <1> HIDE DEF own
  <1>3. TN!Lists(q, full) <=> q = own
    <2>1. /\ TN!DecomposeFullyQualifiedTopic(full) = [partition |-> p, topic |-> t]
          /\ TN!DecomposeFullyQualifiedTopic(full) # TN!NoParts
      BY TakenApart
    <2>2. QED
      BY <2>1 DEF TN!Lists, own
  <1>4. TN!ListsService(q, full) <=> q = own
    <2> DEFINE I == { i \in 1..Len(full) : full[i] = "@" }
               l == Len(p)
    <2>1. l \in Nat /\ Len(t) \in Nat
      BY <1>1
    <2>2. Parted(full, p, t, S)
      BY <1>1, FullIs
    <2>3. /\ Len(full) = l + 2 + Len(t) /\ full[l + 2] = "@"
          /\ \A i \in 1..Len(t) : full[l + 2 + i] = t[i]
      BY <2>2 DEF Parted
    <2> HIDE DEF l
    <2>4. l + 2 \in I /\ \A i \in I : i <= l + 2
      <3>1. l + 2 \in 1..Len(full)
        BY <2>1, <2>3
      <3>2. ASSUME NEW i \in 1..Len(full), full[i] = "@", i > l + 2 PROVE FALSE
        <4>1. i - (l + 2) \in 1..Len(t) /\ l + 2 + (i - (l + 2)) = i
          BY <2>1, <2>3, <3>2
        <4>2. full[i] = t[i - (l + 2)]
          BY <2>3, <4>1
        <4>3. QED
          BY <1>1, <3>2, <4>1, <4>2 DEF Free
      <3>3. \A i \in I : i \in Int
        OBVIOUS
      <3>4. QED
        BY <2>1, <2>3, <3>1, <3>2, <3>3
    <2>5. TN!Max(I) = l + 2
      <3>1. \A i \in I : i \in Int
        OBVIOUS
      <3> HIDE DEF I
      <3>2. \A i \in I : (\A j \in I : i >= j) => i = l + 2
        BY <2>1, <2>4, <3>1
      <3>3. \A j \in I : l + 2 >= j
        BY <2>1, <2>4, <3>1
      <3>4. QED
        BY <2>4, <3>2, <3>3 DEF TN!Max
    <2>6. TN!SelectLastInSeq(full, LAMBDA c : c = "@") = l + 2
      <3>1. I # {}
        BY <2>4
      <3>2. TN!SelectLastInSeq(full, LAMBDA c : c = "@") = IF I # {} THEN TN!Max(I) ELSE 0
        BY DEF TN!SelectLastInSeq
      <3>3. QED
        BY <2>5, <3>1, <3>2
    <2>7. SubSeq(full, 2, (l + 2) - 1) = p
      <3>1. SubSeq(full, 2, l + 1) = p
        BY <1>1, FullSplit DEF l
      <3>2. (l + 2) - 1 = l + 1
        BY <2>1
      <3>3. QED
        BY <3>1, <3>2
    <2>8. QED
      BY <2>6, <2>7 DEF TN!ListsService, own
  <1>5. QED
    BY <1>2, <1>3, <1>4

-----------------------------------------------------------------------------
(* Topics made valid.                                                        *)

CharAt(s, i) == IF i \in 1..Len(s) THEN s[i] ELSE "end"

\* What is made of s from i on, of what is made of it from the next two on.
CleanFrom(s, i, next, overnext) ==
    CASE i > Len(s) -> <<>>
      [] CharAt(s, i) = Blank -> <<LowLine>> \o next
      [] CharAt(s, i) \in {"@", "~"} -> next
      [] \/ CharAt(s, i) = ":" /\ CharAt(s, i + 1) = "="
         \/ CharAt(s, i) = "/" /\ CharAt(s, i + 1) = "/" -> overnext
      [] OTHER -> <<CharAt(s, i)>> \o next

LEMMA NothingLeft ==
    ASSUME NEW s, Len(s) \in Nat, NEW i \in Nat, i > Len(s), NEW a, NEW b
    PROVE  CleanFrom(s, i, a, b) = <<>>
  <1>1. CharAt(s, i) = "end"
    BY DEF CharAt
  <1>2. CharAt(s, i) # Blank /\ CharAt(s, i) \notin {"@", "~"}
    BY <1>1, Zenon DEF Blank
  <1>3. CharAt(s, i) # ":" /\ CharAt(s, i) # "/"
    BY <1>1
  <1>4. QED
    BY <1>2, <1>3, Zenon DEF CleanFrom

LEMMA CleanFromIs ==
    ASSUME NEW S, LowLine \in S, NEW s \in Seq(S), NEW i \in Nat, i >= 1, NEW a \in Seq(S), NEW b \in Seq(S)
    PROVE  /\ CleanFrom(s, i, a, b) \in Seq(S)
           /\ i > Len(s) => CleanFrom(s, i, a, b) = <<>>
           /\ i <= Len(s) /\ Proper(s) => CleanFrom(s, i, a, b) = <<s[i]>> \o a
  <1>1. Len(s) \in Nat
    OBVIOUS
  <1>2. ASSUME i > Len(s) PROVE CleanFrom(s, i, a, b) = <<>>
    BY <1>1, <1>2, NothingLeft
  <1>3. ASSUME i <= Len(s)
        PROVE  /\ CleanFrom(s, i, a, b) \in Seq(S)
               /\ Proper(s) => CleanFrom(s, i, a, b) = <<s[i]>> \o a
    <2>1. CharAt(s, i) = s[i] /\ s[i] \in S /\ i \in 1..Len(s) /\ ~(i > Len(s))
      BY <1>1, <1>3 DEF CharAt
    <2>2. <<LowLine>> \o a \in Seq(S) /\ <<s[i]>> \o a \in Seq(S)
      BY <2>1
    <2>3. CleanFrom(s, i, a, b) \in {<<LowLine>> \o a, a, b, <<s[i]>> \o a}
      BY <2>1, Zenon DEF CleanFrom
    <2>4. CleanFrom(s, i, a, b) \in Seq(S)
      BY <2>2, <2>3
    <2>5. ASSUME Proper(s) PROVE CleanFrom(s, i, a, b) = <<s[i]>> \o a
      <3>1. s[i] \notin {"~", Blank, "@"}
        BY <2>1, <2>5 DEF Proper
      <3>2. ~(\/ s[i] = ":" /\ CharAt(s, i + 1) = "="
              \/ s[i] = "/" /\ CharAt(s, i + 1) = "/")
        <4>1. CASE i = Len(s)
          <5>1. CharAt(s, i + 1) = "end"
            BY <1>1, <4>1 DEF CharAt
          <5>2. QED
            BY <5>1
        <4>2. CASE i # Len(s)
          <5>1. i \in 1..Len(s) - 1 /\ CharAt(s, i + 1) = s[i + 1]
            BY <1>1, <2>1, <4>2 DEF CharAt
          <5>2. ~Clash(s[i], s[i + 1])
            BY <2>5, <5>1 DEF Proper
          <5>3. QED
            BY <5>1, <5>2 DEF Clash
        <4>3. QED
          BY <4>1, <4>2
      <3>3. QED
        BY <2>1, <3>1, <3>2 DEF CleanFrom
    <2>6. QED
      BY <2>4, <2>5
  <1>4. CASE i > Len(s)
    <2>1. ~(i <= Len(s)) /\ CleanFrom(s, i, a, b) \in Seq(S)
      BY <1>1, <1>2, <1>4
    <2>2. QED
      BY <1>2, <2>1
  <1>5. CASE i <= Len(s)
    BY <1>1, <1>3, <1>5
  <1>6. QED
    BY <1>1, <1>4, <1>5

Cleaning(f, s, S) ==
    /\ \A i \in 1..Len(s) + 2 : f[i] \in Seq(S)
    /\ \A i \in 1..Len(s) : f[i] = CleanFrom(s, i, f[i + 1], f[i + 2])
    /\ f[Len(s) + 1] = <<>>
    /\ TN!AsValidTopic(s) = IF TN!IsValidTopic(f[1]) THEN f[1] ELSE <<>>

LEMMA Cleaned ==
    ASSUME NEW S, LowLine \in S, NEW s \in Seq(S)
    PROVE  \E f : Cleaning(f, s, S)
  <1> DEFINE Clean(f) == f = [i \in 1..Len(s) + 2 |-> CleanFrom(s, i, f[i + 1], f[i + 2])]
             n == Len(s)
             Q == Seq(S)
             T == Q \X Q
             first == <<<<>>, <<>>>>
             next == [k \in 1..n + 1 |-> [t \in T |->
                         <<CleanFrom(s, n + 2 - k, t[1], t[2]), t[1]>>]]
  <1>1. n \in Nat /\ n + 1 \in Nat
    OBVIOUS
  <1>2. <<>> \in Q
    OBVIOUS
  <1>3. ASSUME NEW i \in Nat, i >= 1, NEW a \in Q, NEW b \in Q
        PROVE  CleanFrom(s, i, a, b) \in Q /\ (i > n => CleanFrom(s, i, a, b) = <<>>)
    BY <1>3, CleanFromIs
  <1> HIDE DEF Q, n
  <1>4. ASSUME NEW k \in 1..n + 1, NEW t \in T
        PROVE  <<CleanFrom(s, n + 2 - k, t[1], t[2]), t[1]>> \in T
    <2>1. n + 2 - k \in Nat /\ n + 2 - k >= 1 /\ t[1] \in Q /\ t[2] \in Q
      BY <1>1
    <2>2. CleanFrom(s, n + 2 - k, t[1], t[2]) \in Q
      BY <1>3, <2>1
    <2>3. QED
      BY <2>1, <2>2
  <1>5. first \in T
    BY <1>2
  <1>6. /\ Stepping(next, n + 1, T)
        /\ \A k \in 1..n + 1, t \in T : next[k][t] = <<CleanFrom(s, n + 2 - k, t[1], t[2]), t[1]>>
    <2> HIDE DEF T
    <2> QED
      BY <1>4 DEF Stepping
  <1> HIDE DEF next, first
  <1>7. PICK g : /\ g \in [0..n + 1 -> T] /\ g[0] = first
                 /\ \A k \in 1..n + 1 : g[k] = next[k][g[k - 1]]
    <2> HIDE DEF T
    <2>1. \E f : Follows(f, n + 1, T, first, next)
      BY <1>1, <1>5, <1>6, Recursion
    <2>2. QED
      BY <2>1 DEF Follows
  <1>8. ASSUME NEW k \in 1..n + 1
        PROVE  /\ g[k - 1] \in T /\ g[k - 1][1] \in Q /\ g[k - 1][2] \in Q
               /\ g[k][1] = CleanFrom(s, n + 2 - k, g[k - 1][1], g[k - 1][2])
               /\ g[k][2] = g[k - 1][1]
    <2>1. k - 1 \in 0..n + 1
      BY <1>1
    <2>2. g[k - 1] \in T
      BY <1>7, <2>1
    <2>3. g[k] = <<CleanFrom(s, n + 2 - k, g[k - 1][1], g[k - 1][2]), g[k - 1][1]>>
      BY <1>6, <1>7, <2>2
    <2>4. QED
      BY <2>2, <2>3
  <1> DEFINE a == [i \in 1..n + 2 |-> g[n + 2 - i][1]]
  <1>9. ASSUME NEW i \in 1..n + 2 PROVE a[i] = g[n + 2 - i][1] /\ a[i] \in Q
    <2>1. n + 2 - i \in 0..n + 1
      BY <1>1
    <2>2. g[n + 2 - i] \in T
      BY <1>7, <2>1
    <2>3. QED
      BY <2>2
  <1>10. a = [i \in 1..n + 2 |-> a[i]]
    OBVIOUS
  <1> HIDE DEF a, T
  <1>11. ASSUME NEW i \in 1..n + 2 PROVE a[i] = CleanFrom(s, i, a[i + 1], a[i + 2])
    <2>1. CASE i <= n
      <3> DEFINE k == n + 2 - i
      <3>1. /\ k \in 1..n + 1 /\ k - 1 \in 1..n + 1 /\ n + 2 - k = i
            /\ i + 1 \in 1..n + 2 /\ i + 2 \in 1..n + 2
            /\ n + 2 - (i + 1) = k - 1 /\ n + 2 - (i + 2) = (k - 1) - 1
        BY <1>1, <2>1
      <3>2. a[i] = g[k][1] /\ a[i + 1] = g[k - 1][1] /\ a[i + 2] = g[(k - 1) - 1][1]
        BY <1>9, <3>1
      <3> HIDE DEF k
      <3>3. g[k - 1][2] = g[(k - 1) - 1][1]
        BY <1>8, <3>1
      <3>4. g[k][1] = CleanFrom(s, i, g[k - 1][1], g[k - 1][2])
        BY <1>8, <3>1
      <3>5. QED
        BY <3>2, <3>3, <3>4
    <2>2. CASE i > n
      <3>1. i = n + 1 \/ i = n + 2
        BY <1>1, <2>2
      <3>2. a[n + 2] = <<>>
        <4>1. a[n + 2] = g[0][1]
          <5>1. n + 2 \in 1..n + 2 /\ n + 2 - (n + 2) = 0
            BY <1>1
          <5>2. QED
            BY <1>9, <5>1
        <4>2. QED
          BY <1>7, <4>1 DEF first
      <3>3. a[n + 1] = <<>>
        <4>1. n + 1 \in 1..n + 2 /\ n + 2 - (n + 1) = 1 /\ 1 \in 1..n + 1 /\ 1 - 1 = 0
          BY <1>1
        <4>2. a[n + 1] = g[1][1]
          BY <1>9, <4>1
        <4>3. g[1][1] = CleanFrom(s, n + 1, g[0][1], g[0][2]) /\ g[0][1] \in Q /\ g[0][2] \in Q
          <5>1. n + 2 - 1 = n + 1
            BY <1>1
          <5>2. QED
            BY <1>8, <4>1, <5>1
        <4>4. n + 1 >= 1 /\ n + 1 > n
          BY <1>1
        <4>5. QED
          BY <1>1, <1>3, <4>2, <4>3, <4>4
      <3>4. CleanFrom(s, i, a[i + 1], a[i + 2]) = <<>>
        <4>1. Len(s) \in Nat /\ i \in Nat /\ i > Len(s)
          BY <1>1, <2>2 DEF n
        <4>2. QED
          BY <4>1, NothingLeft
      <3>5. QED
        BY <3>1, <3>2, <3>3, <3>4
    <2>3. QED
      BY <1>1, <2>1, <2>2
  <1>12. Clean(a)
    <2>1. a = [i \in 1..n + 2 |-> CleanFrom(s, i, a[i + 1], a[i + 2])]
      BY <1>10, <1>11
    <2>2. QED
      BY <2>1 DEF n
  <1> DEFINE h == CHOOSE f : Clean(f)
  <1>13. Clean(h)
    <2> HIDE DEF Clean
    <2>1. QED
      BY <1>12
  <1>14. TN!AsValidTopic(s) = IF TN!IsValidTopic(h[1]) THEN h[1] ELSE <<>>
    BY Zenon DEF TN!AsValidTopic, CleanFrom, CharAt, Blank, LowLine
  <1> HIDE DEF h
  <1>15. \A i \in 1..n + 2 : h[i] = CleanFrom(s, i, h[i + 1], h[i + 2])
    BY <1>13 DEF n
  <1> HIDE DEF Clean
  <1>16. h[n + 2] = <<>> /\ h[n + 1] = <<>>
    <2>1. n + 1 \in 1..n + 2 /\ n + 2 \in 1..n + 2 /\ n + 1 > n /\ n + 2 > n
      BY <1>1
    <2>2. ASSUME NEW i \in 1..n + 2, i > n PROVE CleanFrom(s, i, h[i + 1], h[i + 2]) = <<>>
      <3>1. Len(s) \in Nat /\ i \in Nat /\ i > Len(s)
        BY <1>1, <2>2 DEF n
      <3>2. QED
        BY <3>1, NothingLeft
    <2>3. QED
      BY <1>15, <2>1, <2>2
  <1>17. \A i \in 1..n + 2 : h[i] \in Q
    <2> DEFINE Good == { k \in 0..n + 1 : h[n + 2 - k] \in Q /\ (k >= 1 => h[n + 3 - k] \in Q) }
    <2>1. 0 \in Good
      <3>1. n + 2 - 0 = n + 2
        BY <1>1
      <3>2. QED
        BY <1>1, <1>2, <1>16, <3>1
    <2>2. ASSUME NEW k \in 1..n + 1, k - 1 \in Good PROVE k \in Good
      <3> DEFINE i == n + 2 - k
      <3>1. /\ i \in 1..n + 2 /\ i \in Nat /\ i >= 1 /\ n + 2 - (k - 1) = i + 1 /\ n + 3 - (k - 1) = i + 2
            /\ n + 3 - k = i + 1 /\ k >= 1 /\ k \in 0..n + 1
        BY <1>1
      <3>2. h[i + 1] \in Q /\ (k - 1 >= 1 => h[i + 2] \in Q)
        BY <2>2, <3>1
      <3> HIDE DEF i
      <3>3. h[i] \in Q
        <4>1. CASE k = 1
          <5>1. i = n + 1
            BY <1>1, <3>1, <4>1
          <5>2. QED
            BY <1>2, <1>16, <5>1
        <4>2. CASE k # 1
          <5>1. h[i + 2] \in Q
            BY <3>1, <3>2, <4>2
          <5>2. QED
            BY <1>3, <1>15, <3>1, <3>2, <5>1
        <4>3. QED
          BY <4>1, <4>2
      <3>4. QED
        BY <3>1, <3>2, <3>3 DEF i
    <2> HIDE DEF Good
    <2>3. 0..n + 1 \subseteq Good
      BY <1>1, <2>1, <2>2, UpTo
    <2>4. SUFFICES ASSUME NEW i \in 1..n + 2 PROVE h[i] \in Q
      OBVIOUS
    <2>5. n + 2 - i \in 0..n + 1 /\ n + 2 - (n + 2 - i) = i
      BY <1>1
    <2>6. QED
      BY <2>3, <2>5 DEF Good
  <1>18. \A i \in 1..n : i \in 1..n + 2
    BY <1>1
  <1>19. Cleaning(h, s, S)
    BY <1>14, <1>15, <1>16, <1>17, <1>18 DEF Cleaning, Q, n
  <1>20. QED
    BY <1>19

LEMMA AsValidTopicIs ==
    ASSUME NEW S, LowLine \in S, NEW s \in Seq(S)
    PROVE  /\ TN!AsValidTopic(s) \in Seq(S)
           /\ TN!AsValidTopic(s) = <<>> \/ TN!IsValidTopic(TN!AsValidTopic(s))
           /\ TN!IsValidTopic(s) => TN!AsValidTopic(s) = s
  <1> DEFINE n == Len(s)
             W(i) == SubSeq(s, i + 1, n)
  <1>0. n \in Nat
    OBVIOUS
  <1>1. PICK f : Cleaning(f, s, S)
    BY Cleaned
  <1>2. /\ n \in Nat
        /\ \A i \in 1..n + 2 : f[i] \in Seq(S)
        /\ \A i \in 1..n : f[i] = CleanFrom(s, i, f[i + 1], f[i + 2])
        /\ f[n + 1] = <<>>
        /\ TN!AsValidTopic(s) = IF TN!IsValidTopic(f[1]) THEN f[1] ELSE <<>>
    BY <1>1 DEF Cleaning
  <1>3. 1 \in 1..n + 2
    BY <1>0
  <1>4. TN!AsValidTopic(s) \in Seq(S)
    <2>1. f[1] \in Seq(S)
      BY <1>2, <1>3
    <2>2. QED
      BY <1>2, <2>1
  <1>5. TN!AsValidTopic(s) = <<>> \/ TN!IsValidTopic(TN!AsValidTopic(s))
    BY <1>2
  <1>6. ASSUME TN!IsValidTopic(s) PROVE TN!AsValidTopic(s) = s
    <2>1. Proper(s)
      BY <1>6, ValidIs DEF TN!IsValidTopic
    <2>2. \A i \in 1..n : f[i] = <<s[i]>> \o f[i + 1]
      <3>1. SUFFICES ASSUME NEW i \in 1..n PROVE f[i] = <<s[i]>> \o f[i + 1]
        OBVIOUS
      <3>2. /\ i \in Nat /\ i >= 1 /\ i <= Len(s) /\ i + 1 \in 1..n + 2 /\ i + 2 \in 1..n + 2
        BY <1>0
      <3>3. f[i + 1] \in Seq(S) /\ f[i + 2] \in Seq(S)
        BY <1>2, <3>2
      <3>4. CleanFrom(s, i, f[i + 1], f[i + 2]) = <<s[i]>> \o f[i + 1]
        BY <2>1, <3>2, <3>3, CleanFromIs
      <3>5. QED
        BY <1>2, <3>4
    <2> DEFINE Rest(u, i) == /\ u \in Seq(S) /\ Len(u) = n + 1 - i
                             /\ \A k \in 1..n + 1 - i : u[k] = s[(i - 1) + k]
               Good == { k \in 0..n : Rest(f[n + 1 - k], n + 1 - k) }
    <2>3. 0 \in Good
      <3>1. n + 1 - 0 = n + 1 /\ n + 1 - (n + 1) = 0
        BY <1>0
      <3>2. <<>> \in Seq(S) /\ Len(<<>>) = 0 /\ 1..0 = {}
        OBVIOUS
      <3>3. Rest(f[n + 1], n + 1)
        BY <1>2, <3>1, <3>2
      <3>4. QED
        BY <1>2, <3>1, <3>3
    <2>4. ASSUME NEW k \in 1..n, k - 1 \in Good PROVE k \in Good
      <3> DEFINE i == n + 1 - k
      <3>1. i \in 1..n /\ i + 1 \in 1..n + 2 /\ n + 1 - (k - 1) = i + 1 /\ k \in 0..n /\ n + 1 - k = i
        BY <1>0
      <3>2. Rest(f[i + 1], i + 1)
        BY <2>4, <3>1
      <3> HIDE DEF i
      <3> DEFINE b == f[i + 1]
                 d == <<s[i]>>
                 u == d \o b
      <3>3. s[i] \in S /\ d \in Seq(S) /\ Len(d) = 1 /\ d[1] = s[i] /\ b \in Seq(S)
        BY <1>2, <3>1, <3>2
      <3>4. f[i] = u
        BY <2>2, <3>1
      <3> HIDE DEF b, d
      <3>5. Appends(u, d, b, S)
        BY <3>3, Concatenated
      <3> HIDE DEF u
      <3>6. u \in Seq(S) /\ Len(u) = 1 + Len(b) /\ u[1] = s[i] /\ \A x \in 1..Len(b) : u[1 + x] = b[x]
        <4>1. 1 \in 1..Len(d)
          BY <3>3
        <4>2. QED
          BY <3>3, <3>5, <4>1 DEF Appends
      <3>7. /\ Len(b) = n + 1 - (i + 1)
            /\ \A x \in 1..n + 1 - (i + 1) : b[x] = s[((i + 1) - 1) + x]
        BY <3>2 DEF b
      <3>8. Len(u) = n + 1 - i
        BY <1>0, <3>1, <3>6, <3>7
      <3>9. ASSUME NEW x \in 1..n + 1 - i PROVE u[x] = s[(i - 1) + x]
        <4>1. CASE x = 1
          <5>1. (i - 1) + x = i
            BY <3>1, <4>1
          <5>2. QED
            BY <3>6, <4>1, <5>1
        <4>2. CASE x # 1
          <5>1. /\ x - 1 \in 1..n + 1 - (i + 1) /\ 1 + (x - 1) = x
                /\ ((i + 1) - 1) + (x - 1) = (i - 1) + x
            BY <1>0, <3>1, <4>2
          <5>2. u[x] = b[x - 1]
            BY <3>6, <3>7, <5>1
          <5>3. QED
            BY <3>7, <5>1, <5>2
        <4>3. QED
          BY <4>1, <4>2
      <3>10. Rest(f[i], i)
        BY <3>4, <3>6, <3>8, <3>9
      <3> HIDE DEF Rest
      <3>11. QED
        BY <3>1, <3>10
    <2> HIDE DEF Good
    <2>5. 0..n \subseteq Good
      BY <1>0, <2>3, <2>4, UpTo
    <2>6. n \in Good
      BY <1>0, <2>5
    <2>7. Rest(f[1], 1)
      <3>1. n + 1 - n = 1
        BY <1>0
      <3>2. QED
        BY <2>6, <3>1 DEF Good
    <2>8. f[1] = s
      <3>1. n + 1 - 1 = n /\ \A k \in 1..n : (1 - 1) + k = k
        BY <1>0
      <3>2. f[1] \in Seq(S) /\ Len(f[1]) = Len(s) /\ \A k \in 1..Len(s) : f[1][k] = s[k]
        BY <2>7, <3>1
      <3>3. QED
        BY <3>2, SeqEqual
    <2>9. QED
      BY <1>2, <1>6, <2>8
  <1>7. QED
    BY <1>4, <1>5, <1>6

-----------------------------------------------------------------------------
(* Liveliness tokens.                                                        *)

\* A name whose slashes are percent signs, which can be undone if it had none.
Mangles(m, s, S) ==
    /\ m \in Seq(S) /\ Free(m, "/") /\ (s # <<>> => m # <<>>)
    /\ Free(s, "%") => TN!DemangleName(m) = s

LEMMA Mangled ==
    ASSUME NEW S, "%" \in S, NEW s \in Seq(S)
    PROVE  Mangles(TN!MangleName(s), s, S)
  <1> DEFINE n == Len(s)
             m == [i \in 1..n |-> IF s[i] = "/" THEN "%" ELSE s[i]]
             d == [i \in 1..Len(m) |-> IF m[i] = "%" THEN "/" ELSE m[i]]
  <1>1. n \in Nat /\ \A i \in 1..n : s[i] \in S
    OBVIOUS
  <1>2. TN!MangleName(s) = m
    BY DEF TN!MangleName, TN!ReplaceAll
  <1>3. TN!DemangleName(m) = d
    BY DEF TN!DemangleName, TN!ReplaceAll
  <1>4. \A i \in 1..n : m[i] = IF s[i] = "/" THEN "%" ELSE s[i]
    OBVIOUS
  <1>5. m \in Seq(S) /\ Len(m) = n
    BY <1>1
  <1>6. d = [i \in 1..n |-> IF m[i] = "%" THEN "/" ELSE m[i]]
    BY <1>5
  <1> HIDE DEF m, d
  <1>7. Free(m, "/")
    BY <1>4, <1>5 DEF Free
  <1>8. s # <<>> => m # <<>>
    BY <1>1, <1>5
  <1>9. ASSUME Free(s, "%") PROVE d = s
    <2>1. \A i \in 1..n : s[i] # "%"
      BY <1>9 DEF Free
    <2>2. \A i \in 1..n : (IF m[i] = "%" THEN "/" ELSE m[i]) = s[i]
      BY <1>4, <2>1
    <2>3. d = [i \in 1..n |-> s[i]]
      BY <1>6, <2>2
    <2>4. s = [i \in 1..n |-> s[i]]
      BY SeqDef
    <2>5. QED
      BY <2>3, <2>4
  <1>10. Mangles(m, s, S)
    BY <1>3, <1>5, <1>7, <1>8, <1>9 DEF Mangles
  <1>11. QED
    BY <1>2, <1>10

\* The types of a message or a service, none of which has a slash.
TypeNames(types, S) ==
    /\ types \in Seq(Seq(S))
    /\ \A k \in 1..Len(types) : Free(types[k], "/")

LEMMA TypesSurvive ==
    ASSUME NEW S, "&" \in S, NEW types, TypeNames(types, S),
           Len(types) = 1 \/ TN!TypeField(types) # <<>>
    PROVE  /\ TN!TypeField(types) \in Seq(S) /\ Free(TN!TypeField(types), "/")
           /\ TN!TypeParts(TN!TypeField(types), Len(types)) = types
           /\ types # <<>>
  <1> DEFINE m == Len(types)
             field == TN!TypeField(types)
             Q == Seq(S)
  <1>1. types \in Seq(Q) /\ m \in Nat /\ \A k \in 1..m : Free(types[k], "/")
    <2>1. types \in Seq(Seq(S)) /\ \A k \in 1..Len(types) : Free(types[k], "/")
      BY DEF TypeNames
    <2>2. QED
      BY <2>1
  <1> HIDE DEF Q
  <1>2. types # <<>>
    <2>1. types = <<>> => Len(types) = 0
      OBVIOUS
    <2>2. types = <<>> => TN!TypeField(types) = <<>>
      BY <2>1 DEF TN!TypeField, TN!MangleType
    <2>3. QED
      BY <2>1, <2>2
  <1>3. m # 0
    BY <1>1, <1>2
  <1>4. CASE m = 1
    <2>1. field = types[1]
      BY <1>4 DEF TN!TypeField
    <2>2. types[1] \in Q /\ 1 \in 1..m
      BY <1>1, <1>4
    <2>3. types = <<types[1]>>
      BY <1>1, <1>4
    <2>4. TN!TypeParts(field, m) = <<types[1]>>
      BY <1>4, <2>1 DEF TN!TypeParts
    <2>5. QED
      BY <1>1, <1>2, <2>1, <2>2, <2>3, <2>4 DEF Q
  <1>5. CASE m # 1
    <2>1. field = TN!MangleType(types)
      BY <1>5 DEF TN!TypeField
    <2>2. /\ field = TN!Join(types, "&")
          /\ ~\E t \in TN!ToSet(types) : t = <<>> \/ TN!Contains(t, "&")
      BY <1>5, <2>1 DEF TN!MangleType
    <2>3. ASSUME NEW k \in 1..m PROVE types[k] # <<>> /\ Free(types[k], "&")
      <3>1. types[k] \in TN!ToSet(types)
        <4>1. k \in DOMAIN types
          BY <1>1
        <4>2. QED
          BY <4>1 DEF TN!ToSet
      <3>2. types[k] # <<>> /\ ~TN!Contains(types[k], "&")
        BY <2>2, <3>1
      <3>3. QED
        BY <3>2 DEF TN!Contains, Free
    <2>4. Texts(types, m, S)
      BY <1>1, <1>3 DEF Texts, Q
    <2> HIDE DEF m
    <2>5. TN!Join(types, "&") \in Seq(S) /\ Free(TN!Join(types, "&"), "/")
      <3>1. "/" # "&"
        OBVIOUS
      <3>2. QED
        BY <1>1, <2>4, <3>1, JoinedIs
    <2>6. TN!Split(TN!Join(types, "&"), "&") = types
      BY <2>3, <2>4, SplitJoined
    <2>7. TN!DemangleType(field) = types
      <3>1. ~\E t \in TN!ToSet(types) : t = <<>>
        BY <2>2
      <3>2. QED
        BY <2>2, <2>6, <3>1 DEF TN!DemangleType
    <2>8. TN!TypeParts(field, m) = types
      BY <1>5, <2>7 DEF TN!TypeParts, m
    <2>9. QED
      BY <1>2, <2>2, <2>5, <2>8 DEF m
  <1>6. QED
    BY <1>4, <1>5

Charset(S) == {"@", "/", "%", "&", LowLine, "g", "z", "p", "n", "M", "P"} \subseteq S

\* The fields of a token.
Fields(p, t, field) ==
    <<TN!Prefix, TN!MangleName(p), TN!ProcUuid, TN!NodeUuid, TN!NodeUuid, TN!Kind,
      TN!Unused, TN!Unused, TN!Unused, TN!MangleName(t), field, TN!Unused, TN!Unused>>

\* What another process understands.
Entity(p, t, types) ==
    [partition |-> p, topic |-> t, pUuid |-> TN!ProcUuid, nUuid |-> TN!NodeUuid,
     kind |-> TN!Kind, types |-> types]

\* The head of a token and its tail, laid together.
LEMMA Laid ==
    ASSUME NEW a1, NEW a2, NEW a3, NEW a4, NEW a5, NEW a6, NEW a7, NEW a8, NEW a9, NEW a10,
           NEW a11, NEW a12, NEW a13
    PROVE  <<a1, a2, a3, a4, a5, a6, a7, a8, a9, a10>> \o <<a11, a12, a13>>
             = <<a1, a2, a3, a4, a5, a6, a7, a8, a9, a10, a11, a12, a13>>
  <1> DEFINE A == {a1, a2, a3, a4, a5, a6, a7, a8, a9, a10, a11, a12, a13}
             a == <<a1, a2, a3, a4, a5, a6, a7, a8, a9, a10>>
             b == <<a11, a12, a13>>
             c == <<a1, a2, a3, a4, a5, a6, a7, a8, a9, a10, a11, a12, a13>>
  <1>0. /\ a1 \in A /\ a2 \in A /\ a3 \in A /\ a4 \in A /\ a5 \in A /\ a6 \in A /\ a7 \in A
        /\ a8 \in A /\ a9 \in A /\ a10 \in A /\ a11 \in A /\ a12 \in A /\ a13 \in A
    OBVIOUS
  <1> HIDE DEF A
  <1>1. /\ a \in Seq(A) /\ Len(a) = 10
        /\ a[1] = a1 /\ a[2] = a2 /\ a[3] = a3 /\ a[4] = a4 /\ a[5] = a5
        /\ a[6] = a6 /\ a[7] = a7 /\ a[8] = a8 /\ a[9] = a9 /\ a[10] = a10
    BY <1>0
  <1>2. /\ b \in Seq(A) /\ Len(b) = 3 /\ b[1] = a11 /\ b[2] = a12 /\ b[3] = a13
    BY <1>0
  <1>3. /\ c \in Seq(A) /\ Len(c) = 13
        /\ c[1] = a1 /\ c[2] = a2 /\ c[3] = a3 /\ c[4] = a4 /\ c[5] = a5
        /\ c[6] = a6 /\ c[7] = a7 /\ c[8] = a8 /\ c[9] = a9 /\ c[10] = a10
        /\ c[11] = a11 /\ c[12] = a12 /\ c[13] = a13
    BY <1>0
  <1> HIDE DEF a, b, c
  <1> DEFINE d == a \o b
  <1>4. /\ d \in Seq(A) /\ Len(d) = Len(a) + Len(b)
        /\ \A i \in 1..Len(a) : d[i] = a[i]
        /\ \A i \in 1..Len(b) : d[Len(a) + i] = b[i]
    <2>1. a \in Seq(A) /\ b \in Seq(A)
      BY <1>1, <1>2
    <2>2. QED
      BY <2>1, ConcatProperties
  <1> HIDE DEF d
  <1>5. Len(d) = 13
    BY <1>1, <1>2, <1>4
  <1>6. ASSUME NEW i \in 1..13 PROVE d[i] = c[i]
    <2>1. CASE i <= 10
      <3>1. i \in 1..Len(a) /\ \/ i = 1 \/ i = 2 \/ i = 3 \/ i = 4 \/ i = 5
                               \/ i = 6 \/ i = 7 \/ i = 8 \/ i = 9 \/ i = 10
        BY <1>1, <2>1
      <3>2. a[i] = c[i]
        BY <1>1, <1>3, <3>1
      <3>3. QED
        BY <1>4, <3>1, <3>2
    <2>2. CASE i > 10
      <3>1. /\ i - 10 \in 1..Len(b) /\ Len(a) + (i - 10) = i
            /\ i = 11 \/ i = 12 \/ i = 13
        <4>1. i - 10 \in 1..3 /\ 10 + (i - 10) = i /\ (i = 11 \/ i = 12 \/ i = 13)
          BY <2>2
        <4>2. Len(a) = 10 /\ Len(b) = 3
          BY <1>1, <1>2
        <4>3. QED
          BY <4>1, <4>2
      <3>2. b[i - 10] = c[i]
        <4>0. i = 11 \/ i = 12 \/ i = 13
          BY <3>1
        <4>1. (i = 11 /\ i - 10 = 1) \/ (i = 12 /\ i - 10 = 2) \/ (i = 13 /\ i - 10 = 3)
          BY <4>0
        <4>2. b[1] = c[11] /\ b[2] = c[12] /\ b[3] = c[13]
          BY <1>2, <1>3
        <4>3. QED
          BY <4>1, <4>2
      <3>3. QED
        BY <1>4, <3>1, <3>2
    <2>3. QED
      BY <2>1, <2>2
  <1>7. d = c
    <2>1. Len(d) = Len(c) /\ \A i \in 1..Len(d) : d[i] = c[i]
      BY <1>3, <1>5, <1>6
    <2>2. d \in Seq(A) /\ c \in Seq(A)
      BY <1>3, <1>4
    <2>3. QED
      BY <2>1, <2>2, SeqEqual
  <1>8. QED
    BY <1>7 DEF a, b, c, d

LEMMA FieldsAreTexts ==
    ASSUME NEW S, Charset(S), NEW p \in Seq(S), NEW t \in Seq(S), NEW field \in Seq(S), Free(field, "/")
    PROVE  /\ Texts(Fields(p, t, field), 13, S)
           /\ \A k \in 1..13 : Free(Fields(p, t, field)[k], "/")
  <1> DEFINE Q == Seq(S)
             Good == { s \in Q : Free(s, "/") }
             f == Fields(p, t, field)
  <1>1. TN!Prefix \in Good /\ TN!ProcUuid \in Good /\ TN!NodeUuid \in Good /\ TN!Kind \in Good
        /\ TN!Unused \in Good
    <2>1. <<"@", "g", "z">> \in Q /\ <<"p">> \in Q /\ <<"n">> \in Q /\ <<"M", "P">> \in Q /\ <<"%">> \in Q
      BY DEF Charset
    <2>2. /\ Free(<<"@", "g", "z">>, "/") /\ Free(<<"p">>, "/") /\ Free(<<"n">>, "/")
          /\ Free(<<"M", "P">>, "/") /\ Free(<<"%">>, "/")
      BY DEF Free
    <2>3. QED
      BY <2>1, <2>2 DEF TN!Prefix, TN!ProcUuid, TN!NodeUuid, TN!Kind, TN!Unused
  <1>2. "%" \in S
    BY DEF Charset
  <1>3. TN!MangleName(p) \in Good /\ TN!MangleName(t) \in Good
    <2>1. Mangles(TN!MangleName(p), p, S) /\ Mangles(TN!MangleName(t), t, S)
      BY <1>2, Mangled
    <2>2. QED
      BY <2>1 DEF Mangles
  <1>4. field \in Good
    OBVIOUS
  <1> HIDE DEF Good
  <1> DEFINE mp == TN!MangleName(p)
             mt == TN!MangleName(t)
             pre == TN!Prefix
             proc == TN!ProcUuid
             node == TN!NodeUuid
             sort == TN!Kind
             un == TN!Unused
  <1>5. f \in Seq(Good) /\ Len(f) = 13
    <2>1. f = <<pre, mp, proc, node, node, sort, un, un, un, mt, field, un, un>>
      BY DEF Fields
    <2>2. /\ pre \in Good /\ mp \in Good /\ proc \in Good /\ node \in Good /\ sort \in Good
          /\ un \in Good /\ mt \in Good /\ field \in Good
      BY <1>1, <1>3, <1>4
    <2> HIDE DEF f, pre, mp, proc, node, sort, un, mt
    <2>3. QED
      BY <2>1, <2>2
  <1> HIDE DEF f
  <1>6. \A k \in 1..13 : f[k] \in Good
    BY <1>5, ElementOfSeq
  <1>7. f \in Seq(Q)
    <2>1. Good \subseteq Q
      BY DEF Good
    <2> HIDE DEF Q
    <2>2. QED
      BY <1>5, <2>1, SeqMonotonic
  <1>8. Texts(f, 13, S)
    BY <1>5, <1>7 DEF Texts
  <1>9. QED
    BY <1>6, <1>8 DEF Good, f

\* The token of a full name is understood as its parts and types.
LEMMA TokenUnderstood ==
    ASSUME NEW S, Charset(S), MaxNameLength \in Nat,
           NEW full, NEW p, NEW t, Named(full, p, t, S), p # <<>>, Free(full, "%"),
           NEW types, TypeNames(types, S), TN!CreateLivelinessToken(full, types) # <<>>
    PROVE  TN!DecomposeLivelinessToken(TN!CreateLivelinessToken(full, types), Len(types))
               = Entity(p, t, types)
  <1> DEFINE field == TN!TypeField(types)
             f == Fields(p, t, field)
             s == TN!Join(f, "/")
  <1>0. "@" \in S /\ "/" \in S /\ "%" \in S /\ "&" \in S
    BY DEF Charset
  <1>1. /\ full = Full(p, t) /\ p \in Seq(S) /\ t \in Seq(S) /\ Rooted(t)
        /\ TN!IsValidNamespace(p) /\ TN!IsValidTopic(t) /\ t # <<>>
    BY DEF Named, TN!IsValidTopic
  <1>2. /\ TN!DecomposeFullyQualifiedTopic(full) = [partition |-> p, topic |-> t]
        /\ TN!DecomposeFullyQualifiedTopic(full) # TN!NoParts
    BY <1>0, TakenApart
  <1>3. (Len(types) = 1 \/ field # <<>>) /\ TN!CreateLivelinessToken(full, types) = s
    <2>1. Len(types) = 1 \/ field # <<>>
      BY DEF TN!CreateLivelinessToken
    <2> DEFINE a == <<TN!Prefix, TN!MangleName(p), TN!ProcUuid, TN!NodeUuid, TN!NodeUuid,
                      TN!Kind, TN!Unused, TN!Unused, TN!Unused, TN!MangleName(t)>>
    <2>2. TN!CreateLivelinessToken(full, types) = TN!Join(a \o <<field, TN!Unused, TN!Unused>>, "/")
      BY <1>2, <2>1 DEF TN!CreateLivelinessToken
    <2>3. a \o <<field, TN!Unused, TN!Unused>> = f
      <3> DEFINE mp == TN!MangleName(p)
                 mt == TN!MangleName(t)
                 pre == TN!Prefix
                 proc == TN!ProcUuid
                 node == TN!NodeUuid
                 sort == TN!Kind
                 un == TN!Unused
      <3>1. f = <<pre, mp, proc, node, node, sort, un, un, un, mt, field, un, un>>
        BY DEF Fields
      <3>2. a = <<pre, mp, proc, node, node, sort, un, un, un, mt>>
        OBVIOUS
      <3> HIDE DEF pre, mp, proc, node, sort, un, mt, field, a, f
      <3>3. <<pre, mp, proc, node, node, sort, un, un, un, mt>> \o <<field, un, un>>
              = <<pre, mp, proc, node, node, sort, un, un, un, mt, field, un, un>>
        BY Laid
      <3>4. a \o <<field, un, un>> = f
        BY <3>1, <3>2, <3>3, Zenon
      <3>5. QED
        BY <3>4 DEF un
    <2>4. QED
      BY <2>1, <2>2, <2>3
  <1>4. /\ field \in Seq(S) /\ Free(field, "/") /\ TN!TypeParts(field, Len(types)) = types
        /\ types # <<>>
    BY <1>0, <1>3, TypesSurvive
  <1>5. Free(p, "%") /\ Free(t, "%")
    <2>1. Parted(full, p, t, S)
      BY <1>0, <1>1, FullIs
    <2>2. Len(p) \in Nat /\ Len(t) \in Nat
      BY <1>1
    <2>3. /\ Len(full) = Len(p) + 2 + Len(t)
          /\ \A i \in 1..Len(p) : full[1 + i] = p[i]
          /\ \A i \in 1..Len(t) : full[Len(p) + 2 + i] = t[i]
      BY <2>1 DEF Parted
    <2>4. \A i \in 1..Len(p) : 1 + i \in 1..Len(full)
      BY <2>2, <2>3
    <2>5. \A i \in 1..Len(t) : Len(p) + 2 + i \in 1..Len(full)
      BY <2>2, <2>3
    <2>6. QED
      BY <2>3, <2>4, <2>5 DEF Free
  <1>6. TN!DemangleName(TN!MangleName(p)) = p /\ TN!MangleName(p) # <<>>
    <2>1. Mangles(TN!MangleName(p), p, S)
      BY <1>0, <1>1, Mangled
    <2>2. QED
      BY <1>5, <2>1 DEF Mangles
  <1>7. TN!DemangleName(TN!MangleName(t)) = t /\ TN!MangleName(t) # <<>>
    <2>1. Mangles(TN!MangleName(t), t, S)
      BY <1>0, <1>1, Mangled
    <2>2. QED
      BY <1>1, <1>5, <2>1 DEF Mangles
  <1> HIDE DEF field
  <1>8. Texts(f, 13, S) /\ \A k \in 1..13 : Free(f[k], "/")
    BY <1>1, <1>4, FieldsAreTexts
  <1>9. /\ Len(f) = 13 /\ f[1] = TN!Prefix /\ f[2] = TN!MangleName(p) /\ f[3] = TN!ProcUuid
        /\ f[4] = TN!NodeUuid /\ f[5] = TN!NodeUuid /\ f[6] = TN!Kind /\ f[7] = TN!Unused
        /\ f[8] = TN!Unused /\ f[9] = TN!Unused /\ f[10] = TN!MangleName(t) /\ f[11] = field
        /\ f[12] = TN!Unused
    BY DEF Fields
  <1> HIDE DEF f
  <1>10. TN!Split(s, "/") = f
    BY <1>0, <1>8, SplitJoined
  <1>11. TN!Starts(s, "@")
    <2>1. f[1] # <<>> /\ f[1][1] = "@"
      BY <1>9 DEF TN!Prefix
    <2>2. s # <<>> /\ Head(s) = f[1][1]
      <3>1. \A m : Texts(f, m, S) =>
               (f[1] # <<>> => TN!Join(f, "/") # <<>> /\ Head(TN!Join(f, "/")) = f[1][1])
        BY <1>0, JoinedIs
      <3>2. QED
        BY <1>8, <2>1, <3>1
    <2>3. QED
      BY <2>1, <2>2 DEF TN!Starts
  <1>12. ~\E i \in (2..10) \cup {12} : f[i] = <<>>
    <2>1. <<"p">> # <<>> /\ <<"n">> # <<>> /\ <<"M", "P">> # <<>> /\ <<"%">> # <<>>
      OBVIOUS
    <2>2. \A i \in (2..10) \cup {12} : \/ i = 2 \/ i = 3 \/ i = 4 \/ i = 5 \/ i = 6 \/ i = 7
                                      \/ i = 8 \/ i = 9 \/ i = 10 \/ i = 12
      OBVIOUS
    <2>3. /\ f[2] # <<>> /\ f[3] # <<>> /\ f[4] # <<>> /\ f[5] # <<>> /\ f[6] # <<>>
          /\ f[7] # <<>> /\ f[8] # <<>> /\ f[9] # <<>> /\ f[10] # <<>> /\ f[12] # <<>>
      BY <1>6, <1>7, <1>9, <2>1 DEF TN!ProcUuid, TN!NodeUuid, TN!Kind, TN!Unused
    <2>4. QED
      BY <2>2, <2>3
  <1> HIDE DEF s
  <1>13. TN!DecomposeLivelinessToken(s, Len(types)) = Entity(p, t, types)
    BY <1>1, <1>4, <1>6, <1>7, <1>9, <1>10, <1>11, <1>12
       DEF TN!DecomposeLivelinessToken, TN!IsValidPartition, Entity
  <1>14. QED
    BY <1>3, <1>13

-----------------------------------------------------------------------------
(* A name's way.                                                             *)

CharsOf(s) == {s[i] : i \in DOMAIN s}

\* The characters of all there is, and those that the code puts in.
NameChars ==
    {"@", "/", "%", "&", LowLine, "g", "z", "p", "n", "M", "P"}
    \cup (UNION {CharsOf(s) : s \in GivenPartitions \cup GivenNamespaces \cup GivenTopics})
    \cup (UNION {UNION {CharsOf(types[i]) : i \in DOMAIN types} : types \in GivenTypes})

GivenNames ==
    [partition : Seq(NameChars), ns : Seq(NameChars), topic : Seq(NameChars),
     types : { types \in Seq(Seq(NameChars)) : TypeNames(types, NameChars) }]

LEMMA TextIs == ASSUME NEW s, Text(s), NEW S, CharsOf(s) \subseteq S PROVE s \in Seq(S)
  <1>1. s \in Seq(CharsOf(s))
    BY DEF Text, CharsOf
  <1>2. QED
    BY <1>1, SeqMonotonic

LEMMA TextsGiven ==
    /\ Charset(NameChars)
    /\ GivenPartitions \cup GivenNamespaces \cup GivenTopics \subseteq Seq(NameChars)
    /\ \A types \in GivenTypes : TypeNames(types, NameChars)
  <1>1. Charset(NameChars)
    BY DEF Charset, NameChars
  <1>2. ASSUME NEW s \in GivenPartitions \cup GivenNamespaces \cup GivenTopics
        PROVE  s \in Seq(NameChars)
    <2>1. CharsOf(s) \subseteq NameChars /\ Text(s)
      BY NamesAssumption DEF NameChars
    <2>2. QED
      BY <2>1, TextIs
  <1>3. ASSUME NEW types \in GivenTypes PROVE TypeNames(types, NameChars)
    <2>1. Text(types) /\ \A i \in DOMAIN types : Text(types[i]) /\ \A j \in DOMAIN types[i] : types[i][j] # "/"
      BY NamesAssumption
    <2>2. ASSUME NEW i \in DOMAIN types PROVE types[i] \in Seq(NameChars)
      <3> DEFINE U == UNION {CharsOf(types[j]) : j \in DOMAIN types}
      <3>3. CharsOf(types[i]) \subseteq U
        BY Zenon
      <3> DEFINE C == {UNION {CharsOf(ts[j]) : j \in DOMAIN ts} : ts \in GivenTypes}
      <3>4. U \in C
        BY Zenon
      <3> DEFINE A == {"@", "/", "%", "&", LowLine, "g", "z", "p", "n", "M", "P"}
                 B == {CharsOf(s) : s \in GivenPartitions \cup GivenNamespaces \cup GivenTopics}
                 AB == A \cup (UNION B)
                 UC == UNION C
      <3>6. NameChars = AB \cup UC
        BY DEF NameChars
      <3>7. U \subseteq UC
        <4> HIDE DEF U, C
        <4> QED BY <3>4
      <3> HIDE DEF U, C, AB, UC
      <3>5. U \subseteq NameChars
        BY <3>6, <3>7
      <3>1. CharsOf(types[i]) \subseteq NameChars
        BY <3>3, <3>5
      <3>2. QED
        BY <2>1, <3>1, TextIs
    <2> DEFINE Q == Seq(NameChars)
    <2>3. types \in Seq(Q)
      <3>1. CharsOf(types) \subseteq Q
        BY <2>2 DEF CharsOf
      <3> HIDE DEF Q
      <3>2. QED
        BY <2>1, <3>1, TextIs
    <2>4. ASSUME NEW k \in 1..Len(types) PROVE Free(types[k], "/")
      <3>1. k \in DOMAIN types
        <4> HIDE DEF Q
        <4> QED BY <2>3
      <3>2. types[k] \in Seq(NameChars) /\ \A j \in DOMAIN types[k] : types[k][j] # "/"
        BY <2>1, <2>2, <3>1
      <3>3. DOMAIN types[k] = 1..Len(types[k])
        BY <3>2
      <3>4. QED
        BY <3>2, <3>3 DEF Free
    <2>5. QED
      BY <2>3, <2>4 DEF TypeNames
  <1>4. QED
    BY <1>1, <1>2, <1>3

\* What is known of a name at each stage.
NameKept ==
    /\ stage # "start" => given \in GivenNames
    /\ stage = "clean" => given.topic = <<>> \/ TN!IsValidTopic(given.topic)
    /\ stage \in {"qualified", "declared", "understood"} =>
          name = TN!FullyQualifiedName(given.partition, given.ns, given.topic) /\ name # TN!NoName
    /\ stage \in {"declared", "understood"} => token = TN!CreateLivelinessToken(name, given.types)
    /\ stage = "understood" =>
          token # <<>> /\ entity = TN!DecomposeLivelinessToken(token, Len(given.types))

LEMMA NameKeptInit == ASSUME TN!Init PROVE NameKept
  BY DEF TN!Init, NameKept

LEMMA NameKeptNext == ASSUME NameKept, TN!Next PROVE NameKept'
  <1>1. ASSUME NEW p \in GivenPartitions, NEW n \in GivenNamespaces, NEW t \in GivenTopics,
               NEW types \in GivenTypes, TN!Give(p, n, t, types)
        PROVE  NameKept'
    <2>1. given' \in GivenNames
      <3>1. /\ p \in Seq(NameChars) /\ n \in Seq(NameChars) /\ t \in Seq(NameChars)
            /\ TypeNames(types, NameChars)
        BY TextsGiven
      <3>2. types \in Seq(Seq(NameChars))
        BY <3>1 DEF TypeNames
      <3>3. given' = [partition |-> p, ns |-> n, topic |-> t, types |-> types]
        BY <1>1 DEF TN!Give
      <3>4. QED
        BY <3>1, <3>2, <3>3 DEF GivenNames
    <2>2. stage' = "given"
      BY <1>1 DEF TN!Give
    <2>3. QED
      BY <2>1, <2>2 DEF NameKept
  <1>2. CASE TN!Clean
    <2>1. given \in GivenNames
      BY <1>2 DEF TN!Clean, NameKept
    <2>2. stage' = "clean" /\ given' = [given EXCEPT !.topic = TN!AsValidTopic(given.topic)]
      BY <1>2 DEF TN!Clean
    <2>3. given.topic \in Seq(NameChars) /\ LowLine \in NameChars
      BY <2>1 DEF GivenNames, NameChars
    <2>4. /\ TN!AsValidTopic(given.topic) \in Seq(NameChars)
          /\ TN!AsValidTopic(given.topic) = <<>> \/ TN!IsValidTopic(TN!AsValidTopic(given.topic))
      BY <2>3, AsValidTopicIs
    <2>5. given' \in GivenNames /\ given'.topic = TN!AsValidTopic(given.topic)
      BY <2>1, <2>2, <2>4 DEF GivenNames
    <2>6. QED
      BY <2>2, <2>4, <2>5 DEF NameKept
  <1>3. CASE TN!Qualify
    <2>1. /\ stage # "start" /\ given' = given /\ stage' \in {"refused", "qualified"}
          /\ stage' = "qualified" =>
                name' = TN!FullyQualifiedName(given.partition, given.ns, given.topic) /\ name' # TN!NoName
      BY <1>3 DEF TN!Qualify
    <2>2. QED
      BY <2>1 DEF NameKept
  <1>4. CASE TN!Declare
    BY <1>4 DEF TN!Declare, NameKept
  <1>5. CASE TN!Understand
    BY <1>5 DEF TN!Understand, NameKept
  <1>6. QED
    BY <1>1, <1>2, <1>3, <1>4, <1>5 DEF TN!Next

LEMMA NameKeptSuffices == ASSUME NameKept PROVE TN!NamesSurvive /\ TN!TokensSurvive
  <1> DEFINE p == TN!PartitionPart(given.partition)
             t == Long(given.ns, given.topic)
             S == NameChars
  <1>1. Charset(S) /\ "@" \in S /\ "/" \in S /\ LowLine \in S /\ MaxNameLength \in Nat
        /\ GivenPartitions \subseteq Seq(S)
    BY TextsGiven, NamesAssumption DEF Charset
  <1>2. stage # "start" =>
            /\ given.partition \in Seq(S) /\ given.ns \in Seq(S) /\ given.topic \in Seq(S)
            /\ TypeNames(given.types, S)
    BY DEF NameKept, GivenNames
  <1> HIDE DEF S
  <1>3. ASSUME stage \in {"qualified", "declared", "understood"}
        PROVE  /\ Named(name, p, t, S) /\ TN!IsValidNamespace(given.ns)
               /\ given.partition = <<>> <=> p = <<>>
    <2>1. name = TN!FullyQualifiedName(given.partition, given.ns, given.topic) /\ name # TN!NoName
      BY <1>3 DEF NameKept
    <2>2. given.partition \in Seq(S) /\ given.ns \in Seq(S) /\ given.topic \in Seq(S)
      BY <1>2, <1>3
    <2>3. QED
      BY <1>1, <2>1, <2>2, Qualified
  <1> HIDE DEF p, t
  <1>4. ASSUME stage \in {"qualified", "declared", "understood"}
        PROVE  /\ TN!DecomposeFullyQualifiedTopic(name) = [partition |-> p, topic |-> t]
               /\ TN!DecomposeFullyQualifiedTopic(name) # TN!NoParts
               /\ TN!FullyQualifiedName(p, given.ns, t) = name
               /\ \A q \in GivenPartitions : TN!Plain(q) =>
                      /\ TN!Lists(q, name) <=> TN!PartitionPart(q) = p
                      /\ TN!ListsService(q, name) <=> TN!PartitionPart(q) = p
    <2>1. Named(name, p, t, S) /\ TN!IsValidNamespace(given.ns)
      BY <1>3, <1>4
    <2>2. /\ TN!DecomposeFullyQualifiedTopic(name) = [partition |-> p, topic |-> t]
          /\ TN!DecomposeFullyQualifiedTopic(name) # TN!NoParts
      BY <1>1, <2>1, TakenApart
    <2>3. TN!FullyQualifiedName(p, given.ns, t) = name
      BY <1>1, <2>1, MadeAgain
    <2>4. ASSUME NEW q \in GivenPartitions, TN!Plain(q)
          PROVE  /\ TN!Lists(q, name) <=> TN!PartitionPart(q) = p
                 /\ TN!ListsService(q, name) <=> TN!PartitionPart(q) = p
      <3>1. q \in Seq(S)
        BY <1>1
      <3>2. QED
        BY <1>1, <2>1, <2>4, <3>1, ListedThere
    <2>5. QED
      BY <2>2, <2>3, <2>4
  <1>5. stage = "given" /\ TN!IsValidTopic(given.topic) => TN!AsValidTopic(given.topic) = given.topic
    BY <1>1, <1>2, AsValidTopicIs
  <1>6. TN!NamesSurvive
    BY <1>4, <1>5 DEF TN!NamesSurvive, NameKept, p
  <1>7. ASSUME stage = "understood", given.partition # <<>>, ~TN!Contains(name, "%")
        PROVE  /\ entity # TN!NoParts
               /\ TN!FullyQualifiedName(entity.partition, <<>>, entity.topic) = name
               /\ entity.types = given.types
               /\ <<entity.pUuid, entity.nUuid, entity.kind>>
                      = <<TN!ProcUuid, TN!NodeUuid, TN!Kind>>
    <2>1. /\ token # <<>> /\ token = TN!CreateLivelinessToken(name, given.types)
          /\ entity = TN!DecomposeLivelinessToken(token, Len(given.types))
      BY <1>7 DEF NameKept
    <2>2. Free(name, "%")
      BY <1>7 DEF TN!Contains, Free
    <2>3. Named(name, p, t, S) /\ p # <<>>
      BY <1>3, <1>7
    <2>4. TypeNames(given.types, S)
      BY <1>2, <1>7
    <2>5. entity = Entity(p, t, given.types)
      BY <1>1, <2>1, <2>2, <2>3, <2>4, TokenUnderstood
    <2>6. /\ entity.partition = p /\ entity.topic = t /\ entity.types = given.types
          /\ entity.pUuid = TN!ProcUuid /\ entity.nUuid = TN!NodeUuid /\ entity.kind = TN!Kind
      BY <2>5 DEF Entity
    <2>7. t # <<>>
      BY <2>3 DEF Named, TN!IsValidTopic
    <2>8. entity # TN!NoParts
      <3>1. TN!NoParts.topic = <<>>
        BY DEF TN!NoParts
      <3>2. QED
        BY <2>6, <2>7, <3>1
    <2>9. TN!IsValidNamespace(<<>>)
      <3>1. <<>> \in Seq(S) /\ Len(<<>>) = 0 /\ <<>> # <<"/">> /\ Proper(<<>>)
        BY DEF Proper
      <3>2. 0 <= MaxNameLength
        BY <1>1
      <3>3. QED
        BY <3>1, <3>2, ValidIs
    <2>10. TN!FullyQualifiedName(p, <<>>, t) = name
      BY <1>1, <2>3, <2>9, MadeAgain
    <2>11. QED
      BY <2>6, <2>8, <2>10
  <1>8. TN!TokensSurvive
    BY <1>7 DEF TN!TokensSurvive
  <1>9. QED
    BY <1>6, <1>8

-----------------------------------------------------------------------------
(* The records of publishers.                                              *)

\* A record of a message or a service, which has no rate.
IsRecord(q, k) ==
    /\ q = [kind |-> k, names |-> q.names, scope |-> q.scope, opts |-> q.opts]
    /\ q.opts = [scope |-> q.opts.scope, rate |-> q.opts.rate]
    /\ k = "message" \/ q.opts.rate = PR!Unthrottled

\* The record under way is the one that was sent; else it has arrived.
Surviving ==
    \E k \in {"message", "service"} :
        /\ IsRecord(pub, k) /\ IsRecord(sent, k) /\ IsRecord(got, k)
        /\ msg = PR!Nothing \/ msg = PR!FillDiscovery(sent)
        /\ PR!RecordsSurvive

LEMMA OptionsMakeRecords ==
    ASSUME NEW k \in {"message", "service"}, NEW opts \in PR!Options(k)
    PROVE  /\ \A names : IsRecord(PR!Record(k, names, opts), k)
           /\ \A q : IsRecord(q, k) => IsRecord(PR!SetOptions(q, opts), k)
  <1>1. PICK scope, rate : opts = [scope |-> scope, rate |-> rate]
                           /\ (k = "message" \/ rate = PR!Unthrottled)
    BY DEF PR!Options
  <1>2. \A names : IsRecord(PR!Record(k, names, opts), k)
    BY <1>1 DEF IsRecord, PR!Record
  <1>3. \A q : IsRecord(q, k) => IsRecord(PR!SetOptions(q, opts), k)
    BY <1>1 DEF IsRecord, PR!SetOptions
  <1>4. QED
    BY <1>2, <1>3

LEMMA EmptyIsRecord ==
    \A k \in {"message", "service"} :
        /\ IsRecord(PR!EmptyRecord(k), k)
        /\ PR!EmptyRecord(k) =
              [kind |-> k, names |-> PR!EmptyNames, scope |-> "ALL",
               opts |-> [scope |-> "ALL", rate |-> PR!Unthrottled]]
  BY DEF IsRecord, PR!EmptyRecord, PR!Record, PR!DefaultOptions

\* The rate is put into a message with whether there is one, and read from it.
LEMMA RateIsRead ==
    ASSUME NEW base, NEW rate, NEW none, NEW m,
           m = [base |-> base, throttled |-> rate # none, rate |-> rate]
    PROVE  m.base = base /\ (IF m.throttled THEN m.rate ELSE none) = rate
  <1>1. m.base = base /\ m.rate = rate
    OBVIOUS
  <1>2. m.throttled <=> rate # none
    OBVIOUS
  <1>3. QED
    BY <1>1, <1>2

\* What the receiver makes of a record's message.
LEMMA ReadAsWritten ==
    ASSUME NEW k \in {"message", "service"}, NEW q, IsRecord(q, k)
    PROVE  /\ PR!FillDiscovery(q) # PR!Nothing
           /\ LET r == PR!SetFromDiscovery(PR!EmptyRecord(k), PR!FillDiscovery(q))
              IN  /\ IsRecord(r, k) /\ r.names = q.names /\ r.scope = q.scope
                  /\ r.opts = [q.opts EXCEPT !.scope = q.scope]
                  /\ PR!Same(r, q) <=> q.opts.scope = q.scope
  <1> DEFINE names == q.names
             scope == q.scope
             rate == q.opts.rate
  <1>1. /\ q.kind = k
        /\ q = [kind |-> k, names |-> names, scope |-> scope, opts |-> q.opts]
        /\ q.opts = [scope |-> q.opts.scope, rate |-> rate]
        /\ k = "message" \/ rate = PR!Unthrottled
    BY DEF IsRecord
  <1> HIDE DEF names, scope, rate
  <1> DEFINE base == [names |-> names, scope |-> scope]
             read == [kind |-> k, names |-> names, scope |-> scope,
                      opts |-> [scope |-> scope, rate |-> rate]]
  <1>2. PR!FillPublisher(q) = base
    BY <1>1 DEF PR!FillPublisher
  <1>3. /\ PR!FillMessage(q) = [base |-> base, throttled |-> rate # PR!Unthrottled, rate |-> rate]
        /\ PR!FillService(q) = [base |-> base]
    BY <1>1, <1>2 DEF PR!FillMessage, PR!FillService, PR!Throttled
  <1>4. PR!SetFromPublisher(PR!EmptyRecord(k), base) =
           [kind |-> k, names |-> names, scope |-> scope,
            opts |-> [scope |-> "ALL", rate |-> PR!Unthrottled]]
    <2> DEFINE empty == [kind |-> k, names |-> PR!EmptyNames, scope |-> "ALL",
                         opts |-> [scope |-> "ALL", rate |-> PR!Unthrottled]]
    <2>1. PR!EmptyRecord(k) = empty /\ base.names = names /\ base.scope = scope
      BY EmptyIsRecord
    <2> DEFINE all == [scope |-> "ALL", rate |-> PR!Unthrottled]
    <2>2. empty = [kind |-> k, names |-> PR!EmptyNames, scope |-> "ALL", opts |-> all]
      OBVIOUS
    <2> HIDE DEF empty, base, all
    <2>3. [empty EXCEPT !.names = names, !.scope = scope] =
             [kind |-> k, names |-> names, scope |-> scope, opts |-> all]
      <3> DEFINE named == [empty EXCEPT !.names = names]
      <3>1. [empty EXCEPT !.names = names, !.scope = scope] = [named EXCEPT !.scope = scope]
        OBVIOUS
      <3>2. named = [kind |-> k, names |-> names, scope |-> "ALL", opts |-> all]
        BY <2>2
      <3> HIDE DEF named
      <3>3. [named EXCEPT !.scope = scope] =
               [kind |-> k, names |-> names, scope |-> scope, opts |-> all]
        BY <3>2
      <3>4. QED
        BY <3>1, <3>3
    <2>4. QED
      BY <2>1, <2>3 DEF PR!SetFromPublisher, all
  <1>5. /\ IsRecord(read, k) /\ read.names = q.names /\ read.scope = q.scope
        /\ read.opts = [q.opts EXCEPT !.scope = q.scope]
        /\ PR!Same(read, q) <=> q.opts.scope = q.scope
    <2>1. /\ read.kind = k /\ read.names = names /\ read.scope = scope
          /\ read.opts = [scope |-> scope, rate |-> rate] /\ read.opts.scope = scope
      OBVIOUS
    <2>2. [q.opts EXCEPT !.scope = scope] = [scope |-> scope, rate |-> rate]
      BY <1>1
    <2>3. IsRecord(read, k)
      BY <1>1 DEF IsRecord
    <2> HIDE DEF read
    <2>4. q.names = names /\ q.scope = scope
      BY DEF names, scope
    <2>5. PR!Same(read, q) <=> q.opts.scope = q.scope
      BY <1>1, <2>1, <2>4 DEF PR!Same
    <2>6. QED
      BY <2>1, <2>2, <2>3, <2>4, <2>5
  <1>6. CASE k = "message"
    <2>1. PR!FillDiscovery(q) = PR!FillMessage(q)
      BY <1>1, <1>6 DEF PR!FillDiscovery
    <2>2. PR!SetFromMessage(PR!EmptyRecord(k), PR!FillMessage(q)) = read
      <3> DEFINE m == PR!FillMessage(q)
                 all == [scope |-> "ALL", rate |-> PR!Unthrottled]
                 mine == [scope |-> scope, rate |-> rate]
      <3>1. m.base = base /\ base.scope = scope
            /\ (IF m.throttled THEN m.rate ELSE PR!Unthrottled) = rate
        <4>1. base.scope = scope
          OBVIOUS
        <4> HIDE DEF base
        <4>2. m = [base |-> base, throttled |-> rate # PR!Unthrottled, rate |-> rate]
          BY <1>3
        <4> HIDE DEF m
        <4>3. QED
          BY <4>1, <4>2, RateIsRead
      <3>2. PR!SetFromPublisher(PR!EmptyRecord(k), base) =
               [kind |-> k, names |-> names, scope |-> scope, opts |-> all]
        BY <1>4
      <3>3. read = [kind |-> k, names |-> names, scope |-> scope, opts |-> mine]
        OBVIOUS
      <3> HIDE DEF m, all, base, read
      <3>4. PR!SetFromMessage(PR!EmptyRecord(k), m) =
               [PR!SetFromPublisher(PR!EmptyRecord(k), base) EXCEPT !.opts = mine]
        BY <3>1 DEF PR!SetFromMessage
      <3> HIDE DEF mine
      <3>5. QED
        BY <3>2, <3>3, <3>4 DEF m
    <2>3. PR!SetFromDiscovery(PR!EmptyRecord(k), PR!FillDiscovery(q)) = read
      BY <1>6, <2>1, <2>2, EmptyIsRecord DEF PR!SetFromDiscovery
    <2>4. PR!FillMessage(q) # PR!Nothing
      BY <1>3 DEF PR!Nothing
    <2>5. QED
      BY <1>5, <2>1, <2>3, <2>4
  <1>7. CASE k = "service"
    <2>1. PR!FillDiscovery(q) = PR!FillService(q)
      BY <1>1, <1>7 DEF PR!FillDiscovery
    <2>2. PR!SetFromService(PR!EmptyRecord(k), PR!FillService(q)) = read
      BY <1>1, <1>3, <1>4, <1>7 DEF PR!SetFromService
    <2>3. PR!SetFromDiscovery(PR!EmptyRecord(k), PR!FillDiscovery(q)) = read
      BY <1>7, <2>1, <2>2, EmptyIsRecord DEF PR!SetFromDiscovery
    <2>4. PR!FillService(q) # PR!Nothing
      BY <1>3 DEF PR!Nothing
    <2>5. QED
      BY <1>5, <2>1, <2>3, <2>4
  <1>8. QED
    BY <1>6, <1>7

LEMMA SurvivingInit == PR!Init => Surviving
  <1> SUFFICES ASSUME PR!Init PROVE Surviving
    OBVIOUS
  <1>1. PICK k \in {"message", "service"} : pub = PR!EmptyRecord(k)
    BY DEF PR!Init
  <1>2. pub.kind = k /\ sent = pub /\ got = pub /\ msg = PR!Nothing
    BY <1>1, EmptyIsRecord DEF PR!Init
  <1>3. PR!RecordsSurvive
    BY <1>1, <1>2, EmptyIsRecord DEF PR!RecordsSurvive, PR!Same
  <1>4. QED
    BY <1>1, <1>2, <1>3, EmptyIsRecord DEF Surviving

LEMMA SurvivingNext == Surviving /\ PR!Next => Surviving'
  <1> SUFFICES ASSUME Surviving, PR!Next PROVE Surviving'
    OBVIOUS
  <1>1. PICK k \in {"message", "service"} :
          /\ IsRecord(pub, k) /\ IsRecord(sent, k) /\ IsRecord(got, k)
          /\ msg = PR!Nothing \/ msg = PR!FillDiscovery(sent)
          /\ PR!RecordsSurvive
    BY DEF Surviving
  <1>2. pub.kind = k
    BY <1>1 DEF IsRecord
  <1>3. ASSUME UNCHANGED <<sent, msg, got>>, IsRecord(pub', k) PROVE Surviving'
    BY <1>1, <1>3 DEF Surviving, PR!RecordsSurvive
  <1>4. ASSUME NEW names, PR!CopyReceived(names) PROVE Surviving'
    <2>1. IsRecord([got EXCEPT !.names = names], k)
      BY <1>1 DEF IsRecord
    <2>2. QED
      BY <1>3, <1>4, <2>1 DEF PR!CopyReceived
  <1>5. ASSUME NEW names, NEW opts \in PR!Options(pub.kind),
               PR!Construct(names, opts) \/ PR!ChangeOptions(opts)
        PROVE  Surviving'
    <2>1. IsRecord(pub', k)
      BY <1>1, <1>2, <1>5, OptionsMakeRecords DEF PR!Construct, PR!ChangeOptions
    <2>2. QED
      BY <1>3, <1>5, <2>1 DEF PR!Construct, PR!ChangeOptions
  <1>6. CASE PR!Send
    BY <1>1, <1>6, ReadAsWritten DEF PR!Send, Surviving, PR!RecordsSurvive
  <1>7. CASE PR!Receive
    <2>1. msg = PR!FillDiscovery(sent)
      BY <1>1, <1>7 DEF PR!Receive
    <2>2. IsRecord(got', k) /\ PR!RecordsSurvive'
      BY <1>1, <1>2, <1>7, <2>1, ReadAsWritten DEF PR!Receive, PR!RecordsSurvive
    <2>3. QED
      BY <1>1, <1>7, <2>2 DEF PR!Receive, Surviving
  <1>8. QED
    BY <1>4, <1>5, <1>6, <1>7 DEF PR!Next

\* A fully qualified name is taken apart into the parts it was made of, and is
\* listed by the nodes of its partition; the token made of it is understood as the
\* name and its types; the record of a publisher is read as it was sent: for any
\* texts that users pass, however long, and for any records.
THEOREM NamesAreKept == NodePartsSpec => []NamesSurvive
  <1> DEFINE I == (part = "names" => NameKept) /\ (part = "records" => Surviving)
  <1>1. NodePartsInit => I
    BY NameKeptInit, SurvivingInit DEF NodePartsInit
  <1>2. I /\ [NodePartsNext]_nodePartsVars => I'
    <2>1. Surviving /\ UNCHANGED recordsVars => Surviving'
      BY DEF Surviving, recordsVars, PR!RecordsSurvive
    <2>2. NameKept /\ UNCHANGED namesVars => NameKept'
      BY DEF NameKept, namesVars
    <2>3. QED
      BY <2>1, <2>2, NameKeptNext, SurvivingNext DEF NodePartsNext, nodePartsVars
  <1>3. I => NamesSurvive
    BY NameKeptSuffices DEF Surviving, NamesSurvive
  <1>4. QED
    BY <1>1, <1>2, <1>3, PTL DEF NodePartsSpec

-----------------------------------------------------------------------------
(* What a node holds in its process.                                       *)

Nothing == [at |-> "nothing"]

Of(n, x) == [node |-> n, topic |-> x]

LEMMA OfIsInjective == \A m, n, x, y : Of(m, x) = Of(n, y) <=> m = n /\ x = y
  <1>1. ASSUME NEW m, NEW n, NEW x, NEW y, Of(m, x) = Of(n, y) PROVE m = n /\ x = y
    <2>1. Of(m, x).node = m /\ Of(m, x).topic = x /\ Of(n, y).node = n /\ Of(n, y).topic = y
      BY DEF Of
    <2>2. QED
      BY <1>1, <2>1
  <1>2. QED
    BY <1>1

\* What a thread can be in the middle of.
IsAssigning(w) ==
    \E s \in Slots, p \in {Nothing} \cup publishers :
        w = [at |-> "assigning", slot |-> s, to |-> p]

IsAdvertising(w) ==
    \E n, x, s : s \in Slots /\ w = [at |-> "advertising", node |-> n, topic |-> x, slot |-> s]

IsDestroying(w) == \E p \in publishers : w = [at |-> "destroying", publisher |-> p]

IsUnsubscribing(w) == \E n, T : w = [at |-> "unsubscribing", node |-> n, topics |-> T]

IsUnadvertising(w) == \E n, S : w = [at |-> "unadvertising", node |-> n, services |-> S]

IsWork(w) ==
    \/ w = Nothing
    \/ IsAssigning(w) \/ IsAdvertising(w) \/ IsDestroying(w)
    \/ IsUnsubscribing(w) \/ IsUnadvertising(w)

Working ==
    /\ DOMAIN thread = Threads /\ DOMAIN held = Slots
    /\ \A t \in Threads : IsWork(thread[t])
    /\ \A s \in Slots : held[s] \in {Nothing} \cup publishers

\* A publisher that is being destroyed has nobody else who knows it.
Unknown(t, p) ==
    /\ \A s \in Slots : held[s] # p
    /\ \A u \in Threads \ {t} :
          /\ thread[u].at = "assigning" => thread[u].to # p
          /\ thread[u].at = "destroying" => thread[u].publisher # p

Publishing ==
    /\ advertised = {Of(p.node, p.topic) : p \in publishers}
    /\ \A p, q \in publishers : p.node = q.node /\ p.topic = q.topic => p = q
    /\ \A p \in publishers : p.at = "publisher"
    /\ \A t \in Threads : thread[t].at = "destroying" => Unknown(t, thread[t].publisher)

\* A service that a node announces has a responder of this node with these types.
Serving ==
    /\ topicsSubscribed = {Of(h.node, h.topic) : h \in localSubscribers}
    /\ srvsAdvertised = {Of(r.node, r.topic) : r \in repliers}
    /\ srvsAdvertised = {Of(e.node, e.topic) : e \in offered}
    /\ \A e \in offered : \E r \in repliers :
          r.node = e.node /\ r.topic = e.topic /\ r.req = e.req /\ r.rep = e.rep

TopicsOfNode(n) == {e.topic : e \in {e \in topicsSubscribed : e.node = n}}

ServicesOfNode(n) == {e.topic : e \in {e \in srvsAdvertised : e.node = n}}

\* A destructor has listed all that is left of its node.
OnItsWay(w) ==
    /\ w.at = "unsubscribing" => w.node \notin alive /\ TopicsOfNode(w.node) \subseteq w.topics
    /\ w.at = "unadvertising" => /\ w.node \notin alive /\ TopicsOfNode(w.node) = {}
                                 /\ ServicesOfNode(w.node) \subseteq w.services

Destructs(w, n) == w.at \in {"unsubscribing", "unadvertising"} /\ w.node = n

Gone(n) == TopicsOfNode(n) = {} /\ ServicesOfNode(n) = {}

Leaving ==
    /\ \A t \in Threads : OnItsWay(thread[t])
    /\ \A n \in Nodes \ alive : Gone(n) \/ \E t \in Threads : Destructs(thread[t], n)

\* The program counter tells the rest.
LEMMA WorkShapes ==
    ASSUME NEW w, IsWork(w)
    PROVE  /\ w.at = "assigning" => IsAssigning(w)
           /\ w.at = "destroying" => IsDestroying(w)
           /\ w.at = "advertising" => IsAdvertising(w)
           /\ w.at = "unsubscribing" => IsUnsubscribing(w)
           /\ w.at = "unadvertising" => IsUnadvertising(w)
  <1>1. Nothing.at = "nothing"
    BY DEF Nothing
  <1>2. IsAssigning(w) => w.at = "assigning"
    BY DEF IsAssigning
  <1>3. IsDestroying(w) => w.at = "destroying"
    BY DEF IsDestroying
  <1>4. IsAdvertising(w) => w.at = "advertising"
    BY DEF IsAdvertising
  <1>5. IsUnsubscribing(w) => w.at = "unsubscribing"
    BY DEF IsUnsubscribing
  <1>6. IsUnadvertising(w) => w.at = "unadvertising"
    BY DEF IsUnadvertising
  <1>7. QED
    BY <1>1, <1>2, <1>3, <1>4, <1>5, <1>6 DEF IsWork

LEMMA WorkIs ==
    ASSUME Working, NEW t \in Threads
    PROVE  /\ thread[t].at = "assigning" => /\ thread[t].slot \in Slots
                                            /\ thread[t].to \in {Nothing} \cup publishers
           /\ thread[t].at = "destroying" => thread[t].publisher \in publishers
  <1>1. PICK w : w = thread[t]
    OBVIOUS
  <1>2. (w.at = "assigning" => IsAssigning(w)) /\ (w.at = "destroying" => IsDestroying(w))
    BY <1>1, WorkShapes DEF Working
  <1>3. IsAssigning(w) => w.slot \in Slots /\ w.to \in {Nothing} \cup publishers
    BY DEF IsAssigning
  <1>4. IsDestroying(w) => w.publisher \in publishers
    BY DEF IsDestroying
  <1>5. QED
    BY <1>1, <1>2, <1>3, <1>4

LEMMA DestroyingWork ==
    ASSUME Working, NEW t \in Threads
    PROVE  /\ thread[t].at = "unsubscribing" =>
                  \A T : IsUnsubscribing([thread[t] EXCEPT !.topics = T])
                           /\ [thread[t] EXCEPT !.topics = T].node = thread[t].node
                           /\ [thread[t] EXCEPT !.topics = T].topics = T
                           /\ [thread[t] EXCEPT !.topics = T].at = "unsubscribing"
           /\ thread[t].at = "unadvertising" =>
                  \A S : IsUnadvertising([thread[t] EXCEPT !.services = S])
                           /\ [thread[t] EXCEPT !.services = S].node = thread[t].node
                           /\ [thread[t] EXCEPT !.services = S].services = S
                           /\ [thread[t] EXCEPT !.services = S].at = "unadvertising"
  <1>1. IsWork(thread[t])
    BY DEF Working
  <1>2. ASSUME thread[t].at = "unsubscribing", NEW T
        PROVE  /\ IsUnsubscribing([thread[t] EXCEPT !.topics = T])
               /\ [thread[t] EXCEPT !.topics = T].node = thread[t].node
               /\ [thread[t] EXCEPT !.topics = T].topics = T
               /\ [thread[t] EXCEPT !.topics = T].at = "unsubscribing"
    <2>1. PICK n, old : thread[t] = [at |-> "unsubscribing", node |-> n, topics |-> old]
      BY <1>1, <1>2, WorkShapes DEF IsUnsubscribing
    <2>2. [thread[t] EXCEPT !.topics = T] = [at |-> "unsubscribing", node |-> n, topics |-> T]
      BY <2>1
    <2>3. QED
      BY <2>1, <2>2 DEF IsUnsubscribing
  <1>3. ASSUME thread[t].at = "unadvertising", NEW S
        PROVE  /\ IsUnadvertising([thread[t] EXCEPT !.services = S])
               /\ [thread[t] EXCEPT !.services = S].node = thread[t].node
               /\ [thread[t] EXCEPT !.services = S].services = S
               /\ [thread[t] EXCEPT !.services = S].at = "unadvertising"
    <2>1. PICK n, old : thread[t] = [at |-> "unadvertising", node |-> n, services |-> old]
      BY <1>1, <1>3, WorkShapes DEF IsUnadvertising
    <2>2. [thread[t] EXCEPT !.services = S] = [at |-> "unadvertising", node |-> n, services |-> S]
      BY <2>1
    <2>3. QED
      BY <2>1, <2>2 DEF IsUnadvertising
  <1>4. QED
    BY <1>2, <1>3

\* More publishers do not make work of a thread ill-formed.
LEMMA WorkStays ==
    ASSUME NEW w, IsWork(w), publishers \subseteq publishers'
    PROVE  IsWork(w)'
  BY DEF IsWork, IsAssigning, IsAdvertising, IsDestroying, IsUnsubscribing, IsUnadvertising

\* A thread goes on without a publisher.
LEMMA PublishingElsewhere ==
    ASSUME Working, Publishing, UNCHANGED <<advertised, publishers, held>>, NEW t \in Threads, NEW w,
           thread' = [thread EXCEPT ![t] = w], IsWork(w), w.at # "destroying",
           w.at = "assigning" => w.to = Nothing
    PROVE  Working' /\ Publishing'
  <1>1. thread'[t] = w /\ DOMAIN thread' = Threads /\ \A u \in Threads : u # t => thread'[u] = thread[u]
    BY DEF Working
  <1>2. Working'
    <2>1. \A u \in Threads : IsWork(thread'[u]) /\ (IsWork(thread'[u]) => IsWork(thread[u])')
      <3>1. ASSUME NEW u \in Threads PROVE IsWork(thread'[u]) /\ IsWork(thread[u])'
        <4>1. PICK v : v = thread'[u]
          OBVIOUS
        <4>2. IsWork(v)
          BY <1>1, <4>1 DEF Working
        <4>3. IsWork(v)'
          BY <4>2, WorkStays
        <4>4. QED
          BY <4>1, <4>2, <4>3
      <3>2. QED
        BY <3>1
    <2>2. QED
      BY <1>1, <2>1 DEF Working
  <1>3. Nothing \notin publishers
    BY DEF Publishing, Nothing
  <1>4. ASSUME NEW u \in Threads, thread'[u].at = "destroying"
        PROVE  Unknown(u, thread[u].publisher)'
    <2>1. u # t /\ thread'[u] = thread[u] /\ thread[u].publisher \in publishers
      BY <1>1, <1>4, WorkIs
    <2>2. Unknown(u, thread[u].publisher)
      BY <1>4, <2>1 DEF Publishing
    <2>3. QED
      BY <1>1, <1>3, <2>1, <2>2 DEF Unknown
  <1>5. QED
    BY <1>2, <1>4 DEF Publishing

LEMMA PublishingAdvertises ==
    ASSUME Working, Publishing, NEW t \in Threads, NA!AdvertisePublisher(t)
    PROVE  Working' /\ Publishing'
  <1>1. PICK p, slot : /\ p = NA!NewPublisher(t) /\ slot = thread[t].slot
    OBVIOUS
  <1>2. slot \in Slots /\ p.at = "publisher" /\ p.node = thread[t].node /\ p.topic = thread[t].topic
    <2>1. IsAdvertising(thread[t])
      BY WorkShapes DEF Working, NA!AdvertisePublisher, NA!Doing
    <2>2. QED
      BY <1>1, <2>1 DEF IsAdvertising, NA!NewPublisher
  <1>3. /\ held' = held
        /\ advertised' = advertised \cup {Of(p.node, p.topic)}
    BY <1>1, <1>2 DEF NA!AdvertisePublisher, NA!Entry, Of
  <1>4. CASE Of(p.node, p.topic) \in advertised
    <2>1. PICK w : w = [at |-> "assigning", slot |-> slot, to |-> Nothing]
      OBVIOUS
    <2>2. UNCHANGED <<publishers, advertised>> /\ thread' = [thread EXCEPT ![t] = w]
      BY <1>1, <1>2, <1>3, <1>4, <2>1
         DEF NA!AdvertisePublisher, NA!Continue, NA!Entry, Of, NA!Nothing, Nothing
    <2>3. IsWork(w) /\ w.at = "assigning" /\ w.to = Nothing
      BY <1>2, <2>1 DEF IsWork, IsAssigning
    <2>4. QED
      BY <1>3, <2>2, <2>3, PublishingElsewhere
  <1>5. CASE Of(p.node, p.topic) \notin advertised
    <2>1. PICK w : w = [at |-> "assigning", slot |-> slot, to |-> p]
      OBVIOUS
    <2>2. publishers' = publishers \cup {p} /\ thread' = [thread EXCEPT ![t] = w]
      BY <1>1, <1>2, <1>5, <2>1 DEF NA!AdvertisePublisher, NA!Continue, NA!Entry, Of
    <2>3. /\ thread'[t] = w /\ DOMAIN thread' = Threads
          /\ \A u \in Threads : u # t => thread'[u] = thread[u]
      BY <2>2 DEF Working
    <2>4. \A q \in publishers : ~(q.node = p.node /\ q.topic = p.topic)
      BY <1>5 DEF Publishing
    <2>5. IsWork(w)'
      BY <1>2, <2>1, <2>2 DEF IsWork, IsAssigning
    <2>6. Working'
      <3>1. ASSUME NEW u \in Threads, u # t PROVE IsWork(thread[u])'
        <4>1. PICK v : v = thread[u]
          OBVIOUS
        <4>2. IsWork(v)'
          BY <2>2, <4>1, WorkStays DEF Working
        <4>3. QED
          BY <2>3, <3>1, <4>1, <4>2
      <3>2. QED
        BY <1>3, <2>2, <2>3, <2>5, <3>1 DEF Working
    <2>7. ASSUME NEW u \in Threads, thread'[u].at = "destroying"
          PROVE  Unknown(u, thread[u].publisher)'
      <3>1. u # t /\ thread'[u] = thread[u] /\ thread[u].publisher \in publishers
        BY <2>1, <2>3, <2>7, WorkIs
      <3>2. Unknown(u, thread[u].publisher) /\ thread[u].publisher # p
        BY <2>4, <2>7, <3>1 DEF Publishing
      <3>3. QED
        BY <1>3, <2>1, <2>3, <3>1, <3>2 DEF Unknown
    <2>8. advertised' = {Of(q.node, q.topic) : q \in publishers'}
      BY <1>3, <2>2 DEF Publishing
    <2>9. QED
      BY <1>2, <2>2, <2>4, <2>6, <2>7, <2>8 DEF Publishing
  <1>6. QED
    BY <1>4, <1>5

LEMMA PublishingAssigns ==
    ASSUME Working, Publishing, NEW t \in Threads, NEW slot \in Slots,
           NEW p \in {Nothing} \cup publishers, thread[t].at # "destroying",
           \A u \in Threads : thread[u].at = "destroying" => thread[u].publisher # p,
           NA!Assign(t, slot, p)
    PROVE  Working' /\ Publishing'
  <1>1. PICK old : old = held[slot]
    OBVIOUS
  <1>2. /\ UNCHANGED <<advertised, publishers>>
        /\ held'[slot] = p /\ DOMAIN held' = Slots
        /\ \A s \in Slots : s # slot => held'[s] = held[s]
    BY DEF NA!Assign, Working
  <1>3. \A s \in Slots : held'[s] \in {Nothing} \cup publishers
    BY <1>2 DEF Working
  <1>4. PICK w :
            /\ thread' = [thread EXCEPT ![t] = w]
            /\ \/ /\ w = [at |-> "destroying", publisher |-> old] /\ old # Nothing
                  /\ \A s \in Slots : held'[s] # old
                  /\ \A u \in Threads \ {t} : thread[u].at = "assigning" => thread[u].to # old
               \/ w = Nothing
    BY <1>1 DEF NA!Assign, NA!Continue, NA!Doing, NA!Nothing, Nothing
  <1>5. /\ thread'[t] = w /\ DOMAIN thread' = Threads
        /\ \A u \in Threads : u # t => thread'[u] = thread[u]
    BY <1>4 DEF Working
  <1>6. old \in {Nothing} \cup publishers
    BY <1>1 DEF Working
  <1>7. IsWork(w)'
    BY <1>2, <1>4, <1>6 DEF IsWork, IsDestroying
  <1>8. Working'
    <2>1. ASSUME NEW u \in Threads, u # t PROVE IsWork(thread[u])'
      <3>1. PICK v : v = thread[u]
        OBVIOUS
      <3>2. IsWork(v)'
        BY <1>2, <3>1, WorkStays DEF Working
      <3>3. QED
        BY <1>5, <2>1, <3>1, <3>2
    <2>2. QED
      BY <1>2, <1>3, <1>5, <1>7, <2>1 DEF Working
  <1>9. ASSUME NEW u \in Threads, u # t, thread[u].at = "destroying"
        PROVE  /\ thread[u].publisher \in publishers /\ thread[u].publisher # old
               /\ Unknown(u, thread[u].publisher)'
    <2>1. /\ thread[u].publisher \in publishers /\ Unknown(u, thread[u].publisher)
          /\ thread[u].publisher # p
      BY <1>9, WorkIs DEF Publishing
    <2>2. thread[u].publisher # old
      BY <1>1, <2>1 DEF Unknown
    <2>3. w.at = "destroying" => w.publisher # thread[u].publisher
      BY <1>4, <2>2 DEF Nothing
    <2>4. w.at # "assigning"
      BY <1>4 DEF Nothing
    <2>5. QED
      BY <1>2, <1>5, <1>9, <2>1, <2>2, <2>3, <2>4 DEF Unknown
  <1>10. w.at = "destroying" => Unknown(t, w.publisher)'
    <2>1. CASE w = Nothing
      BY <2>1 DEF Nothing
    <2>2. CASE w = [at |-> "destroying", publisher |-> old] /\ w # Nothing
      <3>1. w.publisher = old
        BY <2>2
      <3>2. \A u \in Threads \ {t} : thread[u].at = "assigning" => thread[u].to # old
        BY <1>4, <2>2
      <3>3. \A s \in Slots : held'[s] # old
        BY <1>4, <2>2
      <3>4. QED
        BY <1>5, <1>9, <3>1, <3>2, <3>3 DEF Unknown
    <2>3. QED
      BY <1>4, <2>1, <2>2
  <1>11. QED
    BY <1>2, <1>5, <1>8, <1>9, <1>10 DEF Publishing

LEMMA PublishingDestroys ==
    ASSUME Working, Publishing, NEW t \in Threads, NA!DestroyPublisher(t)
    PROVE  Working' /\ Publishing'
  <1>1. PICK p \in publishers : p = thread[t].publisher
    BY WorkIs DEF NA!DestroyPublisher, NA!Doing
  <1>2. /\ thread[t].at = "destroying" /\ held' = held
        /\ advertised' = advertised \ {Of(p.node, p.topic)}
        /\ publishers' = publishers \ {p}
        /\ thread' = [thread EXCEPT ![t] = Nothing]
    BY <1>1 DEF NA!DestroyPublisher, NA!Doing, NA!Continue, NA!Entry, NA!Nothing, Of, Nothing
  <1>3. /\ thread'[t] = Nothing /\ DOMAIN thread' = Threads
        /\ \A u \in Threads : u # t => thread'[u] = thread[u]
    BY <1>2 DEF Working
  <1>4. Unknown(t, p)
    BY <1>1, <1>2 DEF Publishing
  <1>5. Working'
    <2>1. ASSUME NEW u \in Threads, u # t PROVE IsWork(thread[u])'
      <3>1. PICK w : w = thread[u]
        OBVIOUS
      <3>2. /\ IsWork(w)
            /\ w.at = "assigning" => w.to # p
            /\ w.at = "destroying" => w.publisher # p
        BY <1>4, <2>1, <3>1 DEF Unknown, Working
      <3>3. ASSUME IsAssigning(w) PROVE IsAssigning(w)'
        <4>1. PICK s \in Slots, q \in {Nothing} \cup publishers :
                  w = [at |-> "assigning", slot |-> s, to |-> q]
          BY <3>3 DEF IsAssigning
        <4>2. w.at = "assigning" /\ w.to = q
          BY <4>1
        <4>3. q \in {Nothing} \cup publishers'
          BY <1>2, <3>2, <4>2
        <4>4. QED
          BY <4>1, <4>3 DEF IsAssigning
      <3>4. ASSUME IsDestroying(w) PROVE IsDestroying(w)'
        <4>1. PICK q \in publishers : w = [at |-> "destroying", publisher |-> q]
          BY <3>4 DEF IsDestroying
        <4>2. w.at = "destroying" /\ w.publisher = q
          BY <4>1
        <4>3. q \in publishers'
          BY <1>2, <3>2, <4>2
        <4>4. QED
          BY <4>1, <4>3 DEF IsDestroying
      <3>5. IsWork(w)'
        BY <3>2, <3>3, <3>4 DEF IsWork, IsAdvertising, IsUnsubscribing, IsUnadvertising
      <3>6. QED
        BY <1>3, <2>1, <3>1, <3>5
    <2>2. IsWork(Nothing)'
      BY DEF IsWork
    <2>3. \A s \in Slots : held'[s] \in {Nothing} \cup publishers'
      BY <1>2, <1>4 DEF Working, Unknown
    <2>4. QED
      BY <1>2, <1>3, <2>1, <2>2, <2>3 DEF Working
  <1>6. advertised' = {Of(q.node, q.topic) : q \in publishers'}
    <2>1. \A q \in publishers : Of(q.node, q.topic) = Of(p.node, p.topic) => q = p
      BY OfIsInjective DEF Publishing
    <2>2. QED
      BY <1>2, <2>1 DEF Publishing
  <1>7. ASSUME NEW u \in Threads, thread'[u].at = "destroying"
        PROVE  Unknown(u, thread[u].publisher)'
    <2>1. u # t /\ thread'[u] = thread[u]
      BY <1>3, <1>7 DEF Nothing
    <2>2. Unknown(u, thread[u].publisher)
      BY <1>7, <2>1 DEF Publishing
    <2>3. QED
      BY <1>2, <1>3, <2>1, <2>2 DEF Unknown, Nothing
  <1>8. QED
    BY <1>2, <1>5, <1>6, <1>7 DEF Publishing

LEMMA PublishingRests ==
    ASSUME Working, Publishing, UNCHANGED <<advertised, publishers, held, thread>>
    PROVE  Working' /\ Publishing'
  <1>1. Working'
    <2>1. ASSUME NEW u \in Threads PROVE IsWork(thread[u])'
      <3>1. PICK v : v = thread[u]
        OBVIOUS
      <3>2. IsWork(v)'
        BY <3>1, WorkStays DEF Working
      <3>3. QED
        BY <3>1, <3>2
    <2>2. QED
      BY <2>1 DEF Working
  <1>2. QED
    BY <1>1 DEF Publishing, Unknown

LEMMA IdleThread ==
    ASSUME NEW t \in Threads, NA!Idle(t)
    PROVE  thread[t] = Nothing /\ thread[t].at = "nothing"
  BY DEF NA!Idle, NA!Nothing, Nothing

LEMMA PublishingHandsOver ==
    ASSUME Working, Publishing, NEW t \in Threads,
           \/ NA!AssignResult(t)
           \/ \E s \in Slots : NA!DropPublisher(t, s)
           \/ \E s, u \in Slots : NA!CopyPublisher(t, s, u)
    PROVE  Working' /\ Publishing'
  <1>1. CASE NA!AssignResult(t)
    <2>1. /\ thread[t].at = "assigning" /\ thread[t].slot \in Slots
          /\ thread[t].to \in {Nothing} \cup publishers
      BY <1>1, WorkIs DEF NA!AssignResult, NA!Doing
    <2>2. ASSUME NEW u \in Threads, thread[u].at = "destroying"
          PROVE  thread[u].publisher # thread[t].to
      <3>1. Unknown(u, thread[u].publisher) /\ t # u
        BY <2>1, <2>2 DEF Publishing
      <3>2. QED
        BY <2>1, <3>1 DEF Unknown
    <2>3. QED
      BY <1>1, <2>1, <2>2, PublishingAssigns DEF NA!AssignResult
  <1>2. ASSUME NEW s \in Slots, NA!DropPublisher(t, s) PROVE Working' /\ Publishing'
    <2>1. thread[t].at # "destroying" /\ NA!Assign(t, s, Nothing)
      BY <1>2, IdleThread DEF NA!DropPublisher, NA!Nothing, Nothing
    <2>2. \A u \in Threads : thread[u].at = "destroying" => thread[u].publisher # Nothing
      BY WorkIs DEF Publishing, Nothing
    <2>3. QED
      BY <2>1, <2>2, PublishingAssigns
  <1>3. ASSUME NEW s \in Slots, NEW d \in Slots, NA!CopyPublisher(t, s, d)
        PROVE  Working' /\ Publishing'
    <2>1. thread[t].at # "destroying" /\ NA!Assign(t, d, held[s])
      BY <1>3, IdleThread DEF NA!CopyPublisher
    <2>2. \A u \in Threads : thread[u].at = "destroying" => thread[u].publisher # held[s]
      BY DEF Publishing, Unknown
    <2>3. held[s] \in {Nothing} \cup publishers
      BY DEF Working
    <2>4. QED
      BY <2>1, <2>2, <2>3, PublishingAssigns
  <1>4. QED
    BY <1>1, <1>2, <1>3

LEMMA PublishingTests ==
    ASSUME Working, Publishing, NEW t \in Threads, NEW n \in Nodes, NEW x \in Topics,
           NEW s \in Slots, NA!AdvertiseTest(t, n, x, s)
    PROVE  Working' /\ Publishing'
  <1>1. PICK w :
            /\ thread' = [thread EXCEPT ![t] = w]
            /\ \/ w = [at |-> "assigning", slot |-> s, to |-> Nothing]
               \/ w = [at |-> "advertising", node |-> n, topic |-> x, slot |-> s]
    BY DEF NA!AdvertiseTest, NA!Continue, NA!Nothing, Nothing
  <1>2. CASE w = [at |-> "assigning", slot |-> s, to |-> Nothing]
    <2>1. IsAssigning(w) /\ w.at = "assigning" /\ w.to = Nothing
      BY <1>2 DEF IsAssigning
    <2>2. QED
      BY <1>1, <2>1, PublishingElsewhere DEF NA!AdvertiseTest, NA!publisherVars, IsWork
  <1>3. CASE w = [at |-> "advertising", node |-> n, topic |-> x, slot |-> s]
    <2>1. IsAdvertising(w) /\ w.at = "advertising"
      BY <1>3 DEF IsAdvertising
    <2>2. QED
      BY <1>1, <2>1, PublishingElsewhere DEF NA!AdvertiseTest, NA!publisherVars, IsWork
  <1>4. QED
    BY <1>1, <1>2, <1>3

\* ~Node does nothing to publishers.
LEMMA PublishingOutlives ==
    ASSUME Working, Publishing, NEW t \in Threads,
           \/ \E n \in Nodes : NA!DestroyNode(t, n)
           \/ NA!DestroyUnsubscribe(t) \/ NA!DestroyListServices(t) \/ NA!DestroyUnadvertise(t)
    PROVE  Working' /\ Publishing'
  <1>1. UNCHANGED <<advertised, publishers, held>>
    BY DEF NA!DestroyNode, NA!DestroyUnsubscribe, NA!DestroyListServices,
           NA!DestroyUnadvertise, NA!publisherVars
  <1>2. ASSUME NEW w, thread' = [thread EXCEPT ![t] = w],
               w = Nothing \/ IsUnsubscribing(w) \/ IsUnadvertising(w)
        PROVE  Working' /\ Publishing'
    <2>1. w.at # "destroying" /\ w.at # "assigning" /\ IsWork(w)
      BY <1>2 DEF Nothing, IsUnsubscribing, IsUnadvertising, IsWork
    <2>2. QED
      BY <1>1, <1>2, <2>1, PublishingElsewhere
  <1>3. ASSUME NEW n \in Nodes, NA!DestroyNode(t, n) PROVE Working' /\ Publishing'
    BY <1>2, <1>3 DEF NA!DestroyNode, NA!Continue, IsUnsubscribing
  <1>4. CASE NA!DestroyUnsubscribe(t)
    <2>1. thread[t].at = "unsubscribing"
          /\ \E x : thread' = [thread EXCEPT ![t] = [thread[t] EXCEPT !.topics = @ \ {x}]]
      BY <1>4 DEF NA!DestroyUnsubscribe, NA!Continue, NA!Doing
    <2>2. PICK T : thread' = [thread EXCEPT ![t] = [thread[t] EXCEPT !.topics = T]]
      BY <2>1
    <2>3. QED
      BY <1>2, <2>1, <2>2, DestroyingWork
  <1>5. CASE NA!DestroyListServices(t)
    BY <1>2, <1>5 DEF NA!DestroyListServices, NA!Continue, IsUnadvertising
  <1>6. CASE NA!DestroyUnadvertise(t)
    <2>1. thread[t].at = "unadvertising"
          /\ \/ thread' = [thread EXCEPT ![t] = Nothing]
             \/ \E x : thread' = [thread EXCEPT ![t] = [thread[t] EXCEPT !.services = @ \ {x}]]
      BY <1>6 DEF NA!DestroyUnadvertise, NA!Continue, NA!Doing, NA!Nothing, Nothing
    <2>2. CASE thread' = [thread EXCEPT ![t] = Nothing]
      BY <1>2, <2>2
    <2>3. CASE \E x : thread' = [thread EXCEPT ![t] = [thread[t] EXCEPT !.services = @ \ {x}]]
      <3>1. PICK S : thread' = [thread EXCEPT ![t] = [thread[t] EXCEPT !.services = S]]
        BY <2>3
      <3>2. QED
        BY <1>2, <2>1, <3>1, DestroyingWork
    <2>4. QED
      BY <2>1, <2>2, <2>3
  <1>7. QED
    BY <1>3, <1>4, <1>5, <1>6

LEMMA PublishingSteps == ASSUME Working, Publishing, NA!Next PROVE Working' /\ Publishing'
  <1>1. PICK t \in Threads :
           \/ \E n \in Nodes, x \in Topics, s \in Slots : NA!AdvertiseTest(t, n, x, s)
           \/ NA!AdvertisePublisher(t) \/ NA!DestroyPublisher(t)
           \/ \/ NA!AssignResult(t)
              \/ \E s \in Slots : NA!DropPublisher(t, s)
              \/ \E s, u \in Slots : NA!CopyPublisher(t, s, u)
           \/ \/ \E n \in Nodes : NA!DestroyNode(t, n)
              \/ NA!DestroyUnsubscribe(t) \/ NA!DestroyListServices(t)
              \/ NA!DestroyUnadvertise(t)
           \/ \/ \E n \in Nodes, x \in Topics, s \in Slots \cup {0} : NA!Subscribe(t, n, x, s)
              \/ \E n \in Nodes, x \in Topics : NA!UnsubscribeNode(t, n, x)
              \/ \E s \in Slots : NA!UnsubscribeOwned(t, s)
              \/ \E s, u \in Slots : NA!MoveSubscriber(t, s, u)
              \/ \E n \in Nodes, x \in Services :
                    \/ NA!UnadvertiseSrv(t, n, x)
                    \/ \E types \in ServiceTypes : NA!AdvertiseSrv(t, n, x, types)
    BY DEF NA!Next
  <1>2. CASE \E n \in Nodes, x \in Topics, s \in Slots : NA!AdvertiseTest(t, n, x, s)
    BY <1>2, PublishingTests
  <1>3. CASE NA!AdvertisePublisher(t)
    BY <1>3, PublishingAdvertises
  <1>4. CASE NA!DestroyPublisher(t)
    BY <1>4, PublishingDestroys
  <1>5. CASE \/ \E n \in Nodes, x \in Topics, s \in Slots \cup {0} : NA!Subscribe(t, n, x, s)
             \/ \E n \in Nodes, x \in Topics : NA!UnsubscribeNode(t, n, x)
             \/ \E s \in Slots : NA!UnsubscribeOwned(t, s)
             \/ \E s, u \in Slots : NA!MoveSubscriber(t, s, u)
             \/ \E n \in Nodes, x \in Services :
                   \/ NA!UnadvertiseSrv(t, n, x)
                   \/ \E types \in ServiceTypes : NA!AdvertiseSrv(t, n, x, types)
    <2>1. UNCHANGED <<NA!publisherVars, thread>>
      BY <1>5 DEF NA!UnsubscribeOwned, NA!MoveSubscriber, NA!Subscribe, NA!UnsubscribeNode,
         NA!UnadvertiseSrv, NA!AdvertiseSrv
    <2>2. QED
      BY <2>1, PublishingRests DEF NA!publisherVars
  <1>6. QED
    BY <1>1, <1>2, <1>3, <1>4, <1>5, PublishingHandsOver, PublishingOutlives

LEMMA HandlersAreOf ==
    /\ \A H, x, n : \A h \in NA!HandlersOfNode(H, x, n) : h.node = n /\ h.topic = x
    /\ \A H, x, n, i : \A h \in NA!Handler(H, x, n, i) : h.node = n /\ h.topic = x
  BY DEF NA!HandlersOfNode, NA!Handler

LEMMA ServingUnsubscribes ==
    ASSUME Serving, UNCHANGED <<srvsAdvertised, repliers, offered>>, NEW n, NEW x, NEW gone,
           \A h \in gone : h.node = n /\ h.topic = x,
           NA!Unsubscribed(localSubscribers \ gone, n, x)
    PROVE  Serving' /\ topicsSubscribed' \subseteq topicsSubscribed
  <1>1. /\ localSubscribers' = localSubscribers \ gone
        /\ \/ /\ \E h \in localSubscribers' : h.topic = x /\ h.node = n
              /\ topicsSubscribed' = topicsSubscribed
           \/ /\ ~ \E h \in localSubscribers' : h.topic = x /\ h.node = n
              /\ topicsSubscribed' = topicsSubscribed \ {Of(n, x)}
    BY DEF NA!Unsubscribed, NA!HasHandlersForNode, NA!HandlersOfNode, NA!Entry, Of
  <1>2. topicsSubscribed' = {Of(h.node, h.topic) : h \in localSubscribers'}
    <2>1. CASE \E h \in localSubscribers' : h.topic = x /\ h.node = n
      <3>1. \A h \in gone : \E k \in localSubscribers' : Of(h.node, h.topic) = Of(k.node, k.topic)
        BY <2>1 DEF Of
      <3>2. QED
        BY <1>1, <2>1, <3>1 DEF Serving
    <2>2. CASE ~ \E h \in localSubscribers' : h.topic = x /\ h.node = n
      <3>1. \A h \in localSubscribers' : Of(h.node, h.topic) # Of(n, x)
        BY <2>2, OfIsInjective
      <3>2. \A h \in gone : Of(h.node, h.topic) = Of(n, x)
        BY DEF Of
      <3>3. QED
        BY <1>1, <2>2, <3>1, <3>2 DEF Serving
    <2>3. QED
      BY <2>1, <2>2
  <1>3. QED
    BY <1>1, <1>2 DEF Serving

LEMMA ServingSubscribes ==
    ASSUME Serving, NEW t \in Threads, NEW n \in Nodes, NEW x \in Topics, NEW s,
           NA!Subscribe(t, n, x, s)
    PROVE  Serving' /\ topicsSubscribed' = topicsSubscribed \cup {Of(n, x)}
  <1>1. PICK h : /\ h = [topic |-> x, node |-> n, id |-> made + 1]
                 /\ localSubscribers' = localSubscribers \cup {h}
    BY DEF NA!Subscribe, NA!AddHandler
  <1>2. h.topic = x /\ h.node = n
    BY <1>1
  <1>3. /\ topicsSubscribed' = topicsSubscribed \cup {Of(n, x)}
        /\ UNCHANGED <<srvsAdvertised, repliers, offered>>
    BY DEF NA!Subscribe, NA!serviceVars, NA!Entry, Of
  <1>4. QED
    BY <1>1, <1>2, <1>3 DEF Serving

LEMMA ServingAdvertises ==
    ASSUME Serving, NEW t \in Threads, NEW n \in Nodes, NEW x \in Services,
           NEW types \in ServiceTypes, NA!AdvertiseSrv(t, n, x, types)
    PROVE  Serving' /\ srvsAdvertised' = srvsAdvertised \cup {Of(n, x)}
  <1>1. PICK r : /\ r = [topic |-> x, node |-> n, id |-> made + 1,
                         req |-> types.req, rep |-> types.rep]
                 /\ repliers' = repliers \cup {r}
    BY DEF NA!AdvertiseSrv, NA!AddHandler
  <1>2. r.topic = x /\ r.node = n /\ r.req = types.req /\ r.rep = types.rep
    BY <1>1
  <1>3. PICK e : /\ e = [node |-> n, topic |-> x, req |-> types.req, rep |-> types.rep]
                 /\ \/ /\ \E f \in offered : f.topic = x /\ f.node = n
                       /\ offered' = offered
                    \/ offered' = offered \cup {e}
    BY DEF NA!AdvertiseSrv, NA!HandlersOfNode
  <1>4. e.topic = x /\ e.node = n /\ e.req = types.req /\ e.rep = types.rep
    BY <1>3
  <1>5. /\ srvsAdvertised' = srvsAdvertised \cup {Of(n, x)}
        /\ UNCHANGED <<localSubscribers, topicsSubscribed>>
    BY DEF NA!AdvertiseSrv, NA!subscriberVars, NA!Entry, Of
  <1>6. srvsAdvertised' = {Of(f.node, f.topic) : f \in offered'}
    <2>1. \/ /\ \E f \in offered : f.topic = x /\ f.node = n
             /\ offered' = offered
          \/ offered' = offered \cup {e}
      BY <1>3
    <2>2. CASE (\E f \in offered : f.topic = x /\ f.node = n) /\ offered' = offered
      <3>1. Of(n, x) \in {Of(f.node, f.topic) : f \in offered}
        BY <2>2
      <3>2. QED
        BY <1>5, <2>2, <3>1 DEF Serving
    <2>3. CASE offered' = offered \cup {e}
      BY <1>4, <1>5, <2>3 DEF Serving
    <2>4. QED
      BY <2>1, <2>2, <2>3
  <1>7. srvsAdvertised' = {Of(f.node, f.topic) : f \in repliers'}
    BY <1>1, <1>2, <1>5 DEF Serving
  <1>8. \A f \in offered' : \E k \in repliers' :
           k.node = f.node /\ k.topic = f.topic /\ k.req = f.req /\ k.rep = f.rep
    <2>1. offered' \subseteq offered \cup {e}
      BY <1>3
    <2>2. \A f \in offered : \E k \in repliers :
             k.node = f.node /\ k.topic = f.topic /\ k.req = f.req /\ k.rep = f.rep
      BY DEF Serving
    <2>3. QED
      BY <1>1, <1>2, <1>4, <2>1, <2>2
  <1>9. QED
    BY <1>5, <1>6, <1>7, <1>8 DEF Serving

LEMMA ServingUnadvertises ==
    ASSUME Serving, UNCHANGED <<localSubscribers, topicsSubscribed>>, NEW n, NEW x,
           NA!Unadvertise(n, x)
    PROVE  Serving' /\ srvsAdvertised' = srvsAdvertised \ {Of(n, x)}
  <1>1. /\ srvsAdvertised' = srvsAdvertised \ {Of(n, x)}
        /\ repliers' = {r \in repliers : ~ (r.topic = x /\ r.node = n)}
        /\ offered' = {e \in offered : ~ (e.topic = x /\ e.node = n)}
    BY DEF NA!Unadvertise, NA!RemoveHandlersForNode, NA!HandlersOfNode, NA!Entry, Of
  <1>2. \A f : Of(f.node, f.topic) = Of(n, x) <=> f.topic = x /\ f.node = n
    BY OfIsInjective
  <1>3. srvsAdvertised' = {Of(f.node, f.topic) : f \in offered'}
    BY <1>1, <1>2 DEF Serving
  <1>4. srvsAdvertised' = {Of(f.node, f.topic) : f \in repliers'}
    BY <1>1, <1>2 DEF Serving
  <1>5. \A e \in offered' : \E r \in repliers' :
           r.node = e.node /\ r.topic = e.topic /\ r.req = e.req /\ r.rep = e.rep
    BY <1>1 DEF Serving
  <1>6. QED
    BY <1>1, <1>3, <1>4, <1>5 DEF Serving

\* A destroyed node gets nothing new.
Shrinking ==
    \A n : n \notin alive => /\ TopicsOfNode(n)' \subseteq TopicsOfNode(n)
                             /\ ServicesOfNode(n)' \subseteq ServicesOfNode(n)

LEMMA WayStays ==
    ASSUME NEW w, OnItsWay(w), alive' \subseteq alive, Shrinking
    PROVE  OnItsWay(w)'
  <1>1. ASSUME w.at = "unsubscribing"
        PROVE  w.node \notin alive' /\ TopicsOfNode(w.node)' \subseteq w.topics
    BY <1>1 DEF OnItsWay, Shrinking
  <1>2. ASSUME w.at = "unadvertising"
        PROVE  /\ w.node \notin alive' /\ TopicsOfNode(w.node)' = {}
               /\ ServicesOfNode(w.node)' \subseteq w.services
    BY <1>2 DEF OnItsWay, Shrinking
  <1>3. QED
    BY <1>1, <1>2 DEF OnItsWay

\* One thread goes on to w; if it is destroying a node, that is n.
LEMMA LeavingByDestructor ==
    ASSUME Leaving, DOMAIN thread = Threads, NEW t \in Threads, NEW n, NEW w,
           thread' = [thread EXCEPT ![t] = w],
           alive' = alive \/ alive' = alive \ {n}, Shrinking,
           \A m : Destructs(thread[t], m) => m = n,
           OnItsWay(w)', n \in alive' \/ Gone(n)' \/ Destructs(w, n)
    PROVE  Leaving'
  <1>1. thread'[t] = w /\ \A u \in Threads : u # t => thread'[u] = thread[u]
    OBVIOUS
  <1>2. ASSUME NEW u \in Threads PROVE OnItsWay(thread[u])'
    <2>1. PICK v : v = thread'[u]
      OBVIOUS
    <2>2. u # t => OnItsWay(v)
      BY <1>1, <2>1 DEF Leaving
    <2>3. OnItsWay(v)'
      BY <1>1, <2>1, <2>2, WayStays
    <2>4. QED
      BY <2>1, <2>3
  <1>3. ASSUME NEW m \in Nodes \ alive'
        PROVE  Gone(m)' \/ \E u \in Threads : Destructs(thread[u], m)'
    <2>1. CASE m = n
      BY <1>1, <1>3, <2>1 DEF Destructs
    <2>2. CASE m # n
      <3>1. m \in Nodes \ alive
        BY <1>3, <2>2
      <3>2. CASE Gone(m)
        BY <3>1, <3>2 DEF Gone, Shrinking
      <3>3. CASE \E u \in Threads : Destructs(thread[u], m)
        <4>1. PICK u \in Threads : Destructs(thread[u], m)
          BY <3>3
        <4>2. thread'[u] = thread[u]
          BY <1>1, <2>2, <4>1
        <4>3. QED
          BY <4>1, <4>2 DEF Destructs
      <3>4. QED
        BY <3>1, <3>2, <3>3 DEF Leaving
    <2>3. QED
      BY <2>1, <2>2
  <1>4. QED
    BY <1>2, <1>3 DEF Leaving

LEMMA LeavingElsewhere ==
    ASSUME Leaving, alive' = alive, thread' = thread, Shrinking PROVE Leaving'
  <1>1. ASSUME NEW u \in Threads PROVE OnItsWay(thread[u])'
    <2>1. PICK v : v = thread[u]
      OBVIOUS
    <2>2. OnItsWay(v)'
      BY <2>1, WayStays DEF Leaving
    <2>3. QED
      BY <2>1, <2>2
  <1>2. ASSUME NEW m \in Nodes \ alive'
        PROVE  Gone(m)' \/ \E u \in Threads : Destructs(thread[u], m)'
    <2>1. m \in Nodes \ alive /\ (Gone(m) \/ \E u \in Threads : Destructs(thread[u], m))
      BY <1>2 DEF Leaving
    <2>2. Gone(m) => Gone(m)'
      BY <2>1 DEF Gone, Shrinking
    <2>3. QED
      BY <2>1, <2>2 DEF Destructs
  <1>3. QED
    BY <1>1, <1>2 DEF Leaving

LEMMA Shrinks ==
    /\ topicsSubscribed' \subseteq topicsSubscribed =>
          \A n : TopicsOfNode(n)' \subseteq TopicsOfNode(n)
    /\ srvsAdvertised' \subseteq srvsAdvertised =>
          \A n : ServicesOfNode(n)' \subseteq ServicesOfNode(n)
  BY DEF TopicsOfNode, ServicesOfNode

\* The steps of the rest of the class, which leave the destructors alone.
LEMMA HoldingsInUse ==
    ASSUME Working, Serving, Leaving, NEW t \in Threads,
           \/ \E n \in Nodes, x \in Topics, s \in Slots \cup {0} : NA!Subscribe(t, n, x, s)
           \/ \E n \in Nodes, x \in Topics : NA!UnsubscribeNode(t, n, x)
           \/ \E s \in Slots : NA!UnsubscribeOwned(t, s)
           \/ \E n \in Nodes, x \in Services :
                 \/ NA!UnadvertiseSrv(t, n, x)
                 \/ \E types \in ServiceTypes : NA!AdvertiseSrv(t, n, x, types)
    PROVE  Serving' /\ Leaving'
  <1>1. ASSUME NEW n \in Nodes, NEW x \in Topics, NEW s \in Slots \cup {0},
               NA!Subscribe(t, n, x, s)
        PROVE  Serving' /\ Leaving'
    <2>1. n \in alive /\ alive' = alive /\ thread' = thread /\ srvsAdvertised' = srvsAdvertised
      BY <1>1 DEF NA!Subscribe, NA!serviceVars
    <2>2. Serving' /\ topicsSubscribed' = topicsSubscribed \cup {Of(n, x)}
      BY <1>1, ServingSubscribes
    <2>3. \A m : m \notin alive => TopicsOfNode(m)' \subseteq TopicsOfNode(m)
      BY <2>1, <2>2 DEF TopicsOfNode, Of
    <2>4. Shrinking
      BY <2>1, <2>3, Shrinks DEF Shrinking
    <2>5. QED
      BY <2>1, <2>2, <2>4, LeavingElsewhere
  <1>2. ASSUME NEW n \in Nodes, NEW x \in Topics, NA!UnsubscribeNode(t, n, x)
        PROVE  Serving' /\ Leaving'
    <2>1. /\ alive' = alive /\ thread' = thread
          /\ UNCHANGED <<srvsAdvertised, repliers, offered>>
          /\ NA!Unsubscribed(localSubscribers \ NA!HandlersOfNode(localSubscribers, x, n), n, x)
      BY <1>2 DEF NA!UnsubscribeNode, NA!RemoveHandlersForNode, NA!serviceVars
    <2>2. PICK gone : /\ gone = NA!HandlersOfNode(localSubscribers, x, n)
                      /\ \A h \in gone : h.node = n /\ h.topic = x
      BY HandlersAreOf
    <2>3. Serving' /\ topicsSubscribed' \subseteq topicsSubscribed
      BY <2>1, <2>2, ServingUnsubscribes
    <2>4. Shrinking
      BY <2>1, <2>3, Shrinks DEF Shrinking
    <2>5. QED
      BY <2>1, <2>3, <2>4, LeavingElsewhere
  <1>3. ASSUME NEW s \in Slots, NA!UnsubscribeOwned(t, s)
        PROVE  Serving' /\ Leaving'
    <2>1. PICK h : h = owned[s]
      OBVIOUS
    <2>2. /\ alive' = alive /\ thread' = thread
          /\ UNCHANGED <<srvsAdvertised, repliers, offered>>
          /\ NA!Unsubscribed(localSubscribers
                                 \ NA!Handler(localSubscribers, h.topic, h.node, h.id),
                             h.node, h.topic)
      BY <1>3, <2>1 DEF NA!UnsubscribeOwned, NA!RemoveHandler, NA!serviceVars
    <2>3. PICK gone : /\ gone = NA!Handler(localSubscribers, h.topic, h.node, h.id)
                      /\ \A k \in gone : k.node = h.node /\ k.topic = h.topic
      BY HandlersAreOf
    <2>4. PICK n, x : n = h.node /\ x = h.topic
      OBVIOUS
    <2>5. Serving' /\ topicsSubscribed' \subseteq topicsSubscribed
      BY <2>2, <2>3, <2>4, ServingUnsubscribes
    <2>6. Shrinking
      BY <2>2, <2>5, Shrinks DEF Shrinking
    <2>7. QED
      BY <2>2, <2>5, <2>6, LeavingElsewhere
  <1>4. ASSUME NEW n \in Nodes, NEW x \in Services, NA!UnadvertiseSrv(t, n, x)
        PROVE  Serving' /\ Leaving'
    <2>1. /\ alive' = alive /\ thread' = thread
          /\ UNCHANGED <<localSubscribers, topicsSubscribed>> /\ NA!Unadvertise(n, x)
      BY <1>4 DEF NA!UnadvertiseSrv, NA!subscriberVars
    <2>2. Serving' /\ srvsAdvertised' \subseteq srvsAdvertised
      BY <2>1, ServingUnadvertises
    <2>3. Shrinking
      BY <2>1, <2>2, Shrinks DEF Shrinking
    <2>4. QED
      BY <2>1, <2>2, <2>3, LeavingElsewhere
  <1>5. ASSUME NEW n \in Nodes, NEW x \in Services, NEW types \in ServiceTypes,
               NA!AdvertiseSrv(t, n, x, types)
        PROVE  Serving' /\ Leaving'
    <2>1. /\ n \in alive /\ alive' = alive /\ thread' = thread
          /\ topicsSubscribed' = topicsSubscribed
      BY <1>5 DEF NA!AdvertiseSrv, NA!subscriberVars
    <2>2. Serving' /\ srvsAdvertised' = srvsAdvertised \cup {Of(n, x)}
      BY <1>5, ServingAdvertises
    <2>3. \A m : m \notin alive => ServicesOfNode(m)' \subseteq ServicesOfNode(m)
      BY <2>1, <2>2 DEF ServicesOfNode, Of
    <2>4. Shrinking
      BY <2>1, <2>3, Shrinks DEF Shrinking
    <2>5. QED
      BY <2>1, <2>2, <2>4, LeavingElsewhere
  <1>6. QED
    BY <1>1, <1>2, <1>3, <1>4, <1>5

LEMMA HoldingsDestroyed ==
    ASSUME Working, Serving, Leaving, NEW t \in Threads,
           \/ \E n \in Nodes : NA!DestroyNode(t, n)
           \/ NA!DestroyUnsubscribe(t) \/ NA!DestroyListServices(t) \/ NA!DestroyUnadvertise(t)
    PROVE  Serving' /\ Leaving'
  <1>1. ASSUME NEW n \in Nodes, NA!DestroyNode(t, n) PROVE Serving' /\ Leaving'
    <2>1. PICK w : w = [at |-> "unsubscribing", node |-> n, topics |-> TopicsOfNode(n)]
      OBVIOUS
    <2>2. /\ thread' = [thread EXCEPT ![t] = w] /\ alive' = alive \ {n}
          /\ UNCHANGED <<localSubscribers, topicsSubscribed, srvsAdvertised, repliers, offered>>
          /\ thread[t].at = "nothing"
      BY <1>1, <2>1, IdleThread DEF NA!DestroyNode, NA!Continue, NA!SubscribedTopics,
         TopicsOfNode, NA!subscriberVars, NA!serviceVars
    <2>3. \A m : TopicsOfNode(m)' = TopicsOfNode(m) /\ ServicesOfNode(m)' = ServicesOfNode(m)
      BY <2>2 DEF TopicsOfNode, ServicesOfNode
    <2>4. w.at = "unsubscribing" /\ w.node = n /\ TopicsOfNode(n)' \subseteq w.topics
      BY <2>1, <2>3
    <2>5. OnItsWay(w)' /\ Destructs(w, n) /\ Shrinking /\ \A m : ~ Destructs(thread[t], m)
      BY <2>2, <2>3, <2>4 DEF OnItsWay, Destructs, Shrinking
    <2>6. Serving'
      BY <2>2 DEF Serving
    <2>7. QED
      BY <2>2, <2>5, <2>6, LeavingByDestructor DEF Working
  <1>2. CASE NA!DestroyUnsubscribe(t)
    <2>1. PICK n, old : n = thread[t].node /\ old = thread[t].topics
      OBVIOUS
    <2>2. PICK x \in old :
              /\ NA!Unsubscribed(localSubscribers
                                     \ NA!HandlersOfNode(localSubscribers, x, n), n, x)
              /\ thread' = [thread EXCEPT ![t] = [thread[t] EXCEPT !.topics = @ \ {x}]]
      BY <1>2, <2>1 DEF NA!DestroyUnsubscribe, NA!RemoveHandlersForNode, NA!Continue
    <2>3. /\ thread[t].at = "unsubscribing" /\ alive' = alive
          /\ UNCHANGED <<srvsAdvertised, repliers, offered>>
      BY <1>2 DEF NA!DestroyUnsubscribe, NA!Doing, NA!serviceVars
    <2>4. PICK w : w = [thread[t] EXCEPT !.topics = old \ {x}]
      OBVIOUS
    <2>5. /\ thread' = [thread EXCEPT ![t] = w]
          /\ w.at = "unsubscribing" /\ w.node = n /\ w.topics = old \ {x}
      BY <2>1, <2>2, <2>3, <2>4, DestroyingWork
    <2>6. PICK gone : /\ gone = NA!HandlersOfNode(localSubscribers, x, n)
                      /\ \A h \in gone : h.node = n /\ h.topic = x
      BY HandlersAreOf
    <2>7. Serving' /\ topicsSubscribed' \subseteq topicsSubscribed
      BY <2>2, <2>3, <2>6, ServingUnsubscribes
    <2>8. topicsSubscribed' = topicsSubscribed \ {Of(n, x)}
      BY <2>2 DEF NA!Unsubscribed, NA!HasHandlersForNode, NA!HandlersOfNode, NA!Entry, Of
    <2>9. \A e \in topicsSubscribed : e = Of(e.node, e.topic)
      BY DEF Serving, Of
    <2>10. TopicsOfNode(n)' \subseteq TopicsOfNode(n) \ {x}
      BY <2>8, <2>9 DEF TopicsOfNode
    <2>11. n \notin alive /\ TopicsOfNode(n) \subseteq old
      BY <2>1, <2>3 DEF Leaving, OnItsWay
    <2>12. /\ OnItsWay(w)' /\ Destructs(w, n)
           /\ \A m : Destructs(thread[t], m) => m = n
      BY <2>1, <2>3, <2>5, <2>10, <2>11 DEF OnItsWay, Destructs
    <2>13. Shrinking
      BY <2>3, <2>7, Shrinks DEF Shrinking
    <2>14. QED
      BY <2>3, <2>5, <2>7, <2>12, <2>13, LeavingByDestructor DEF Working
  <1>3. CASE NA!DestroyListServices(t)
    <2>1. PICK n : n = thread[t].node
      OBVIOUS
    <2>2. PICK w : w = [at |-> "unadvertising", node |-> n, services |-> ServicesOfNode(n)]
      OBVIOUS
    <2>3. /\ thread' = [thread EXCEPT ![t] = w] /\ alive' = alive
          /\ UNCHANGED <<localSubscribers, topicsSubscribed, srvsAdvertised, repliers, offered>>
          /\ thread[t].at = "unsubscribing" /\ thread[t].topics = {}
      BY <1>3, <2>1, <2>2 DEF NA!DestroyListServices, NA!Continue, NA!Doing,
         NA!AdvertisedServices, ServicesOfNode, NA!subscriberVars, NA!serviceVars
    <2>4. \A m : TopicsOfNode(m)' = TopicsOfNode(m) /\ ServicesOfNode(m)' = ServicesOfNode(m)
      BY <2>3 DEF TopicsOfNode, ServicesOfNode
    <2>5. n \notin alive /\ TopicsOfNode(n) = {}
      BY <2>1, <2>3 DEF Leaving, OnItsWay
    <2>6. w.at = "unadvertising" /\ w.node = n /\ w.services = ServicesOfNode(n)
      BY <2>2
    <2>7. /\ OnItsWay(w)' /\ Destructs(w, n) /\ Shrinking
          /\ \A m : Destructs(thread[t], m) => m = n
      BY <2>1, <2>3, <2>4, <2>5, <2>6 DEF OnItsWay, Destructs, Shrinking
    <2>8. Serving'
      BY <2>3 DEF Serving
    <2>9. QED
      BY <2>3, <2>7, <2>8, LeavingByDestructor DEF Working
  <1>4. CASE NA!DestroyUnadvertise(t)
    <2>1. PICK n, old : n = thread[t].node /\ old = thread[t].services
      OBVIOUS
    <2>2. /\ thread[t].at = "unadvertising" /\ alive' = alive
          /\ UNCHANGED <<localSubscribers, topicsSubscribed>>
      BY <1>4 DEF NA!DestroyUnadvertise, NA!Doing, NA!subscriberVars
    <2>3. /\ n \notin alive /\ TopicsOfNode(n) = {} /\ ServicesOfNode(n) \subseteq old
          /\ \A m : Destructs(thread[t], m) => m = n
      BY <2>1, <2>2 DEF Leaving, OnItsWay, Destructs
    <2>4. CASE old = {} /\ thread' = [thread EXCEPT ![t] = Nothing]
                        /\ UNCHANGED <<srvsAdvertised, repliers, offered>>
      <3>1. \A m : TopicsOfNode(m)' = TopicsOfNode(m) /\ ServicesOfNode(m)' = ServicesOfNode(m)
        BY <2>2, <2>4 DEF TopicsOfNode, ServicesOfNode
      <3>2. Gone(n)' /\ Shrinking /\ OnItsWay(Nothing)'
        BY <2>3, <2>4, <3>1 DEF Gone, Shrinking, OnItsWay, Nothing
      <3>3. Serving'
        BY <2>2, <2>4 DEF Serving
      <3>4. QED
        BY <2>2, <2>3, <2>4, <3>2, <3>3, LeavingByDestructor DEF Working
    <2>5. ASSUME NEW x \in old, NA!Unadvertise(n, x),
                 thread' = [thread EXCEPT ![t] = [thread[t] EXCEPT !.services = @ \ {x}]]
          PROVE  Serving' /\ Leaving'
      <3>1. PICK w : w = [thread[t] EXCEPT !.services = old \ {x}]
        OBVIOUS
      <3>2. /\ thread' = [thread EXCEPT ![t] = w]
            /\ w.at = "unadvertising" /\ w.node = n /\ w.services = old \ {x}
        BY <2>1, <2>2, <2>5, <3>1, DestroyingWork
      <3>3. Serving' /\ srvsAdvertised' = srvsAdvertised \ {Of(n, x)}
        BY <2>2, <2>5, ServingUnadvertises
      <3>4. \A e \in srvsAdvertised : e = Of(e.node, e.topic)
        BY DEF Serving, Of
      <3>5. ServicesOfNode(n)' \subseteq ServicesOfNode(n) \ {x}
        BY <3>3, <3>4 DEF ServicesOfNode
      <3>6. TopicsOfNode(n)' = TopicsOfNode(n)
        BY <2>2 DEF TopicsOfNode
      <3>7. OnItsWay(w)' /\ Destructs(w, n)
        BY <2>2, <2>3, <3>2, <3>5, <3>6 DEF OnItsWay, Destructs
      <3>8. Shrinking
        BY <2>2, <3>3, Shrinks DEF Shrinking
      <3>9. QED
        BY <2>2, <2>3, <3>2, <3>3, <3>7, <3>8, LeavingByDestructor DEF Working
    <2>6. QED
      BY <1>4, <2>1, <2>4, <2>5 DEF NA!DestroyUnadvertise, NA!Continue, NA!serviceVars,
         NA!Nothing, Nothing
  <1>5. QED
    BY <1>1, <1>2, <1>3, <1>4

Held == Working /\ Publishing /\ Serving /\ Leaving

LEMMA HeldInit == ASSUME NA!Init PROVE Held
  <1>1. /\ thread = [t \in Threads |-> Nothing] /\ held = [s \in Slots |-> Nothing]
        /\ \A t \in Threads : thread[t] = Nothing
    BY DEF NA!Init, NA!Nothing, Nothing
  <1>2. Working
    BY <1>1 DEF Working, IsWork
  <1>3. Publishing
    BY <1>1 DEF NA!Init, Publishing, Nothing
  <1>4. Serving
    BY DEF NA!Init, Serving
  <1>5. Leaving
    BY <1>1 DEF NA!Init, Leaving, OnItsWay, Nothing
  <1>6. QED
    BY <1>2, <1>3, <1>4, <1>5 DEF Held

\* A publisher's life is nothing to subscriptions, services and destructors.
LEMMA HoldingsElsewhere ==
    ASSUME Working, Serving, Leaving, NEW t \in Threads, NEW w,
           UNCHANGED <<localSubscribers, topicsSubscribed, srvsAdvertised, repliers, offered,
                       alive>>,
           thread' = [thread EXCEPT ![t] = w],
           thread[t].at \notin {"unsubscribing", "unadvertising"},
           w.at \notin {"unsubscribing", "unadvertising"}
    PROVE  Serving' /\ Leaving'
  <1>1. Serving'
    BY DEF Serving
  <1>2. \A m : TopicsOfNode(m)' = TopicsOfNode(m) /\ ServicesOfNode(m)' = ServicesOfNode(m)
    BY DEF TopicsOfNode, ServicesOfNode
  <1>3. thread'[t] = w /\ \A u \in Threads : u # t => thread'[u] = thread[u]
    BY DEF Working
  <1>4. \A u \in Threads : OnItsWay(thread[u])'
    BY <1>2, <1>3 DEF Leaving, OnItsWay
  <1>5. ASSUME NEW m \in Nodes \ alive'
        PROVE  Gone(m)' \/ \E u \in Threads : Destructs(thread[u], m)'
    <2>1. Gone(m) \/ \E u \in Threads : u # t /\ Destructs(thread[u], m)
      BY <1>5 DEF Leaving, Destructs
    <2>2. Gone(m) => Gone(m)'
      BY <1>2 DEF Gone
    <2>3. QED
      BY <1>3, <2>1, <2>2 DEF Destructs
  <1>6. QED
    BY <1>1, <1>4, <1>5 DEF Leaving

LEMMA HoldingsOfPublishers ==
    ASSUME Working, Serving, Leaving, NEW t \in Threads,
           \/ \E n \in Nodes, x \in Topics, s \in Slots : NA!AdvertiseTest(t, n, x, s)
           \/ NA!AdvertisePublisher(t) \/ NA!AssignResult(t) \/ NA!DestroyPublisher(t)
           \/ \E s \in Slots : NA!DropPublisher(t, s)
           \/ \E s, u \in Slots : NA!CopyPublisher(t, s, u)
    PROVE  Serving' /\ Leaving'
  <1>1. /\ UNCHANGED <<localSubscribers, topicsSubscribed, srvsAdvertised, repliers, offered,
                       alive>>
        /\ thread[t].at \notin {"unsubscribing", "unadvertising"}
    BY IdleThread DEF NA!AdvertiseTest, NA!AdvertisePublisher, NA!AssignResult, NA!Assign,
       NA!DestroyPublisher, NA!DropPublisher, NA!CopyPublisher, NA!subscriberVars,
       NA!serviceVars, NA!Doing
  <1>2. ASSUME NEW w, thread' = [thread EXCEPT ![t] = w],
               w.at \in {"assigning", "advertising", "destroying", "nothing"}
        PROVE  Serving' /\ Leaving'
    BY <1>1, <1>2, HoldingsElsewhere
  <1>3. ASSUME NEW s \in Slots, NEW p, NA!Assign(t, s, p) PROVE Serving' /\ Leaving'
    <2>1. PICK w : /\ w = Nothing \/ w = [at |-> "destroying", publisher |-> held[s]]
                   /\ thread' = [thread EXCEPT ![t] = w]
      BY <1>3 DEF NA!Assign, NA!Continue, NA!Nothing, Nothing
    <2>2. QED
      BY <1>2, <2>1 DEF Nothing
  <1>4. ASSUME NA!AssignResult(t) \/ (\E s \in Slots : NA!DropPublisher(t, s))
               \/ \E s, u \in Slots : NA!CopyPublisher(t, s, u)
        PROVE  \E s \in Slots : \E p : NA!Assign(t, s, p)
    BY <1>4, WorkIs DEF NA!AssignResult, NA!DropPublisher, NA!CopyPublisher, NA!Doing
  <1>5. ASSUME NEW n \in Nodes, NEW x \in Topics, NEW s \in Slots, NA!AdvertiseTest(t, n, x, s)
        PROVE  Serving' /\ Leaving'
    <2>1. PICK w :
              /\ \/ w = [at |-> "assigning", slot |-> s, to |-> Nothing]
                 \/ w = [at |-> "advertising", node |-> n, topic |-> x, slot |-> s]
              /\ thread' = [thread EXCEPT ![t] = w]
      BY <1>5 DEF NA!AdvertiseTest, NA!Continue, NA!Nothing, Nothing
    <2>2. w.at \in {"assigning", "advertising"}
      BY <2>1
    <2>3. QED
      BY <1>2, <2>1, <2>2
  <1>6. CASE NA!AdvertisePublisher(t)
    <2>1. PICK slot, to : thread' = [thread EXCEPT ![t] = [at |-> "assigning", slot |-> slot,
                                                           to |-> to]]
      BY <1>6 DEF NA!AdvertisePublisher, NA!Continue
    <2>2. QED
      BY <1>2, <2>1
  <1>7. CASE NA!DestroyPublisher(t)
    <2>1. thread' = [thread EXCEPT ![t] = Nothing]
      BY <1>7 DEF NA!DestroyPublisher, NA!Continue, NA!Nothing, Nothing
    <2>2. QED
      BY <1>2, <2>1 DEF Nothing
  <1>8. QED
    BY <1>3, <1>4, <1>5, <1>6, <1>7

LEMMA HoldingsSteps == ASSUME Working, Serving, Leaving, NA!Next PROVE Serving' /\ Leaving'
  <1>1. PICK t \in Threads :
           \/ \/ \E n \in Nodes, x \in Topics, s \in Slots : NA!AdvertiseTest(t, n, x, s)
              \/ NA!AdvertisePublisher(t) \/ NA!AssignResult(t) \/ NA!DestroyPublisher(t)
              \/ \E s \in Slots : NA!DropPublisher(t, s)
              \/ \E s, u \in Slots : NA!CopyPublisher(t, s, u)
           \/ \/ \E n \in Nodes, x \in Topics, s \in Slots \cup {0} : NA!Subscribe(t, n, x, s)
              \/ \E n \in Nodes, x \in Topics : NA!UnsubscribeNode(t, n, x)
              \/ \E s \in Slots : NA!UnsubscribeOwned(t, s)
              \/ \E n \in Nodes, x \in Services :
                    \/ NA!UnadvertiseSrv(t, n, x)
                    \/ \E types \in ServiceTypes : NA!AdvertiseSrv(t, n, x, types)
           \/ \/ \E n \in Nodes : NA!DestroyNode(t, n)
              \/ NA!DestroyUnsubscribe(t) \/ NA!DestroyListServices(t)
              \/ NA!DestroyUnadvertise(t)
           \/ \E s, u \in Slots : NA!MoveSubscriber(t, s, u)
    BY DEF NA!Next
  <1>2. CASE \E s, u \in Slots : NA!MoveSubscriber(t, s, u)
    <2>1. UNCHANGED <<localSubscribers, topicsSubscribed, srvsAdvertised, repliers, offered,
                      alive, thread>>
      BY <1>2 DEF NA!MoveSubscriber, NA!serviceVars
    <2>2. Serving' /\ topicsSubscribed' \subseteq topicsSubscribed
          /\ srvsAdvertised' \subseteq srvsAdvertised
      BY <2>1 DEF Serving
    <2>3. Shrinking
      BY <2>2, Shrinks DEF Shrinking
    <2>4. QED
      BY <2>1, <2>2, <2>3, LeavingElsewhere
  <1>3. QED
    BY <1>1, <1>2, HoldingsOfPublishers, HoldingsInUse, HoldingsDestroyed

LEMMA HeldNext ==
    ASSUME Held, IF part = "node" THEN NA!Next ELSE UNCHANGED nodeVars, part = "node"
    PROVE  Held'
  BY PublishingSteps, HoldingsSteps DEF Held

LEMMA HeldRests == ASSUME Held, UNCHANGED nodeVars PROVE Held'
  <1>1. UNCHANGED <<advertised, publishers, held, localSubscribers, topicsSubscribed,
                    srvsAdvertised, repliers, offered, thread, alive>>
    BY DEF nodeVars
  <1>2. Working' /\ Publishing'
    BY <1>1, PublishingRests DEF Held
  <1>3. Serving'
    BY <1>1 DEF Held, Serving
  <1>4. Shrinking
    BY <1>1, Shrinks DEF Shrinking
  <1>5. Leaving'
    BY <1>1, <1>4, LeavingElsewhere DEF Held
  <1>6. QED
    BY <1>2, <1>3, <1>5 DEF Held

LEMMA HeldSuffices ==
    ASSUME Held PROVE NA!AdvertisedWhileHeld /\ NA!ListedIsServed /\ NA!NodeLeavesNothing
  <1>1. NA!AdvertisedWhileHeld
    BY DEF Held, Working, Publishing, NA!AdvertisedWhileHeld, NA!Entry, Of, NA!Nothing, Nothing
  <1>2. NA!ListedIsServed
    <2>1. \A e \in offered : NA!RepliersOf(repliers, e.topic, e.req, e.rep) # {}
      BY DEF Held, Serving, NA!RepliersOf, NA!Handlers
    <2>2. QED
      BY <2>1 DEF Held, Serving, NA!ListedIsServed, NA!Entry, Of
  <1>3. NA!NodeLeavesNothing
    <2>1. ASSUME NEW n \in Nodes \ alive, Gone(n)
          PROVE  /\ NA!SubscribedTopics(n) = {} /\ NA!AdvertisedServices(n) = {}
                 /\ \A h \in localSubscribers \cup repliers : h.node # n
                 /\ \A e \in offered : e.node # n
      <3>1. /\ \A e \in topicsSubscribed : e.node # n
            /\ \A e \in srvsAdvertised : e.node # n
        BY <2>1 DEF Gone, TopicsOfNode, ServicesOfNode
      <3>2. \A h : Of(h.node, h.topic).node = h.node
        BY DEF Of
      <3>3. \A h \in localSubscribers : Of(h.node, h.topic) \in topicsSubscribed
        BY DEF Held, Serving
      <3>4. \A h \in repliers \cup offered : Of(h.node, h.topic) \in srvsAdvertised
        <4>1. \A h \in repliers : Of(h.node, h.topic) \in srvsAdvertised
          BY DEF Held, Serving
        <4>2. \A h \in offered : Of(h.node, h.topic) \in srvsAdvertised
          BY DEF Held, Serving
        <4>3. QED
          BY <4>1, <4>2
      <3>5. /\ \A h \in localSubscribers \cup repliers : h.node # n
            /\ \A e \in offered : e.node # n
        BY <3>1, <3>2, <3>3, <3>4
      <3>6. QED
        BY <2>1, <3>5 DEF Gone, TopicsOfNode, ServicesOfNode, NA!SubscribedTopics,
           NA!AdvertisedServices
    <2>2. QED
      BY <2>1 DEF Held, Leaving, Destructs, NA!NodeLeavesNothing
  <1>4. QED
    BY <1>1, <1>2, <1>3

\* However the threads of a process interleave: a topic is advertised for a node
\* exactly as long as the one object for it exists; what the node lists, discovery
\* announces and the handlers serve agree; and a destroyed node leaves nothing but
\* the publishers that the program holds on to.
THEOREM BooksOfNodesAgree == NodePartsSpec => []NodeState
  <1>1. NodePartsInit => (part = "node" => Held)
    BY HeldInit DEF NodePartsInit
  <1>2. (part = "node" => Held) /\ [NodePartsNext]_nodePartsVars => (part = "node" => Held)'
    BY HeldNext, HeldRests DEF NodePartsNext, nodePartsVars
  <1>3. (part = "node" => Held) => NodeState
    BY HeldSuffices DEF NodeState
  <1>4. QED
    BY <1>1, <1>2, <1>3, PTL DEF NodePartsSpec

-----------------------------------------------------------------------------
(* The books that are kept from the liveliness tokens of Zenoh.            *)

LiveKeys == LI!KeysOf(tokens)

\* The key of a token that e is the entry of.
Owns(k, e) == k.kind = e.topic /\ k.pUuid = e.pUuid /\ k.nUuid = e.nUuid

\* The handler is still to be told of a token of k's owner.
Involved(k) == \E i \in DOMAIN samples : LI!SameOwner(samples[i].key, k)

LastPut(k) ==
    \E i \in DOMAIN samples :
        /\ samples[i].sample = "PUT" /\ samples[i].key = k
        /\ \A j \in DOMAIN samples : j > i => ~ LI!SameOwner(samples[j].key, k)

SampleOfKey == [sample : {"PUT", "DELETE"}, key : LI!Key]

TokensTyped ==
    /\ IsFiniteSet(tokens) /\ \A t \in tokens : t.key \in LI!Key
    /\ samples \in Seq(SampleOfKey)

DestructorTyped ==
    \/ destructor = LI!Idle
    \/ \E pc, t : /\ destructor = [pc |-> pc, token |-> t]
                  /\ t.key \in LI!Key /\ t.key.pUuid = Self

\* Publishers and services are in one book, other processes' subscribers in the other.
KindsTyped ==
    /\ \A e \in found : e.topic # "MS"
    /\ \A e \in subscribers : e.topic = "MS" /\ e.pUuid # Self

\* The owner of an entry has a token, or the handler is told that it had one.
HasToken(e) ==
    \/ \E k \in LiveKeys : Owns(k, e)
    \/ \E i \in DOMAIN samples : Owns(samples[i].key, e)

EntriesAlive == \A e \in found \cup subscribers : HasToken(e)

\* A key that is not declared is not the last that the handler is told of it.
PutsAreLive ==
    \A i \in DOMAIN samples :
        samples[i].sample = "PUT"
            /\ (\A j \in DOMAIN samples : j > i => samples[j].key # samples[i].key)
        => samples[i].key \in LiveKeys

IsMixed(k) == \E m \in mixed : LI!SameOwner(m, k)

MixedKnown == \A k, l \in LiveKeys : LI!SameOwner(k, l) /\ k # l => IsMixed(k)

\* A token is listed, or the last that the handler is to be told of its owner.
LiveListed ==
    \A k \in LiveKeys :
        \/ k.pUuid = Self \/ IsMixed(k) \/ LastPut(k)
        \/ ~ Involved(k) /\ \E e \in found \cup subscribers : Owns(k, e)

\* The book of NodeShared is that of Discovery but for the callback under way.
CalledBack ==
    \/ dataHandler = LI!Idle /\ subscribers = registered
    \/ \E e : /\ dataHandler = LI!Callback("register", e)
              /\ subscribers = LI!AddPublisher(registered, e)
    \/ \E e : /\ dataHandler = LI!Callback("unregister", e)
              /\ subscribers = LI!DelPublisherByNode(registered, e.topic, e.pUuid, e.nUuid)

Agreeing ==
    /\ TokensTyped /\ DestructorTyped /\ KindsTyped /\ EntriesAlive
    /\ PutsAreLive /\ MixedKnown /\ LiveListed /\ CalledBack

LEMMA AgreeingInit == LI!Init => Agreeing
  <1> SUFFICES ASSUME LI!Init PROVE Agreeing
    OBVIOUS
  <1>1. IsFiniteSet({}) /\ <<>> \in Seq(SampleOfKey)
    BY FS_EmptySet
  <1>2. LiveKeys = {} /\ DOMAIN samples = {}
    BY DEF LI!Init, LiveKeys, LI!KeysOf
  <1>3. TokensTyped /\ DestructorTyped /\ CalledBack
    BY <1>1 DEF LI!Init, TokensTyped, DestructorTyped, CalledBack
  <1>4. KindsTyped /\ EntriesAlive /\ PutsAreLive /\ MixedKnown /\ LiveListed
    BY <1>2 DEF LI!Init, KindsTyped, EntriesAlive, PutsAreLive, MixedKnown, LiveListed
  <1>5. QED
    BY <1>3, <1>4 DEF Agreeing

LEMMA AgreeingSuffices == Agreeing => LI!BooksAgreeWithTokens
  <1> SUFFICES ASSUME Agreeing, LI!Settled
               PROVE  /\ \A e \in found \cup subscribers \cup registered : LI!TokensOf(e) # {}
                      /\ subscribers = registered
                      /\ \A t \in tokens :
                            \/ t.key.pUuid = Self
                            \/ \E k \in mixed : LI!SameOwner(k, t.key)
                            \/ \E e \in found \cup registered : t \in LI!TokensOf(e)
    BY DEF LI!BooksAgreeWithTokens
  <1>1. samples = <<>> /\ dataHandler.pc = "idle"
    BY DEF LI!Settled, LI!Idle
  <1>2. subscribers = registered
    BY <1>1 DEF Agreeing, CalledBack, LI!Callback
  <1>3. ASSUME NEW e \in found \cup subscribers PROVE LI!TokensOf(e) # {}
    <2>1. PICK k \in LiveKeys : Owns(k, e)
      BY <1>1 DEF Agreeing, EntriesAlive, HasToken
    <2>2. PICK t \in tokens : t.key = k
      BY DEF LiveKeys, LI!KeysOf
    <2>3. t \in LI!TokensOf(e)
      BY <2>1, <2>2 DEF Owns, LI!TokensOf
    <2>4. QED
      BY <2>3
  <1>4. ASSUME NEW t \in tokens
        PROVE  \/ t.key.pUuid = Self
               \/ \E k \in mixed : LI!SameOwner(k, t.key)
               \/ \E e \in found \cup registered : t \in LI!TokensOf(e)
    <2>1. t.key \in LiveKeys
      BY DEF LiveKeys, LI!KeysOf
    <2>2. ~ LastPut(t.key)
      BY <1>1 DEF LastPut
    <2>3. \A e : Owns(t.key, e) => t \in LI!TokensOf(e)
      BY DEF Owns, LI!TokensOf
    <2>4. QED
      BY <1>2, <2>1, <2>2, <2>3 DEF Agreeing, LiveListed, IsMixed
  <1>5. QED
    BY <1>2, <1>3, <1>4

\* What follows from the samples that were there, and from one that is new.
LEMMA AgreeingDeclares ==
    ASSUME Agreeing, NEW key \in LI!Key, LI!Declare(key), UNCHANGED <<LI!here, destructor>>
    PROVE  Agreeing'
  <1>1. /\ tokens' = tokens \cup {[id |-> declared + 1, key |-> key]}
        /\ samples' = IF key \in LiveKeys THEN samples
                      ELSE Append(samples, [sample |-> "PUT", key |-> key])
        /\ mixed' = mixed \cup { k \in LiveKeys : LI!SameOwner(k, key) /\ k # key }
        /\ UNCHANGED <<found, subscribers, registered, dataHandler, destructor>>
    BY DEF LI!Declare, LI!here, LiveKeys
  <1>2. LiveKeys' = LiveKeys \cup {key}
    <2> DEFINE new == [id |-> declared + 1, key |-> key]
    <2>1. tokens' = tokens \cup {new} /\ new.key = key
      BY <1>1
    <2> HIDE DEF new
    <2>2. QED
      BY <2>1 DEF LiveKeys, LI!KeysOf
  <1>3. TokensTyped'
    <2>1. IsFiniteSet(tokens')
      BY <1>1, FS_AddElement DEF Agreeing, TokensTyped
    <2>2. [sample |-> "PUT", key |-> key] \in SampleOfKey
      BY DEF SampleOfKey
    <2>3. samples' \in Seq(SampleOfKey)
      BY <1>1, <2>2 DEF Agreeing, TokensTyped
    <2>4. \A t \in tokens' : t.key \in LI!Key
      BY <1>1 DEF Agreeing, TokensTyped
    <2>5. QED
      BY <2>1, <2>3, <2>4 DEF TokensTyped
  <1>4. MixedKnown'
    BY <1>1, <1>2 DEF Agreeing, MixedKnown, IsMixed, LI!SameOwner
  <1>5. CASE key \in LiveKeys
    <2>1. UNCHANGED samples /\ LiveKeys' = LiveKeys
      BY <1>1, <1>2, <1>5
    <2>2. EntriesAlive' /\ PutsAreLive' /\ LiveListed'
      BY <1>1, <2>1 DEF Agreeing, EntriesAlive, PutsAreLive, LiveListed, HasToken, LastPut, Involved,
         IsMixed
    <2>3. QED
      BY <1>1, <1>3, <1>4, <2>2 DEF Agreeing, DestructorTyped, KindsTyped, CalledBack
  <1>6. CASE key \notin LiveKeys
    <2> DEFINE n == Len(samples)
    <2>1. /\ samples \in Seq(SampleOfKey) /\ n \in Nat /\ DOMAIN samples = 1..n
          /\ DOMAIN samples' = 1..(n + 1)
          /\ \A i \in 1..n : samples'[i] = samples[i]
          /\ samples'[n + 1].sample = "PUT" /\ samples'[n + 1].key = key
      <3>1. samples \in Seq(SampleOfKey)
        BY DEF Agreeing, TokensTyped
      <3>2. samples' = Append(samples, [sample |-> "PUT", key |-> key])
        BY <1>1, <1>6
      <3>3. QED
        BY <3>1, <3>2
    <2> HIDE DEF n
    <2>2. EntriesAlive'
      BY <1>1, <1>2, <2>1 DEF Agreeing, EntriesAlive, HasToken
    <2>3. PutsAreLive'
      BY <1>2, <2>1 DEF Agreeing, PutsAreLive
    <2>4. LastPut(key)'
      BY <2>1 DEF LastPut
    <2>5. ASSUME NEW k \in LiveKeys, ~ IsMixed(k)', k.pUuid # Self
          PROVE  \/ LastPut(k)'
                 \/ ~ Involved(k)' /\ \E e \in found \cup subscribers : Owns(k, e)
      <3>1. ~ LI!SameOwner(key, k)
        BY <1>1, <1>6, <2>5 DEF IsMixed, LI!SameOwner
      <3>2. ~ IsMixed(k)
        BY <1>1, <2>5 DEF IsMixed
      <3>3. LastPut(k) => LastPut(k)'
        BY <2>1, <3>1 DEF LastPut
      <3>4. ~ Involved(k) => ~ Involved(k)'
        BY <2>1, <3>1 DEF Involved
      <3>5. QED
        BY <2>5, <3>2, <3>3, <3>4 DEF Agreeing, LiveListed
    <2>6. LiveListed'
      BY <1>1, <1>2, <2>4, <2>5 DEF LiveListed
    <2>7. QED
      BY <1>1, <1>3, <1>4, <2>2, <2>3, <2>6 DEF Agreeing, DestructorTyped, KindsTyped, CalledBack
  <1>7. QED
    BY <1>5, <1>6

LEMMA LiveCardinality == \A S : LI!Cardinality(S) = Cardinality(S)
  BY DEF LI!Cardinality, Cardinality

\* The keys that are not declared any more without the tokens of T.
Ended(T) == LI!KeysOf(T) \ LI!KeysOf(tokens \ T)

\* Their samples come after those that are there.
Appended(n, m, T) ==
    /\ DOMAIN samples = 1..n /\ DOMAIN samples' = 1..(n + m)
    /\ \A i \in 1..n : samples'[i] = samples[i]
    /\ \A i \in (n + 1)..(n + m) : samples'[i].sample = "DELETE" /\ samples'[i].key \in Ended(T)
    /\ \A k \in Ended(T) : \E i \in (n + 1)..(n + m) : samples'[i].key = k

LEMMA EndedSamples ==
    ASSUME TokensTyped, NEW T, IsFiniteSet(T), \A t \in T : t.key \in LI!Key, LI!Undeclare(T)
    PROVE  /\ tokens' = tokens \ T /\ mixed' = mixed
           /\ samples' \in Seq(SampleOfKey)
           /\ \E n, m \in Nat : Appended(n, m, T)
  <1>1. IsFiniteSet(Ended(T)) /\ Ended(T) \subseteq LI!Key
    <2> DEFINE f == [t \in T |-> t.key]
    <2>1. LI!KeysOf(T) \subseteq LI!Key
      BY DEF LI!KeysOf
    <2>2. f \in Surjection(T, LI!KeysOf(T))
      BY DEF Surjection, LI!KeysOf
    <2>3. QED
      BY <2>1, <2>2, FS_Surjection, FS_Difference DEF Ended
  <1> DEFINE m == Cardinality(Ended(T))
  <1>2. PICK order \in [1..m -> Ended(T)] :
          /\ { order[i] : i \in DOMAIN order } = Ended(T)
          /\ samples' = samples \o
                 [i \in DOMAIN order |-> [sample |-> "DELETE", key |-> order[i]]]
    BY <1>1, LiveCardinality, FS_CardinalityType DEF LI!Undeclare, Ended
  <1>0. m \in Nat
    BY <1>1, FS_CardinalityType
  <1> HIDE DEF m
  <1> DEFINE ended == [i \in 1..m |-> [sample |-> "DELETE", key |-> order[i]]]
             n == Len(samples)
  <1>3. samples \in Seq(SampleOfKey) /\ n \in Nat /\ DOMAIN samples = 1..n
    BY DEF TokensTyped
  <1>4. \A i \in 1..m : /\ order[i] \in Ended(T)
                        /\ ended[i].sample = "DELETE" /\ ended[i].key = order[i]
    OBVIOUS
  <1>5. ended \in Seq(SampleOfKey) /\ Len(ended) = m
    <2>1. \A i \in 1..m : [sample |-> "DELETE", key |-> order[i]] \in SampleOfKey
      BY <1>1, <1>4 DEF SampleOfKey
    <2>2. ended \in [1..m -> SampleOfKey]
      BY <2>1
    <2>3. QED
      BY <1>0, <2>2
  <1>6. samples' = samples \o ended
    BY <1>2
  <1> HIDE DEF ended, n
  <1>7. /\ samples' \in Seq(SampleOfKey) /\ Len(samples') = n + m
        /\ \A i \in 1..(n + m) : samples'[i] = IF i <= n THEN samples[i] ELSE ended[i - n]
    BY <1>3, <1>5, <1>6, ConcatProperties, Zenon DEF n
  <1>8. DOMAIN samples' = 1..(n + m) /\ \A i \in 1..n : samples'[i] = samples[i]
    BY <1>0, <1>3, <1>7
  <1>9. \A i \in 1..m : n + i \in (n + 1)..(n + m) /\ samples'[n + i] = ended[i]
    BY <1>0, <1>3, <1>7
  <1>10. \A i \in (n + 1)..(n + m) : i - n \in 1..m /\ samples'[i] = ended[i - n]
    BY <1>0, <1>3, <1>7
  <1>11. \A k \in Ended(T) : \E i \in 1..m : order[i] = k
    BY <1>2
  <1>12. \A i \in (n + 1)..(n + m) : samples'[i].sample = "DELETE" /\ samples'[i].key \in Ended(T)
    BY <1>4, <1>10
  <1>13. \A k \in Ended(T) : \E i \in (n + 1)..(n + m) : samples'[i].key = k
    BY <1>4, <1>9, <1>11
  <1>14. Appended(n, m, T)
    BY <1>3, <1>8, <1>12, <1>13 DEF Appended
  <1>15. QED
    BY <1>0, <1>3, <1>7, <1>14 DEF LI!Undeclare

LEMMA AgreeingUndeclares ==
    ASSUME Agreeing, NEW T, IsFiniteSet(T), LI!Undeclare(T), UNCHANGED LI!here, DestructorTyped',
           \A t \in T : t.key \in LI!Key /\ (t \in tokens \/ t.key.pUuid = Self)
    PROVE  Agreeing'
  <1>1. /\ tokens' = tokens \ T /\ mixed' = mixed /\ samples' \in Seq(SampleOfKey)
        /\ UNCHANGED <<found, subscribers, registered, dataHandler>>
    BY EndedSamples DEF Agreeing, LI!here
  <1>2. PICK n, m \in Nat : Appended(n, m, T)
    BY EndedSamples DEF Agreeing
  <1>3. /\ LiveKeys' = LI!KeysOf(tokens \ T)
        /\ LiveKeys' \subseteq LiveKeys /\ LiveKeys \ LiveKeys' \subseteq Ended(T)
        /\ \A k \in Ended(T) : k \in LiveKeys \ LiveKeys' \/ k.pUuid = Self
    BY <1>1 DEF LiveKeys, LI!KeysOf, Ended
  <1>4. TokensTyped'
    BY <1>1, FS_Difference DEF Agreeing, TokensTyped
  <1>5. MixedKnown'
    BY <1>1, <1>3 DEF Agreeing, MixedKnown, IsMixed
  <1>6. EntriesAlive'
    <2>1. \A i \in 1..n : i \in DOMAIN samples' /\ samples'[i] = samples[i]
      BY <1>2 DEF Appended
    <2>2. \A k \in LiveKeys : k \in LiveKeys' \/ \E i \in DOMAIN samples' : samples'[i].key = k
      <3>1. \A k \in Ended(T) : \E i \in DOMAIN samples' : samples'[i].key = k
        BY <1>2 DEF Appended
      <3>2. QED
        BY <1>3, <3>1
    <2>3. \A e : HasToken(e) => HasToken(e)'
      BY <1>2, <2>1, <2>2 DEF HasToken, Appended
    <2>4. QED
      BY <1>1, <2>3 DEF Agreeing, EntriesAlive
  <1>7. PutsAreLive'
    <2>1. SUFFICES ASSUME NEW i \in DOMAIN samples', samples'[i].sample = "PUT",
                          \A j \in DOMAIN samples' : j > i => samples'[j].key # samples'[i].key
                   PROVE  samples'[i].key \in LiveKeys'
      BY DEF PutsAreLive
    <2>2. i \in 1..n /\ samples'[i] = samples[i]
      BY <1>2, <2>1 DEF Appended
    <2>3. \A j \in 1..n : j \in DOMAIN samples' /\ samples'[j] = samples[j]
      BY <1>2 DEF Appended
    <2>4. samples[i].key \in LiveKeys
      <3>1. DOMAIN samples = 1..n /\ PutsAreLive
        BY <1>2 DEF Appended, Agreeing
      <3>2. samples[i].sample = "PUT" /\ \A j \in 1..n : j > i => samples[j].key # samples[i].key
        BY <2>1, <2>2, <2>3
      <3>3. QED
        BY <2>2, <3>1, <3>2 DEF PutsAreLive
    <2>5. samples[i].key \notin Ended(T)
      BY <1>2, <2>1, <2>2 DEF Appended
    <2>6. QED
      BY <1>3, <2>2, <2>4, <2>5
  <1>8. ASSUME NEW k \in LiveKeys', ~ IsMixed(k), k.pUuid # Self
        PROVE  \/ LastPut(k)'
               \/ ~ Involved(k)' /\ \E e \in found \cup subscribers : Owns(k, e)
    <2>1. \A l \in Ended(T) : ~ LI!SameOwner(l, k)
      <3>1. SUFFICES ASSUME NEW l \in Ended(T), LI!SameOwner(l, k) PROVE FALSE
        OBVIOUS
      <3>2. l.pUuid # Self /\ LI!SameOwner(k, l)
        BY <1>8, <3>1 DEF LI!SameOwner
      <3>3. l \in LiveKeys \ LiveKeys'
        BY <1>3, <3>2
      <3>4. QED
        BY <1>3, <1>8, <3>2, <3>3 DEF Agreeing, MixedKnown
    <2>2. LastPut(k) => LastPut(k)'
      BY <1>2, <2>1 DEF LastPut, Appended
    <2>3. ~ Involved(k) => ~ Involved(k)'
      BY <1>2, <2>1 DEF Involved, Appended
    <2>4. QED
      BY <1>3, <1>8, <2>2, <2>3 DEF Agreeing, LiveListed
  <1>9. LiveListed'
    BY <1>1, <1>8 DEF LiveListed, IsMixed
  <1>10. QED
    BY <1>1, <1>4, <1>5, <1>6, <1>7, <1>9 DEF Agreeing, KindsTyped, CalledBack

\* The handler takes the first sample: what is left is the same, one place earlier.
LEMMA AgreeingSamples ==
    ASSUME Agreeing, NEW what, LI!Sample(what)
    PROVE  /\ LiveKeys' = LiveKeys /\ mixed' = mixed /\ registered' = registered
           /\ subscribers = registered
           /\ TokensTyped' /\ DestructorTyped' /\ PutsAreLive' /\ MixedKnown'
           /\ Head(samples).key \in LI!Key /\ Head(samples).sample = what
           /\ \A e : HasToken(e) => HasToken(e)' \/ Owns(Head(samples).key, e)
           /\ what = "PUT" => \A e : Owns(Head(samples).key, e) => HasToken(e)'
           /\ \A k : ~ Involved(k) => ~ Involved(k)' /\ ~ LI!SameOwner(Head(samples).key, k)
           /\ \A k : LastPut(k) => \/ LastPut(k)'
                                   \/ what = "PUT" /\ k = Head(samples).key /\ ~ Involved(k)'
  <1> DEFINE n == Len(samples)
             first == Head(samples)
  <1>1. /\ UNCHANGED <<tokens, mixed, registered, destructor>>
        /\ dataHandler = LI!Idle /\ samples # <<>> /\ samples' = Tail(samples) /\ first.sample = what
    BY DEF LI!Sample
  <1>2. samples \in Seq(SampleOfKey) /\ samples' \in Seq(SampleOfKey)
    BY <1>1 DEF Agreeing, TokensTyped
  <1>3. /\ n \in Nat \ {0} /\ DOMAIN samples = 1..n /\ DOMAIN samples' = 1..(n - 1)
        /\ first = samples[1] /\ first \in SampleOfKey
        /\ \A i \in 1..(n - 1) : samples'[i] = samples[i + 1]
    BY <1>1, <1>2
  <1> HIDE DEF n, first
  <1>4. /\ \A i \in 1..(n - 1) : i + 1 \in DOMAIN samples /\ samples'[i] = samples[i + 1]
        /\ \A i \in DOMAIN samples :
              \/ i = 1 /\ samples[i] = first
              \/ i - 1 \in DOMAIN samples' /\ samples'[i - 1] = samples[i]
    BY <1>3
  <1>5. LiveKeys' = LiveKeys
    BY <1>1 DEF LiveKeys
  <1>6. subscribers = registered
    BY <1>1 DEF Agreeing, CalledBack, LI!Callback, LI!Idle
  <1>7. TokensTyped' /\ DestructorTyped' /\ MixedKnown'
    BY <1>1, <1>2, <1>5 DEF Agreeing, TokensTyped, DestructorTyped, MixedKnown, IsMixed
  <1>8. PutsAreLive'
    <2>1. SUFFICES ASSUME NEW i \in DOMAIN samples', samples'[i].sample = "PUT",
                          \A j \in DOMAIN samples' : j > i => samples'[j].key # samples'[i].key
                   PROVE  samples'[i].key \in LiveKeys
      BY <1>5 DEF PutsAreLive
    <2>2. i + 1 \in DOMAIN samples /\ samples'[i] = samples[i + 1]
      BY <1>3, <1>4
    <2>3. ASSUME NEW j \in DOMAIN samples, j > i + 1 PROVE samples[j].key # samples[i + 1].key
      <3>1. j - 1 \in DOMAIN samples' /\ j - 1 > i /\ samples'[j - 1] = samples[j]
        BY <1>3, <1>4, <2>3
      <3>2. QED
        BY <2>1, <2>2, <3>1
    <2>4. QED
      BY <2>1, <2>2, <2>3 DEF Agreeing, PutsAreLive
  <1>9. \A e : HasToken(e) => HasToken(e)' \/ Owns(first.key, e)
    BY <1>4, <1>5 DEF HasToken
  <1>10. ASSUME what = "PUT", NEW e, Owns(first.key, e) PROVE HasToken(e)'
    <2>1. CASE first.key \in LiveKeys
      BY <1>5, <1>10, <2>1 DEF HasToken
    <2>2. CASE first.key \notin LiveKeys
      <3>1. PICK j \in DOMAIN samples : j > 1 /\ samples[j].key = first.key
        BY <1>1, <1>3, <1>10, <2>2 DEF Agreeing, PutsAreLive
      <3>2. j - 1 \in DOMAIN samples' /\ samples'[j - 1].key = first.key
        BY <1>3, <1>4, <3>1
      <3>3. QED
        BY <1>10, <3>2 DEF HasToken
    <2>3. QED
      BY <2>1, <2>2
  <1>11. \A k : ~ Involved(k) => ~ Involved(k)' /\ ~ LI!SameOwner(first.key, k)
    BY <1>3, <1>4 DEF Involved
  <1>12. ASSUME NEW k, LastPut(k)
         PROVE  LastPut(k)' \/ (what = "PUT" /\ k = first.key /\ ~ Involved(k)')
    <2>1. PICK i \in DOMAIN samples :
            /\ samples[i].sample = "PUT" /\ samples[i].key = k
            /\ \A j \in DOMAIN samples : j > i => ~ LI!SameOwner(samples[j].key, k)
      BY <1>12 DEF LastPut
    <2>2. CASE i = 1
      <3>1. \A j \in DOMAIN samples' : ~ LI!SameOwner(samples'[j].key, k)
        <4>1. \A j \in DOMAIN samples' : j + 1 \in DOMAIN samples /\ j + 1 > i
          BY <1>3, <2>2
        <4>2. QED
          BY <1>3, <2>1, <4>1
      <3>2. QED
        BY <1>1, <1>3, <2>1, <2>2, <3>1 DEF Involved
    <2>3. CASE i # 1
      <3>1. i - 1 \in DOMAIN samples' /\ samples'[i - 1] = samples[i]
        BY <1>3, <2>1, <2>3
      <3>2. \A j \in DOMAIN samples' : j > i - 1 => ~ LI!SameOwner(samples'[j].key, k)
        <4>1. \A j \in DOMAIN samples' : j > i - 1 => j + 1 \in DOMAIN samples /\ j + 1 > i
          BY <1>3
        <4>2. QED
          BY <1>3, <2>1, <4>1
      <3>3. QED
        BY <2>1, <3>1, <3>2 DEF LastPut
    <2>4. QED
      BY <2>2, <2>3
  <1>13. QED
    BY <1>1, <1>3, <1>5, <1>6, <1>7, <1>8, <1>9, <1>10, <1>11, <1>12 DEF first, SampleOfKey

LEMMA AgreeingPut == Agreeing /\ LI!Put => Agreeing'
  <1> SUFFICES ASSUME Agreeing, LI!Put PROVE Agreeing'
    OBVIOUS
  <1> DEFINE key == Head(samples).key
             new == LI!Entry(key)
  <1>1. LI!Sample("PUT")
    BY DEF LI!Put
  <1>2. /\ LiveKeys' = LiveKeys /\ mixed' = mixed /\ registered' = registered
        /\ subscribers = registered
        /\ TokensTyped' /\ DestructorTyped' /\ PutsAreLive' /\ MixedKnown'
        /\ key \in LI!Key
        /\ \A e : HasToken(e) => HasToken(e)' \/ Owns(key, e)
        /\ \A e : Owns(key, e) => HasToken(e)'
        /\ \A k : ~ Involved(k) => ~ Involved(k)'
        /\ \A k : LastPut(k) => LastPut(k)' \/ (k = key /\ ~ Involved(k)')
    BY <1>1, AgreeingSamples
  <1>3. Owns(key, new) /\ new.topic = key.kind /\ new.pUuid = key.pUuid
    BY DEF LI!Entry, Owns
  <1>4. dataHandler = LI!Idle
    BY <1>1 DEF LI!Sample
  <1>5. /\ \/ /\ key.kind # "MS" /\ found' = LI!AddPublisher(found, new)
              /\ UNCHANGED <<subscribers, dataHandler>>
           \/ /\ key.kind = "MS" /\ key.pUuid = Self /\ UNCHANGED <<found, subscribers, dataHandler>>
           \/ /\ key.kind = "MS" /\ key.pUuid # Self
              /\ subscribers' = LI!AddPublisher(subscribers, new)
              /\ dataHandler' = LI!Callback("register", new)
              /\ UNCHANGED found
    BY DEF LI!Put
  <1> HIDE DEF key, new
  <1>6. \A s : /\ LI!AddPublisher(s, new) \subseteq s \cup {new}
               /\ s \subseteq LI!AddPublisher(s, new)
               /\ \E e \in LI!AddPublisher(s, new) : Owns(key, e)
    BY <1>3 DEF LI!AddPublisher, LI!CanAdd, Owns
  <1>7. KindsTyped'
    BY <1>3, <1>5, <1>6 DEF Agreeing, KindsTyped
  <1>8. EntriesAlive'
    BY <1>2, <1>3, <1>5, <1>6 DEF Agreeing, EntriesAlive
  <1>9. LiveListed'
    <2>1. SUFFICES ASSUME NEW k \in LiveKeys, k.pUuid # Self, ~ IsMixed(k)
                   PROVE  \/ LastPut(k)'
                          \/ ~ Involved(k)' /\ \E e \in (found \cup subscribers)' : Owns(k, e)
      BY <1>2 DEF LiveListed, IsMixed
    <2>2. CASE k = key /\ ~ Involved(k)'
      BY <1>5, <1>6, <2>1, <2>2
    <2>3. CASE ~ Involved(k) /\ \E e \in found \cup subscribers : Owns(k, e)
      BY <1>2, <1>5, <1>6, <2>3
    <2>4. QED
      BY <1>2, <2>1, <2>2, <2>3 DEF Agreeing, LiveListed
  <1>10. CalledBack'
    BY <1>2, <1>4, <1>5 DEF CalledBack
  <1>11. QED
    BY <1>2, <1>7, <1>8, <1>9, <1>10 DEF Agreeing

LEMMA AgreeingDelete == Agreeing /\ LI!Delete => Agreeing'
  <1> SUFFICES ASSUME Agreeing, LI!Delete PROVE Agreeing'
    OBVIOUS
  <1> DEFINE key == Head(samples).key
  <1>1. LI!Sample("DELETE")
    BY DEF LI!Delete
  <1>2. /\ LiveKeys' = LiveKeys /\ mixed' = mixed /\ registered' = registered
        /\ subscribers = registered
        /\ TokensTyped' /\ DestructorTyped' /\ PutsAreLive' /\ MixedKnown'
        /\ key \in LI!Key
        /\ \A e : HasToken(e) => HasToken(e)' \/ Owns(key, e)
        /\ \A k : ~ Involved(k) => ~ Involved(k)' /\ ~ LI!SameOwner(key, k)
        /\ \A k : LastPut(k) => LastPut(k)'
    BY <1>1, AgreeingSamples
  <1>3. dataHandler = LI!Idle
    BY <1>1 DEF LI!Sample
  <1>4. \/ /\ key.kind # "MS"
           /\ found' = LI!DelPublisherByNode(found, key.kind, key.pUuid, key.nUuid)
           /\ UNCHANGED <<subscribers, dataHandler>>
        \/ /\ key.kind = "MS" /\ key.pUuid = Self /\ UNCHANGED <<found, subscribers, dataHandler>>
        \/ /\ key.kind = "MS"
           /\ subscribers' = LI!DelPublisherByNode(subscribers, key.kind, key.pUuid, key.nUuid)
           /\ dataHandler' = LI!Callback("unregister", LI!Entry(key))
           /\ UNCHANGED found
    BY DEF LI!Delete
  <1>5. LI!Entry(key).topic = key.kind /\ LI!Entry(key).pUuid = key.pUuid
        /\ LI!Entry(key).nUuid = key.nUuid
    BY DEF LI!Entry
  <1> HIDE DEF key
  <1>6. \A s : LI!DelPublisherByNode(s, key.kind, key.pUuid, key.nUuid) = { e \in s : ~ Owns(key, e) }
    BY DEF LI!DelPublisherByNode, LI!ByNode, Owns
  <1>7. /\ found' \cup subscribers' \subseteq found \cup subscribers
        /\ \A e \in found' \cup subscribers' : ~ Owns(key, e)
        /\ \A e \in found \cup subscribers : ~ Owns(key, e) => e \in found' \cup subscribers'
        /\ found' \subseteq found /\ subscribers' \subseteq subscribers
    BY <1>4, <1>6 DEF Agreeing, KindsTyped, Owns
  <1>8. KindsTyped' /\ EntriesAlive'
    BY <1>2, <1>7 DEF Agreeing, KindsTyped, EntriesAlive
  <1>9. LiveListed'
    <2>1. SUFFICES ASSUME NEW k \in LiveKeys, k.pUuid # Self, ~ IsMixed(k)
                   PROVE  \/ LastPut(k)'
                          \/ ~ Involved(k)' /\ \E e \in found' \cup subscribers' : Owns(k, e)
      BY <1>2 DEF LiveListed, IsMixed
    <2>2. CASE ~ Involved(k) /\ \E e \in found \cup subscribers : Owns(k, e)
      <3>1. PICK e \in found \cup subscribers : Owns(k, e)
        BY <2>2
      <3>2. ~ Owns(key, e)
        BY <1>2, <2>2, <3>1 DEF Owns, LI!SameOwner
      <3>3. QED
        BY <1>2, <1>7, <2>2, <3>1, <3>2
    <2>3. QED
      BY <1>2, <2>1, <2>2 DEF Agreeing, LiveListed
  <1>10. CalledBack'
    BY <1>2, <1>3, <1>4, <1>5 DEF CalledBack
  <1>11. QED
    BY <1>2, <1>8, <1>9, <1>10 DEF Agreeing

LEMMA AgreeingCallback == Agreeing /\ (LI!Register \/ LI!Unregister) => Agreeing'
  <1> SUFFICES ASSUME Agreeing, LI!Register \/ LI!Unregister PROVE Agreeing'
    OBVIOUS
  <1>1. UNCHANGED <<tokens, samples, mixed, found, subscribers, destructor>> /\ dataHandler' = LI!Idle
    BY DEF LI!Register, LI!Unregister, LI!zenoh
  <1>2. TokensTyped' /\ DestructorTyped' /\ KindsTyped' /\ EntriesAlive' /\ PutsAreLive'
        /\ MixedKnown' /\ LiveListed'
    BY <1>1 DEF Agreeing, TokensTyped, DestructorTyped, KindsTyped, EntriesAlive, PutsAreLive,
       MixedKnown, LiveListed, LiveKeys, HasToken, IsMixed, LastPut, Involved
  <1>3. subscribers = registered'
    <2>1. CASE LI!Register
      <3>1. PICK e : /\ dataHandler = LI!Callback("register", e)
                     /\ subscribers = LI!AddPublisher(registered, e)
        BY <2>1 DEF Agreeing, CalledBack, LI!Register, LI!Idle, LI!Callback
      <3>2. dataHandler.entry = e
        BY <3>1 DEF LI!Callback
      <3>3. QED
        BY <2>1, <3>1, <3>2 DEF LI!Register
    <2>2. CASE LI!Unregister
      <3>1. PICK e : /\ dataHandler = LI!Callback("unregister", e)
                     /\ subscribers =
                            LI!DelPublisherByNode(registered, e.topic, e.pUuid, e.nUuid)
        BY <2>2 DEF Agreeing, CalledBack, LI!Unregister, LI!Idle, LI!Callback
      <3>2. dataHandler.entry = e
        BY <3>1 DEF LI!Callback
      <3>3. QED
        BY <2>2, <3>1, <3>2 DEF LI!Unregister
    <2>3. QED
      BY <2>1, <2>2
  <1>4. CalledBack'
    BY <1>1, <1>3 DEF CalledBack
  <1>5. QED
    BY <1>2, <1>4 DEF Agreeing

LEMMA AgreeingUnadvertise == Agreeing /\ LI!Unadvertise => Agreeing'
  <1> SUFFICES ASSUME Agreeing, LI!Unadvertise PROVE Agreeing'
    OBVIOUS
  <1>1. /\ UNCHANGED <<tokens, samples, mixed, subscribers, registered, dataHandler>>
        /\ destructor.pc = "unadvertise" /\ destructor' = [destructor EXCEPT !.pc = "token"]
        /\ found' = LI!DelPublisherByNode(found, "MP", Self, destructor.token.key.nUuid)
    BY DEF LI!Unadvertise, LI!zenoh
  <1>2. DestructorTyped'
    <2>1. PICK pc, t : /\ destructor = [pc |-> pc, token |-> t]
                       /\ t.key \in LI!Key /\ t.key.pUuid = Self
      BY <1>1 DEF Agreeing, DestructorTyped, LI!Idle
    <2>2. destructor' = [pc |-> "token", token |-> t]
      BY <1>1, <2>1
    <2>3. QED
      BY <2>1, <2>2 DEF DestructorTyped
  <1>3. found' \subseteq found /\ \A e \in found : e.pUuid # Self => e \in found'
    BY <1>1 DEF LI!DelPublisherByNode, LI!ByNode
  <1>4. TokensTyped' /\ KindsTyped' /\ PutsAreLive' /\ MixedKnown' /\ CalledBack'
    BY <1>1, <1>3 DEF Agreeing, TokensTyped, KindsTyped, PutsAreLive, MixedKnown, CalledBack,
       LiveKeys, IsMixed
  <1>5. EntriesAlive'
    BY <1>1, <1>3 DEF Agreeing, EntriesAlive, HasToken, LiveKeys
  <1>6. LiveListed'
    <2>1. SUFFICES ASSUME NEW k \in LiveKeys, k.pUuid # Self, ~ IsMixed(k)
                   PROVE  \/ LastPut(k)
                          \/ ~ Involved(k) /\ \E e \in found' \cup subscribers : Owns(k, e)
      BY <1>1 DEF LiveListed, IsMixed, LiveKeys, LastPut, Involved
    <2>2. \A e \in found \cup subscribers : Owns(k, e) => e \in found' \cup subscribers
      BY <1>3, <2>1 DEF Owns
    <2>3. QED
      BY <2>1, <2>2 DEF Agreeing, LiveListed
  <1>7. QED
    BY <1>2, <1>4, <1>5, <1>6 DEF Agreeing

LEMMA AgreeingDestroy == Agreeing /\ (\E t \in tokens : LI!DestroyPublisher(t)) => Agreeing'
  <1> SUFFICES ASSUME Agreeing, NEW t \in tokens, LI!DestroyPublisher(t) PROVE Agreeing'
    OBVIOUS
  <1>1. /\ UNCHANGED <<tokens, samples, mixed, found, subscribers, registered, dataHandler>>
        /\ t.key.pUuid = Self /\ destructor' = [pc |-> "unadvertise", token |-> t]
    BY DEF LI!DestroyPublisher, LI!zenoh, LI!here
  <1>2. DestructorTyped'
    BY <1>1 DEF Agreeing, TokensTyped, DestructorTyped
  <1>3. TokensTyped' /\ KindsTyped' /\ EntriesAlive' /\ PutsAreLive' /\ MixedKnown'
        /\ LiveListed' /\ CalledBack'
    BY <1>1 DEF Agreeing, TokensTyped, KindsTyped, EntriesAlive, PutsAreLive, MixedKnown,
       LiveListed, CalledBack, LiveKeys, HasToken, IsMixed, LastPut, Involved
  <1>4. QED
    BY <1>2, <1>3 DEF Agreeing

LEMMA AgreeingDestroyToken == Agreeing /\ LI!DestroyToken => Agreeing'
  <1> SUFFICES ASSUME Agreeing, LI!DestroyToken PROVE Agreeing'
    OBVIOUS
  <1>1. PICK pc, t : /\ destructor = [pc |-> pc, token |-> t]
                     /\ t.key \in LI!Key /\ t.key.pUuid = Self
    BY DEF Agreeing, DestructorTyped, LI!DestroyToken, LI!Idle
  <1>2. destructor.token = t
    BY <1>1
  <1>3. LI!Undeclare({t}) /\ UNCHANGED LI!here /\ DestructorTyped'
    BY <1>2 DEF LI!DestroyToken, DestructorTyped
  <1>4. IsFiniteSet({t})
    BY FS_Singleton
  <1>5. QED
    BY <1>1, <1>3, <1>4, AgreeingUndeclares

LEMMA AgreeingNext == Agreeing /\ [LI!Next]_livelinessVars => Agreeing'
  <1> SUFFICES ASSUME Agreeing, [LI!Next]_livelinessVars PROVE Agreeing'
    OBVIOUS
  <1>1. ASSUME NEW key \in LI!Key, LI!DeclareElsewhere(key) \/ LI!Advertise(key) \/ LI!Subscribe(key)
        PROVE  Agreeing'
    <2>1. LI!Declare(key) /\ UNCHANGED <<LI!here, destructor>>
      BY <1>1 DEF LI!DeclareElsewhere, LI!Advertise, LI!Subscribe
    <2>2. QED
      BY <2>1, AgreeingDeclares
  <1>2. ASSUME NEW t \in tokens, LI!UndeclareElsewhere(t) \/ LI!Unsubscribe(t) PROVE Agreeing'
    <2>1. LI!Undeclare({t}) /\ UNCHANGED LI!here /\ UNCHANGED destructor
      BY <1>2 DEF LI!UndeclareElsewhere, LI!Unsubscribe
    <2>2. IsFiniteSet({t}) /\ t.key \in LI!Key /\ DestructorTyped'
      BY <2>1, FS_Singleton DEF Agreeing, TokensTyped, DestructorTyped
    <2>3. QED
      BY <2>1, <2>2, AgreeingUndeclares
  <1>3. ASSUME NEW p \in Others, LI!Crash(p) PROVE Agreeing'
    <2> DEFINE T == { t \in tokens : t.key.pUuid = p }
    <2>1. LI!Undeclare(T) /\ UNCHANGED LI!here /\ UNCHANGED destructor
      BY <1>3 DEF LI!Crash
    <2>2. IsFiniteSet(T) /\ DestructorTyped' /\ \A t \in T : t \in tokens /\ t.key \in LI!Key
      BY <2>1, FS_Subset DEF Agreeing, TokensTyped, DestructorTyped
    <2> HIDE DEF T
    <2>3. QED
      BY <2>1, <2>2, AgreeingUndeclares
  <1>4. CASE UNCHANGED livelinessVars
    BY <1>4 DEF livelinessVars, Agreeing, TokensTyped, DestructorTyped, KindsTyped, EntriesAlive,
       PutsAreLive, MixedKnown, LiveListed, CalledBack, LiveKeys, HasToken, IsMixed, LastPut,
       Involved
  <1>5. QED
    BY <1>1, <1>2, <1>3, <1>4, AgreeingCallback, AgreeingUnadvertise, AgreeingDestroy,
       AgreeingDestroyToken, AgreeingPut, AgreeingDelete DEF LI!Next

\* Once the samples are handled, the address books and the liveliness tokens of
\* Zenoh agree: BooksAgreeWithTokens, for every number of processes, nodes and tokens.
THEOREM TokensAreInBooks == NodePartsSpec => []BooksAgreeWithTokens
  <1> DEFINE I == part = "liveliness" => Agreeing
  <1>1. NodePartsInit => I
    BY AgreeingInit DEF NodePartsInit
  <1>2. I /\ [NodePartsNext]_nodePartsVars => I'
    BY AgreeingNext DEF NodePartsNext, nodePartsVars
  <1>3. I => BooksAgreeWithTokens
    BY AgreeingSuffices DEF BooksAgreeWithTokens
  <1>4. QED
    BY <1>1, <1>2, <1>3, PTL DEF NodePartsSpec

-----------------------------------------------------------------------------
(* Calls that are queries: what a caller may count on though a mutex is    *)
(* held through its query.                                                 *)

\* A server is reached by one of the links, the timer is none of them, and the
\* names of the service thread and of no thread are not those of calls.
QueriesWellformed ==
    /\ LinkOf \in [Queryables -> Link]
    /\ ZC!Timer \notin Link
    /\ ZC!None \notin Queries /\ ZC!Service \notin Queries
    /\ MaxEvents \in Nat

LEMMA QueriesAreWellformed == QueriesWellformed
  BY QueriesAssumption DEF QueriesWellformed, ZC!Timer, ZC!None, ZC!Service

EndingPlaces == {"reply", "wake", "done"}

QueryThreads == Link \cup {ZC!Timer}

\* Who holds the mutex is sending, or about to wait.
MutexHolders ==
    /\ \A r \in Queries : queryCall[r] \in {"sending", "checked"} <=> mutex = r
    /\ toSend # {} => \/ mutex = ZC!Service
                      \/ \E r \in Queries : mutex = r /\ queryCall[r] = "sending"

\* What there is to send is stored and no query yet, but for the one query.
QuerySenders ==
    /\ \A r \in Queries : queryCall[r] = "idle" => handler[r] = "none"
    /\ \A r \in toSend : handler[r] = "stored" \/ (query.pc # "idle" /\ query.req = r)
    /\ query.pc # "idle" => query.req \in toSend /\ handler[query.req] = "requested"

\* Nobody has heard of a request that was not sent, and a server has it once: to
\* be executed, or executed.
Unasked(r) == queryCall[r] = "idle" \/ handler[r] = "stored"

Waits(r, s) == \E i \in DOMAIN inbox[s] : inbox[s][i] = r

WaitsOnce(r, s) ==
    \A i, j \in DOMAIN inbox[s] : inbox[s][i] = r /\ inbox[s][j] = r => i = j

Unheard(r) == r \notin answeredQueries /\ \A s \in Queryables : executed[r][s] = <<>> /\ ~Waits(r, s)

HasOnce(r, s) ==
    \/ executed[r][s] = <<>> /\ WaitsOnce(r, s)
    \/ (\E result \in BOOLEAN : executed[r][s] = <<result>>) /\ ~Waits(r, s)

AskedOnce ==
    \A r \in Queries : (Unasked(r) => Unheard(r)) /\ \A s \in Queryables : HasOnce(r, s)

Succeeded(r) == \E s \in Queryables : executed[r][s] = <<TRUE>>

\* A reply on its way, in a query, in a thread or with the caller comes from a
\* callback that returned true.
IsTrue(m) == m.kind = "end" /\ m.replied => Succeeded(m.req)

RepliesAreTrue ==
    /\ \A l \in Link : \A i \in DOMAIN back[l] : IsTrue(back[l][i])
    /\ query.pc # "idle" /\ query.replied => Succeeded(query.req)
    /\ \A t \in QueryThreads : rx[t].pc = "reply" => Succeeded(rx[t].req)
    /\ \A r \in answeredQueries : Succeeded(r)

\* A query that is handed over has one thread that does it, and no other has any.
OneEnding ==
    /\ \A t \in QueryThreads : rx[t].pc \in EndingPlaces => query.pc = "handing" /\ rx[t].req = query.req
    /\ \A t, u \in QueryThreads : rx[t].pc \in EndingPlaces /\ rx[u].pc \in EndingPlaces => t = u
    /\ query.pc = "handing" => \E t \in QueryThreads : rx[t].pc \in EndingPlaces
    /\ rx[ZC!Timer].pc # "connect"

\* Who is about to wait has no response, and who waits and has one will be woken.
WaitingCallers ==
    \A r \in Queries :
        /\ queryCall[r] = "checked" => r \notin answeredQueries
        /\ queryCall[r] = "blocked" /\ r \in answeredQueries
               => \E t \in QueryThreads : rx[t].pc = "wake" /\ rx[t].req = r

QueryInvariant ==
    /\ ZC!TypeOK /\ MutexHolders /\ QuerySenders /\ AskedOnce /\ RepliesAreTrue /\ OneEnding /\ WaitingCallers

-----------------------------------------------------------------------------
(* Type correctness.                                                       *)

\* What is in a record of each kind.
LEMMA QueryTypes ==
    ASSUME query \in ZC!Query
    PROVE  /\ query.pc \in {"idle", "open", "handing", "done"}
           /\ query.pc = "idle" <=> query = ZC!Idle
           /\ query.pc # "idle" => /\ query.req \in Queries /\ query.to \subseteq Queryables
                                   /\ query.replied \in BOOLEAN
  BY DEF ZC!Query, ZC!Idle

LEMMA RxTypes ==
    ASSUME ZC!TypeOK, NEW t \in QueryThreads
    PROVE  /\ rx[t].pc \in {"idle", "connect"} \cup EndingPlaces
           /\ rx[t].pc = "idle" <=> rx[t] = ZC!Idle
           /\ rx[t].pc \in EndingPlaces => rx[t].req \in Queries /\ rx[t] = [pc |-> rx[t].pc, req |-> rx[t].req]
           /\ rx[t].pc = "connect" => rx[t].server \in Queryables
  <1>1. rx[t] \in ZC!RxState
    BY DEF ZC!TypeOK, QueryThreads
  <1>2. QED
    BY <1>1 DEF ZC!RxState, ZC!Idle, EndingPlaces

LEMMA BackTypes ==
    ASSUME ZC!TypeOK, NEW l \in Link, back[l] # <<>>
    PROVE  /\ Head(back[l]) \in ZC!Sample \cup ZC!End
           /\ Head(back[l]) = back[l][1]
           /\ Tail(back[l]) \in Seq(ZC!Sample \cup ZC!End)
           /\ \A i \in DOMAIN Tail(back[l]) : i + 1 \in DOMAIN back[l] /\ Tail(back[l])[i] = back[l][i + 1]
           /\ Head(back[l]).server \in Queryables
           /\ Head(back[l]).kind \in {"put", "delete", "end"}
           /\ Head(back[l]).kind = "end" => Head(back[l]).req \in Queries /\ Head(back[l]).replied \in BOOLEAN
  <1>1. back[l] \in Seq(ZC!Sample \cup ZC!End)
    BY DEF ZC!TypeOK
  <1>2. Head(back[l]) \in ZC!Sample \cup ZC!End
    BY <1>1
  <1>3. QED
    BY <1>1, <1>2 DEF ZC!Sample, ZC!End

LEMMA QueryTypeInit == ASSUME QueriesWellformed, ZC!Init PROVE ZC!TypeOK /\ MutexHolders
  <1>1. /\ <<>> \in Seq(Queries) /\ <<>> \in Seq(BOOLEAN) /\ <<>> \in Seq(ZC!Sample \cup ZC!End)
        /\ <<>> \in Seq({ QueryKind[s] : s \in Queryables })
    OBVIOUS
  <1>2. ZC!Idle \in ZC!Query /\ ZC!Idle \in ZC!RxState
    BY DEF ZC!Query, ZC!RxState
  <1>3. 0 \in 0..MaxEvents
    BY SMT DEF QueriesWellformed
  <1>4. QED
    BY <1>1, <1>2, <1>3 DEF ZC!Init, ZC!TypeOK, MutexHolders, ZC!CallState, QueriesWellformed

\* The owner's type follows from who holds the mutex.
LEMMA MutexTypes ==
    ASSUME MutexHolders, mutex \in {ZC!None, ZC!Service} \cup Queries
    PROVE  mutex \in {ZC!None, ZC!Service} \cup { r \in Queries : queryCall[r] \in {"sending", "checked"} }
  BY DEF MutexHolders

\* The steps that take, hold or give back the mutex, or change where a call is.
LEMMA HoldersNext ==
    ASSUME ZC!TypeOK, MutexHolders, QueriesWellformed, [ZC!Next]_ZC!vars
    PROVE  MutexHolders'
  <1> USE DEF QueriesWellformed
  <1>1. ASSUME NEW r \in Queries, ZC!Request(r) PROVE MutexHolders'
    <2>1. PICK at \in ZC!CallState :
              /\ queryCall' = [queryCall EXCEPT ![r] = at]
              /\ \/ at = "sending" /\ mutex' = r
                 \/ at = "checked" /\ mutex' = r /\ toSend' = {}
                 \/ at = "done" /\ mutex' = ZC!None /\ toSend' = {}
      BY <1>1 DEF ZC!Request, ZC!CallState
    <2>2. mutex = ZC!None /\ queryCall \in [Queries -> ZC!CallState]
      BY <1>1 DEF ZC!Request, ZC!TypeOK
    <2>3. /\ queryCall'[r] = at
          /\ \A q \in Queries : q # r => queryCall'[q] = queryCall[q] /\ queryCall[q] \notin {"sending", "checked"}
      BY <2>1, <2>2 DEF MutexHolders
    <2>4. \A q \in Queries : (queryCall'[q] \in {"sending", "checked"} <=> mutex' = q)
      <3>1. CASE at \in {"sending", "checked"} /\ mutex' = r
        BY <2>3, <3>1
      <3>2. CASE at = "done" /\ mutex' = ZC!None
        BY <2>3, <3>2
      <3>3. QED
        BY <2>1, <3>1, <3>2
    <2>5. toSend' # {} => mutex' = r /\ queryCall'[r] = "sending"
      BY <2>1, <2>3
    <2>6. QED
      BY <2>4, <2>5 DEF MutexHolders
  <1>2. ASSUME NEW r \in Queries, ZC!Sent(r) PROVE MutexHolders'
    <2>1. PICK at \in {"checked", "done"} :
              /\ queryCall' = [queryCall EXCEPT ![r] = at]
              /\ mutex' = IF at = "done" THEN ZC!None ELSE r
      BY <1>2 DEF ZC!Sent, ZC!TypeOK
    <2>2. mutex = r /\ toSend' = {} /\ queryCall \in [Queries -> ZC!CallState]
      BY <1>2 DEF ZC!Sent, ZC!TypeOK
    <2>3. /\ queryCall'[r] = at
          /\ \A q \in Queries : q # r => queryCall'[q] = queryCall[q] /\ queryCall[q] \notin {"sending", "checked"}
      BY <2>1, <2>2 DEF MutexHolders
    <2>4. QED
      BY <2>1, <2>2, <2>3 DEF MutexHolders
  <1>3. ASSUME NEW r \in Queries, ZC!Block(r) PROVE MutexHolders'
    <2>1. mutex = r /\ mutex' = ZC!None /\ queryCall' = [queryCall EXCEPT ![r] = "blocked"] /\ toSend' = toSend
      BY <1>3 DEF ZC!Block, MutexHolders
    <2>2. toSend = {}
      BY <1>3, <2>1 DEF ZC!Block, MutexHolders
    <2>3. QED
      BY <2>1, <2>2 DEF MutexHolders, ZC!TypeOK
  <1>4. ASSUME NEW r \in Queries, ZC!Resume(r) PROVE MutexHolders'
    <2>1. PICK at \in {"checked", "done"} :
              /\ queryCall' = [queryCall EXCEPT ![r] = at]
              /\ mutex' = IF at = "done" THEN ZC!None ELSE r
      BY <1>4 DEF ZC!Resume
    <2>2. mutex = ZC!None /\ toSend' = toSend /\ queryCall \in [Queries -> ZC!CallState]
      BY <1>4 DEF ZC!Resume, ZC!TypeOK
    <2>3. /\ queryCall'[r] = at /\ toSend' = {}
          /\ \A q \in Queries : q # r => queryCall'[q] = queryCall[q] /\ queryCall[q] \notin {"sending", "checked"}
      BY <2>1, <2>2 DEF MutexHolders, ZC!None, ZC!Service
    <2>4. QED
      BY <2>1, <2>2, <2>3 DEF MutexHolders
  <1>5. ASSUME NEW r \in Queries, ZC!SpuriousWakeup(r) \/ ZC!Timeout(r) PROVE MutexHolders'
    BY <1>5 DEF ZC!SpuriousWakeup, ZC!Timeout, MutexHolders, ZC!TypeOK
  <1>6. CASE ZC!SendFromService \/ ZC!SentFromService
    BY <1>6 DEF ZC!SendFromService, ZC!SentFromService, MutexHolders, ZC!TypeOK
  <1>7. CASE ZC!GetReturns
    BY <1>7 DEF ZC!GetReturns, MutexHolders, ZC!TypeOK
  <1>8. ASSUME NEW t \in QueryThreads, ZC!Notify(t) PROVE MutexHolders'
    BY <1>8 DEF ZC!Notify, MutexHolders, ZC!TypeOK
  <1>9. CASE UNCHANGED <<mutex, toSend, queryCall>>
    BY <1>9 DEF MutexHolders
  <1>10. QED
    <2>1. CASE ZC!TakeKind \/ \E r \in Queries : ZC!Get(r)
      BY <1>9, <2>1 DEF ZC!TakeKind, ZC!Get
    <2>2. CASE \E s \in Queryables : ZC!Offer(s) \/ ZC!Serve(s) \/ ZC!Stop(s)
      BY <1>9, <2>2 DEF ZC!Offer, ZC!Serve, ZC!Stop, ZC!callers
    <2>3. ASSUME NEW t \in QueryThreads, ZC!NotifyResult(t) \/ ZC!Done(t) PROVE MutexHolders'
      BY <1>9, <2>3 DEF ZC!NotifyResult, ZC!Done, ZC!callers
    <2>4. ASSUME NEW l, ZC!LinkStep(l) PROVE MutexHolders'
      BY <1>9, <2>4 DEF ZC!LinkStep, ZC!ReceiveSample, ZC!ReceiveEnd, ZC!OnNewSrvConnection, ZC!callers
    <2>5. CASE ZC!TimeUp \/ UNCHANGED ZC!vars
      BY <1>9, <2>5 DEF ZC!TimeUp, ZC!callers, ZC!vars
    <2>6. QED
      BY <1>1, <1>2, <1>3, <1>4, <1>5, <1>6, <1>7, <1>8, <2>1, <2>2, <2>3, <2>4, <2>5
         DEF ZC!Next, ZC!CallContinues, ZC!ServiceStep, ZC!HolderStep, ZC!ThreadStep, QueryThreads

\* Sequences keep their elements.
LEMMA SeqTypes ==
    ASSUME NEW S, NEW s \in Seq(S), NEW e \in S
    PROVE  /\ Append(s, e) \in Seq(S)
           /\ s # <<>> => Head(s) \in S /\ Tail(s) \in Seq(S)
  OBVIOUS

LEMMA FunctionIsSeq ==
    ASSUME NEW S, NEW n \in Nat, NEW f \in [1..n -> S]
    PROVE  f \in Seq(S)
  BY SeqDef

LEMMA LinkTypes ==
    ASSUME back \in [Link -> Seq(ZC!Sample \cup ZC!End)], NEW l \in Link, NEW s \in Seq(ZC!Sample \cup ZC!End),
           back' = [back EXCEPT ![l] = s]
    PROVE  back' \in [Link -> Seq(ZC!Sample \cup ZC!End)]
  OBVIOUS

\* The query after something has come for it.
AskingQuery(pc, to, replied) == [query EXCEPT !.to = to, !.replied = replied, !.pc = pc]

LEMMA QueryChanges ==
    ASSUME query \in ZC!Query, query.pc # "idle", NEW pc \in {"open", "handing", "done"}
    PROVE  /\ [query EXCEPT !.pc = pc] \in ZC!Query
           /\ [query EXCEPT !.pc = pc].pc = pc
           /\ [query EXCEPT !.pc = pc].req = query.req
           /\ [query EXCEPT !.pc = pc].replied = query.replied
           /\ \A to \in SUBSET Queryables, replied \in BOOLEAN :
                 LET changed == AskingQuery(pc, to, replied)
                 IN  /\ changed \in ZC!Query /\ changed.pc = pc
                     /\ changed.req = query.req /\ changed.replied = replied
  <1>1. query \in [pc : {"open", "handing", "done"}, req : Queries, to : SUBSET Queryables,
                   replied : BOOLEAN]
    BY DEF ZC!Query, ZC!Idle
  <1>2. [query EXCEPT !.pc = pc] \in [pc : {"open", "handing", "done"}, req : Queries,
                                      to : SUBSET Queryables, replied : BOOLEAN]
    BY <1>1
  <1>3. ASSUME NEW to \in SUBSET Queryables, NEW replied \in BOOLEAN
        PROVE  LET changed == AskingQuery(pc, to, replied)
               IN  /\ changed \in [pc : {"open", "handing", "done"}, req : Queries,
                                   to : SUBSET Queryables, replied : BOOLEAN]
                   /\ changed.pc = pc
                   /\ changed.req = query.req /\ changed.replied = replied
    BY <1>1 DEF AskingQuery
  <1>4. QED
    BY <1>1, <1>2, <1>3 DEF ZC!Query

\* A step of a thread on its own.
LEMMA RxSteps ==
    ASSUME ZC!TypeOK, NEW t \in QueryThreads, NEW state \in ZC!RxState, rx' = [rx EXCEPT ![t] = state]
    PROVE  rx' \in [Link \cup {ZC!Timer} -> ZC!RxState]
  BY DEF ZC!TypeOK, QueryThreads

LEMMA CallerTypes ==
    ASSUME ZC!TypeOK, MutexHolders', QueriesWellformed, NEW r \in Queries,
           ZC!Request(r) \/ ZC!CallContinues(r) \/ ZC!SpuriousWakeup(r) \/ ZC!Timeout(r)
    PROVE  ZC!TypeOK'
  <1> USE DEF ZC!servers
  <1>1. CASE ZC!Request(r)
    <2>1. queryCall' \in [Queries -> ZC!CallState]
      BY <1>1 DEF ZC!Request, ZC!TypeOK, ZC!CallState
    <2>2. handler' \in [Queries -> {"none", "stored", "requested"}]
      BY <1>1 DEF ZC!Request, ZC!TypeOK
    <2>3. toSend' \subseteq Queries
      BY <1>1 DEF ZC!Request, ZC!Pending
    <2>4. mutex' \in {ZC!None, ZC!Service} \cup Queries
      BY <1>1 DEF ZC!Request
    <2>5. QED
      BY <1>1, <2>1, <2>2, <2>3, <2>4, MutexTypes DEF ZC!Request, ZC!TypeOK, MutexHolders
  <1>2. CASE ZC!Sent(r) \/ ZC!Block(r) \/ ZC!Resume(r) \/ ZC!SpuriousWakeup(r) \/ ZC!Timeout(r)
    <2>1. \E at \in ZC!CallState : queryCall' = [queryCall EXCEPT ![r] = at]
      BY <1>2 DEF ZC!Sent, ZC!Block, ZC!Resume, ZC!SpuriousWakeup, ZC!Timeout, ZC!CallState
    <2>2. queryCall' \in [Queries -> ZC!CallState]
      BY <2>1 DEF ZC!TypeOK
    <2>3. mutex' \in {ZC!None, ZC!Service} \cup Queries
      BY <1>2 DEF ZC!Sent, ZC!Block, ZC!Resume, ZC!SpuriousWakeup, ZC!Timeout, ZC!TypeOK
    <2>4. events' \in 0..MaxEvents
      <3>1. events \in 0..MaxEvents
        BY DEF ZC!TypeOK
      <3>2. events' = events \/ (events' = events + 1 /\ events < MaxEvents)
        BY <1>2 DEF ZC!Sent, ZC!Block, ZC!Resume, ZC!SpuriousWakeup, ZC!Timeout
      <3>3. QED
        BY <3>1, <3>2 DEF QueriesWellformed
    <2>5. UNCHANGED <<ZC!servers, back, rx, query, cut, info, srvQueue, service, toSend, handler, answeredQueries>>
      BY <1>2 DEF ZC!Sent, ZC!Block, ZC!Resume, ZC!SpuriousWakeup, ZC!Timeout
    <2>6. QED
      BY <2>2, <2>3, <2>4, <2>5, MutexTypes DEF ZC!TypeOK, MutexHolders
  <1>3. QED
    BY <1>1, <1>2 DEF ZC!CallContinues

LEMMA HolderTypes ==
    ASSUME ZC!TypeOK, MutexHolders', ZC!ServiceStep \/ ZC!HolderStep
    PROVE  ZC!TypeOK'
  <1> USE DEF ZC!servers
  <1>1. CASE ZC!TakeKind
    <2>1. Head(srvQueue) \in { QueryKind[s] : s \in Queryables } /\ srvQueue' \in Seq({ QueryKind[s] : s \in Queryables })
      <3>1. srvQueue \in Seq({ QueryKind[s] : s \in Queryables }) /\ srvQueue # <<>>
        BY <1>1 DEF ZC!TakeKind, ZC!TypeOK
      <3>2. QED
        BY <1>1, <3>1 DEF ZC!TakeKind
    <2>2. service' \in {"idle"} \cup { QueryKind[s] : s \in Queryables }
      BY <1>1, <2>1 DEF ZC!TakeKind
    <2>3. QED
      BY <1>1, <2>1, <2>2 DEF ZC!TakeKind, ZC!TypeOK
  <1>2. CASE ZC!SendFromService \/ ZC!SentFromService
    <2>1. toSend' \subseteq Queries
      BY <1>2 DEF ZC!SendFromService, ZC!SentFromService, ZC!Pending, ZC!TypeOK
    <2>2. QED
      BY <1>2, <2>1 DEF ZC!SendFromService, ZC!SentFromService, ZC!TypeOK
  <1>3. ASSUME NEW r \in Queries, ZC!Get(r) PROVE ZC!TypeOK'
    <2>1. query' \in ZC!Query
      BY <1>3 DEF ZC!Get, ZC!Query
    <2>2. inbox' \in [Queryables -> Seq(Queries)]
      <3>1. inbox \in [Queryables -> Seq(Queries)]
        BY DEF ZC!TypeOK
      <3>2. \A s \in Queryables : Append(inbox[s], r) \in Seq(Queries)
        BY <3>1
      <3>3. QED
        BY <1>3, <3>1, <3>2 DEF ZC!Get
    <2>3. handler' \in [Queries -> {"none", "stored", "requested"}]
      BY <1>3 DEF ZC!Get, ZC!TypeOK
    <2>4. QED
      BY <1>3, <2>1, <2>2, <2>3 DEF ZC!Get, ZC!TypeOK
  <1>4. CASE ZC!GetReturns
    <2>1. handler' \in [Queries -> {"none", "stored", "requested"}]
      BY <1>4 DEF ZC!GetReturns, ZC!TypeOK
    <2>2. query' \in ZC!Query
      BY <1>4 DEF ZC!GetReturns, ZC!Query
    <2>3. toSend' \subseteq Queries /\ mutex' = mutex
      BY <1>4 DEF ZC!GetReturns, ZC!TypeOK
    <2>4. QED
      BY <1>4, <2>1, <2>2, <2>3 DEF ZC!GetReturns, ZC!TypeOK
  <1>5. QED
    BY <1>1, <1>2, <1>3, <1>4 DEF ZC!ServiceStep, ZC!HolderStep

LEMMA ServerTypes ==
    ASSUME ZC!TypeOK, MutexHolders', QueriesWellformed, NEW s \in Queryables, ZC!Offer(s) \/ ZC!Serve(s) \/ ZC!Stop(s)
    PROVE  ZC!TypeOK'
  <1> USE DEF ZC!callers
  <1>1. /\ LinkOf[s] \in Link
        /\ \A r \in Queries, b \in BOOLEAN :
              [kind |-> "end", server |-> s, req |-> r, replied |-> b] \in ZC!Sample \cup ZC!End
        /\ \A sign \in {"put", "delete"} : [kind |-> sign, server |-> s] \in ZC!Sample \cup ZC!End
    BY DEF QueriesWellformed, ZC!Sample, ZC!End
  <1>. back \in [Link -> Seq(ZC!Sample \cup ZC!End)] /\ inbox \in [Queryables -> Seq(Queries)]
    BY DEF ZC!TypeOK
  <1>2. CASE ZC!Offer(s)
    <2>1. back' \in [Link -> Seq(ZC!Sample \cup ZC!End)]
      BY <1>1, <1>2, SeqTypes, LinkTypes DEF ZC!Offer
    <2>2. offers' \in [Queryables -> {"not yet", "yes", "stopped"}]
      BY <1>2 DEF ZC!Offer, ZC!TypeOK
    <2>3. QED
      BY <1>2, <2>1, <2>2 DEF ZC!Offer, ZC!TypeOK
  <1>3. CASE ZC!Serve(s)
    <2>1. Head(inbox[s]) \in Queries /\ inbox' \in [Queryables -> Seq(Queries)]
      BY <1>3, SeqTypes DEF ZC!Serve
    <2>2. PICK result \in BOOLEAN :
              /\ executed' = [executed EXCEPT ![Head(inbox[s])][s] = Append(@, result)]
              /\ back' = [back EXCEPT ![LinkOf[s]] =
                     Append(@, [kind |-> "end", server |-> s, req |-> Head(inbox[s]),
                                replied |-> result])]
      BY <1>3 DEF ZC!Serve
    <2>3. back' \in [Link -> Seq(ZC!Sample \cup ZC!End)]
      BY <1>1, <2>1, <2>2, SeqTypes, LinkTypes
    <2>4. executed \in [Queries -> [Queryables -> Seq(BOOLEAN)]]
      BY DEF ZC!TypeOK
    <2>5. executed' \in [Queries -> [Queryables -> Seq(BOOLEAN)]]
      <3>1. Append(executed[Head(inbox[s])][s], result) \in Seq(BOOLEAN)
        BY <2>1, <2>4
      <3>2. QED
        BY <2>1, <2>2, <2>4, <3>1
    <2>6. QED
      BY <1>3, <2>1, <2>3, <2>5 DEF ZC!Serve, ZC!TypeOK
  <1>4. CASE ZC!Stop(s)
    <2>1. inbox[s] \in Seq(Queries) /\ <<>> \in Seq(Queries)
      OBVIOUS
    <2>2. [i \in 1..Len(inbox[s]) |->
              [kind |-> "end", server |-> s, req |-> inbox[s][i], replied |-> FALSE]]
                  \in Seq(ZC!Sample \cup ZC!End)
      <3>1. Len(inbox[s]) \in Nat /\ \A i \in 1..Len(inbox[s]) : inbox[s][i] \in Queries
        BY <2>1
      <3>2. [i \in 1..Len(inbox[s]) |->
                [kind |-> "end", server |-> s, req |-> inbox[s][i], replied |-> FALSE]]
                    \in [1..Len(inbox[s]) -> ZC!Sample \cup ZC!End]
        <4>1. \A i \in 1..Len(inbox[s]) :
                  [kind |-> "end", server |-> s, req |-> inbox[s][i], replied |-> FALSE]
                      \in ZC!Sample \cup ZC!End
          BY <1>1, <3>1
        <4>2. QED
          BY <4>1
      <3>3. QED
        BY <3>1, <3>2, FunctionIsSeq
    <2>3. Append(back[LinkOf[s]], [kind |-> "delete", server |-> s]) \in Seq(ZC!Sample \cup ZC!End)
      BY <1>1, SeqTypes
    <2>4. Append(back[LinkOf[s]], [kind |-> "delete", server |-> s])
              \o [i \in 1..Len(inbox[s]) |->
                     [kind |-> "end", server |-> s, req |-> inbox[s][i], replied |-> FALSE]]
                  \in Seq(ZC!Sample \cup ZC!End)
      BY <2>2, <2>3, ConcatProperties
    <2>5. back' \in [Link -> Seq(ZC!Sample \cup ZC!End)]
      BY <1>1, <1>4, <2>4, LinkTypes DEF ZC!Stop
    <2>6. inbox' \in [Queryables -> Seq(Queries)] /\ offers' \in [Queryables -> {"not yet", "yes", "stopped"}]
      BY <1>4, <2>1 DEF ZC!Stop, ZC!TypeOK
    <2>7. events' \in 0..MaxEvents
      <3>1. events \in 0..MaxEvents /\ events' = events + 1 /\ events < MaxEvents
        BY <1>4 DEF ZC!Stop, ZC!TypeOK
      <3>2. QED
        BY <3>1 DEF QueriesWellformed
    <2>8. QED
      BY <1>4, <2>5, <2>6, <2>7 DEF ZC!Stop, ZC!TypeOK
  <1>5. QED
    BY <1>2, <1>3, <1>4

LEMMA ThreadTypes ==
    ASSUME ZC!TypeOK, MutexHolders', QueriesWellformed, NEW t \in QueryThreads, ZC!ThreadStep(t)
    PROVE  ZC!TypeOK'
  <1> USE DEF ZC!callers, ZC!servers
  <1>1. CASE ZC!NotifyResult(t) \/ ZC!Notify(t) \/ ZC!Done(t)
    <2>1. PICK state \in ZC!RxState : rx' = [rx EXCEPT ![t] = state]
      BY <1>1, RxTypes DEF ZC!NotifyResult, ZC!Notify, ZC!Done, ZC!RxState, EndingPlaces
    <2>2. rx' \in [Link \cup {ZC!Timer} -> ZC!RxState]
      BY <2>1, RxSteps
    <2>3. answeredQueries' \subseteq Queries
      <3>1. rx[t].pc \in EndingPlaces => rx[t].req \in Queries
        BY RxTypes
      <3>2. answeredQueries' = answeredQueries \/ (rx[t].pc \in EndingPlaces /\ answeredQueries' = answeredQueries \cup {rx[t].req})
        BY <1>1 DEF ZC!NotifyResult, ZC!Notify, ZC!Done, EndingPlaces
      <3>3. QED
        BY <3>1, <3>2 DEF ZC!TypeOK
    <2>4. queryCall' \in [Queries -> ZC!CallState]
      BY <1>1 DEF ZC!NotifyResult, ZC!Notify, ZC!Done, ZC!TypeOK, ZC!CallState
    <2>5. query' \in ZC!Query
      BY <1>1, QueryTypes DEF ZC!NotifyResult, ZC!Notify, ZC!Done, ZC!TypeOK, ZC!Query
    <2>6. mutex' \in {ZC!None, ZC!Service} \cup Queries
      BY <1>1 DEF ZC!NotifyResult, ZC!Notify, ZC!Done, ZC!TypeOK
    <2>7. UNCHANGED <<offers, inbox, executed, back, cut, info, srvQueue, service, toSend, handler, events>>
      BY <1>1 DEF ZC!NotifyResult, ZC!Notify, ZC!Done
    <2>8. QED
      BY <2>2, <2>3, <2>4, <2>5, <2>6, <2>7, MutexTypes DEF ZC!TypeOK, MutexHolders
  <1>2. CASE t \in Link /\ ZC!ReceiveSample(t)
    <2>1. back' \in [Link -> Seq(ZC!Sample \cup ZC!End)]
      BY <1>2, BackTypes, LinkTypes DEF ZC!ReceiveSample, ZC!TypeOK
    <2>2. rx' \in [Link \cup {ZC!Timer} -> ZC!RxState]
      <3>1. [pc |-> "connect", server |-> Head(back[t]).server] \in ZC!RxState
        BY <1>2, BackTypes DEF ZC!ReceiveSample, ZC!RxState
      <3>2. QED
        BY <1>2, <3>1, RxSteps DEF ZC!ReceiveSample, ZC!TypeOK
    <2>3. info' \subseteq Queryables
      <3>1. Head(back[t]).server \in Queryables /\ info \subseteq Queryables
        BY <1>2, BackTypes DEF ZC!ReceiveSample, ZC!TypeOK
      <3>2. QED
        BY <1>2, <3>1 DEF ZC!ReceiveSample
    <2>4. QED
      BY <1>2, <2>1, <2>2, <2>3 DEF ZC!ReceiveSample, ZC!TypeOK
  <1>3. CASE t \in Link /\ ZC!ReceiveEnd(t)
    <2>1. back' \in [Link -> Seq(ZC!Sample \cup ZC!End)]
      BY <1>3, BackTypes, LinkTypes DEF ZC!ReceiveEnd, ZC!TypeOK
    <2>2. query' \in ZC!Query /\ rx' \in [Link \cup {ZC!Timer} -> ZC!RxState]
      <3>1. CASE UNCHANGED <<rx, query>>
        BY <3>1 DEF ZC!TypeOK
      <3>2. CASE query.pc = "open" /\ query.req = Head(back[t]).req
        <4>1. PICK pc \in {"open", "handing"}, to \in SUBSET Queryables, replied \in BOOLEAN :
                  /\ query' = AskingQuery(pc, to, replied)
                  /\ ZC!Hand(t, replied) \/ rx' = rx
          BY <1>3, <3>2, BackTypes, QueryTypes DEF ZC!ReceiveEnd, ZC!TypeOK, AskingQuery
        <4>2. query' \in ZC!Query
          BY <3>2, <4>1, QueryChanges DEF ZC!TypeOK
        <4>3. [pc |-> IF replied THEN "reply" ELSE "done", req |-> query.req] \in ZC!RxState
          BY <3>2, QueryTypes DEF ZC!TypeOK, ZC!RxState
        <4>4. QED
          BY <4>1, <4>2, <4>3, RxSteps DEF ZC!Hand, ZC!TypeOK
      <3>3. QED
        BY <1>3, <3>1, <3>2 DEF ZC!ReceiveEnd
    <2>3. QED
      BY <1>3, <2>1, <2>2 DEF ZC!ReceiveEnd, ZC!TypeOK
  <1>4. CASE t \in Link /\ ZC!OnNewSrvConnection(t)
    <2>1. rx' \in [Link \cup {ZC!Timer} -> ZC!RxState]
      BY <1>4, RxSteps DEF ZC!OnNewSrvConnection, ZC!RxState
    <2>2. srvQueue' \in Seq({ QueryKind[s] : s \in Queryables })
      <3>1. QueryKind[rx[t].server] \in { QueryKind[s] : s \in Queryables }
        BY <1>4, RxTypes DEF ZC!OnNewSrvConnection
      <3>2. srvQueue \in Seq({ QueryKind[s] : s \in Queryables })
        BY DEF ZC!TypeOK
      <3>3. QED
        BY <1>4, <3>1, <3>2, SeqTypes DEF ZC!OnNewSrvConnection, ZC!QueueKind
    <2>3. QED
      BY <1>4, <2>1, <2>2 DEF ZC!OnNewSrvConnection, ZC!TypeOK
  <1>5. CASE ZC!TimeUp
    <2>1. query.req \in Queries /\ query' = [query EXCEPT !.pc = "handing"]
      BY <1>5, QueryTypes DEF ZC!TimeUp, ZC!TypeOK
    <2>2. query' \in ZC!Query
      BY <1>5, <2>1, QueryChanges DEF ZC!TimeUp, ZC!TypeOK
    <2>3. rx' \in [Link \cup {ZC!Timer} -> ZC!RxState]
      <3>1. [pc |-> IF query.replied THEN "reply" ELSE "done", req |-> query.req] \in ZC!RxState
        BY <2>1 DEF ZC!RxState
      <3>2. rx' = [rx EXCEPT ![ZC!Timer] =
                       [pc |-> IF query.replied THEN "reply" ELSE "done", req |-> query.req]]
        BY <1>5 DEF ZC!TimeUp, ZC!Hand
      <3>3. QED
        BY <3>1, <3>2, RxSteps DEF QueryThreads
    <2>4. QED
      BY <1>5, <2>1, <2>2, <2>3 DEF ZC!TimeUp, ZC!TypeOK
  <1>6. QED
    BY <1>1, <1>2, <1>3, <1>4, <1>5 DEF ZC!ThreadStep, ZC!LinkStep

LEMMA QueryTypeNext ==
    ASSUME ZC!TypeOK, MutexHolders, QueriesWellformed, [ZC!Next]_ZC!vars
    PROVE  ZC!TypeOK' /\ MutexHolders'
  <1>1. MutexHolders'
    BY HoldersNext
  <1>2. CASE UNCHANGED ZC!vars
    <2>1. UNCHANGED <<offers, inbox, executed, back, rx, query, cut, info, srvQueue, service>>
      BY <1>2 DEF ZC!vars
    <2>2. UNCHANGED <<mutex, toSend, handler, queryCall, answeredQueries, events>>
      BY <1>2 DEF ZC!vars
    <2>3. QED
      BY <1>1, <2>1, <2>2, MutexTypes DEF ZC!TypeOK
  <1>3. QED
    BY <1>1, <1>2, CallerTypes, HolderTypes, ServerTypes, ThreadTypes DEF ZC!Next, QueryThreads

\* Every variable keeps its type; who holds the mutex is in SendPendingRemoteReqs or
\* before its wait.
THEOREM QueriesTypeCorrect == ASSUME QueriesWellformed PROVE ZC!Spec => []ZC!TypeOK
  <1>1. ZC!Init => ZC!TypeOK /\ MutexHolders
    BY QueryTypeInit
  <1>2. ZC!TypeOK /\ MutexHolders /\ [ZC!Next]_ZC!vars => (ZC!TypeOK /\ MutexHolders)'
    BY QueryTypeNext
  <1>3. QED
    BY <1>1, <1>2, PTL DEF ZC!Spec

-----------------------------------------------------------------------------
(* What is to be sent.                                                     *)

\* The steps of a call that are not Request.
CallGoesOn(r) == ZC!CallContinues(r) \/ ZC!SpuriousWakeup(r) \/ ZC!Timeout(r)

LEMMA CallGoesOnFrame ==
    ASSUME ZC!TypeOK, NEW r \in Queries, CallGoesOn(r)
    PROVE  /\ UNCHANGED <<ZC!servers, back, rx, query, cut, info, srvQueue, service, toSend, handler, answeredQueries>>
           /\ queryCall[r] # "idle" /\ queryCall'[r] # "idle"
           /\ \A q \in Queries : q # r => queryCall'[q] = queryCall[q]
  <1>1. PICK at \in ZC!CallState \ {"idle"} : queryCall' = [queryCall EXCEPT ![r] = at]
    BY DEF CallGoesOn, ZC!CallContinues, ZC!Sent, ZC!Block, ZC!Resume, ZC!SpuriousWakeup, ZC!Timeout, ZC!CallState
  <1>2. queryCall[r] # "idle" /\ queryCall \in [Queries -> ZC!CallState]
    BY DEF CallGoesOn, ZC!CallContinues, ZC!Sent, ZC!Block, ZC!Resume, ZC!SpuriousWakeup, ZC!Timeout, ZC!TypeOK
  <1>3. UNCHANGED <<ZC!servers, back, rx, query, cut, info, srvQueue, service, toSend, handler, answeredQueries>>
    BY DEF CallGoesOn, ZC!CallContinues, ZC!Sent, ZC!Block, ZC!Resume, ZC!SpuriousWakeup, ZC!Timeout
  <1>4. QED
    BY <1>1, <1>2, <1>3

\* The receiving threads and the timer: a query stays the query of its request, until
\* CreateZenohGet returns, and a call is woken at most.
LEMMA ThreadFrame ==
    ASSUME ZC!TypeOK, NEW t \in QueryThreads, ZC!ThreadStep(t)
    PROVE  /\ UNCHANGED <<ZC!servers, mutex, toSend, handler, service>>
           /\ query'.pc = "idle" <=> query.pc = "idle"
           /\ query.pc # "idle" => query'.req = query.req
           /\ \A r \in Queries : queryCall'[r] = queryCall[r] \/ (queryCall[r] = "blocked" /\ queryCall'[r] = "woken")
  <1>1. query \in ZC!Query
    BY DEF ZC!TypeOK
  <1>2. CASE ZC!NotifyResult(t) \/ (t \in Link /\ (ZC!ReceiveSample(t) \/ ZC!OnNewSrvConnection(t)))
    BY <1>2 DEF ZC!NotifyResult, ZC!ReceiveSample, ZC!OnNewSrvConnection, ZC!callers, ZC!servers
  <1>3. CASE ZC!Notify(t)
    BY <1>3 DEF ZC!Notify, ZC!TypeOK, ZC!servers
  <1>4. CASE ZC!Done(t)
    BY <1>1, <1>4, QueryChanges DEF ZC!Done, ZC!callers, ZC!servers
  <1>5. CASE t \in Link /\ ZC!ReceiveEnd(t)
    <2>1. UNCHANGED <<ZC!servers, mutex, toSend, handler, service, queryCall>>
      BY <1>5 DEF ZC!ReceiveEnd, ZC!callers, ZC!servers
    <2>2. CASE query.pc = "open" /\ query.req = Head(back[t]).req
      <3>1. PICK pc \in {"open", "handing"}, to \in SUBSET Queryables, replied \in BOOLEAN :
                query' = AskingQuery(pc, to, replied)
        BY <1>5, <2>2, BackTypes, QueryTypes DEF ZC!ReceiveEnd, ZC!TypeOK, AskingQuery
      <3>2. QED
        <4>1. query'.pc = pc /\ query'.req = query.req
          BY <1>1, <2>2, <3>1, QueryChanges
        <4>2. QED
          BY <2>1, <2>2, <4>1
    <2>3. CASE query' = query
      BY <2>1, <2>3
    <2>4. QED
      BY <1>5, <2>2, <2>3 DEF ZC!ReceiveEnd
  <1>6. CASE ZC!TimeUp
    BY <1>1, <1>6, QueryChanges DEF ZC!TimeUp, ZC!callers, ZC!servers
  <1>7. QED
    BY <1>2, <1>3, <1>4, <1>5, <1>6 DEF ZC!ThreadStep, ZC!LinkStep

\* Nobody who could begin to send finds a query, or something to send.
LEMMA FreeIsIdle ==
    ASSUME ZC!TypeOK, MutexHolders, QuerySenders, mutex = ZC!None, QueriesWellformed
    PROVE  toSend = {} /\ query.pc = "idle"
  BY DEF MutexHolders, QuerySenders, QueriesWellformed, ZC!None, ZC!Service

LEMMA SendersInit == ZC!Init => QuerySenders
  <1>1. ZC!Idle.pc = "idle"
    BY DEF ZC!Idle
  <1>2. ZC!Init => query.pc = "idle" /\ toSend = {} /\ \A r \in Queries : handler[r] = "none"
    BY <1>1 DEF ZC!Init
  <1>3. QED
    BY <1>2 DEF QuerySenders

LEMMA SendersNext ==
    ASSUME ZC!TypeOK, MutexHolders, QuerySenders, QueriesWellformed, [ZC!Next]_ZC!vars
    PROVE  QuerySenders'
  <1>. /\ queryCall \in [Queries -> ZC!CallState] /\ handler \in [Queries -> {"none", "stored", "requested"}]
       /\ toSend \subseteq Queries /\ query \in ZC!Query
    BY DEF ZC!TypeOK
  <1>1. ASSUME NEW r \in Queries, ZC!Request(r) PROVE QuerySenders'
    <2>1. toSend = {} /\ query.pc = "idle" /\ query' = query
      BY <1>1, FreeIsIdle DEF ZC!Request
    <2>2. /\ handler' = [handler EXCEPT ![r] = "stored"] /\ queryCall'[r] # "idle"
          /\ \A q \in Queries : q # r => queryCall'[q] = queryCall[q]
      BY <1>1 DEF ZC!Request, ZC!CallState
    <2>3. \A q \in toSend' : handler'[q] = "stored"
      BY <1>1 DEF ZC!Request, ZC!Pending
    <2>4. QED
      BY <2>1, <2>2, <2>3 DEF QuerySenders
  <1>2. ASSUME NEW r \in Queries, CallGoesOn(r) PROVE QuerySenders'
    BY <1>2, CallGoesOnFrame DEF QuerySenders
  <1>3. CASE ZC!TakeKind \/ ZC!SentFromService
    BY <1>3 DEF ZC!TakeKind, ZC!SentFromService, QuerySenders
  <1>4. CASE ZC!SendFromService
    BY <1>4, FreeIsIdle DEF ZC!SendFromService, QuerySenders, ZC!Pending
  <1>5. ASSUME NEW r \in Queries, ZC!Get(r) PROVE QuerySenders'
    <2>1. /\ r \in toSend /\ query.pc = "idle" /\ query'.req = r /\ query'.pc # "idle"
          /\ handler' = [handler EXCEPT ![r] = "requested"] /\ UNCHANGED <<toSend, queryCall>>
      BY <1>5 DEF ZC!Get, ZC!Idle
    <2>2. QED
      BY <2>1 DEF QuerySenders
  <1>6. CASE ZC!GetReturns
    <2>1. query.pc = "done" /\ query.req \in Queries /\ query'.pc = "idle" /\ queryCall' = queryCall
      BY <1>6, QueryTypes DEF ZC!GetReturns, ZC!QueryDone, ZC!Idle
    <2>2. /\ toSend' = toSend \ {query.req}
          /\ \A q \in Queries : q # query.req => handler'[q] = handler[q]
          /\ handler'[query.req] \in {"none", handler[query.req]}
      BY <1>6, <2>1 DEF ZC!GetReturns
    <2>3. QED
      BY <2>1, <2>2 DEF QuerySenders
  <1>7. CASE \E s \in Queryables : ZC!Offer(s) \/ ZC!Serve(s) \/ ZC!Stop(s)
    BY <1>7 DEF ZC!Offer, ZC!Serve, ZC!Stop, ZC!callers, QuerySenders
  <1>8. ASSUME NEW t \in QueryThreads, ZC!ThreadStep(t) PROVE QuerySenders'
    BY <1>8, ThreadFrame DEF QuerySenders
  <1>9. CASE UNCHANGED ZC!vars
    BY <1>9 DEF ZC!vars, QuerySenders
  <1>10. QED
    BY <1>1, <1>2, <1>3, <1>4, <1>5, <1>6, <1>7, <1>8, <1>9
       DEF ZC!Next, CallGoesOn, ZC!ServiceStep, ZC!HolderStep, QueryThreads

-----------------------------------------------------------------------------
(* Each server has a request once.                                         *)

\* A step that tells nobody, executes nothing and makes no request unasked.
LEMMA AskedFrame ==
    ASSUME AskedOnce, UNCHANGED <<inbox, executed, answeredQueries>>,
           \A r \in Queries : Unasked(r)' => Unasked(r)
    PROVE  AskedOnce'
  BY DEF AskedOnce, Unheard, HasOnce, Waits, WaitsOnce

LEMMA InboxTypes ==
    ASSUME ZC!TypeOK, NEW s \in Queryables, inbox[s] # <<>>
    PROVE  /\ Head(inbox[s]) = inbox[s][1] /\ 1 \in DOMAIN inbox[s] /\ Head(inbox[s]) \in Queries
           /\ \A i \in DOMAIN Tail(inbox[s]) :
                 i \in Nat /\ i > 0 /\ i + 1 \in DOMAIN inbox[s] /\ Tail(inbox[s])[i] = inbox[s][i + 1]
  <1>1. inbox[s] \in Seq(Queries)
    BY DEF ZC!TypeOK
  <1>2. QED
    BY <1>1

LEMMA AskedGet ==
    ASSUME ZC!TypeOK, QuerySenders, AskedOnce, NEW r \in Queries, ZC!Get(r)
    PROVE  AskedOnce'
  <1>1. handler[r] = "stored" /\ queryCall[r] # "idle"
    BY DEF ZC!Get, QuerySenders, ZC!Idle
  <1>2. /\ ~Unasked(r)'
        /\ \A q \in Queries : q # r => (Unasked(q)' <=> Unasked(q))
        /\ UNCHANGED <<executed, answeredQueries>>
    BY <1>1 DEF ZC!Get, Unasked, ZC!TypeOK
  <1>3. Unheard(r)
    BY <1>1 DEF AskedOnce, Unasked
  <1>4. ASSUME NEW s \in Queryables
        PROVE  /\ HasOnce(r, s)'
               /\ \A q \in Queries : q # r => (Waits(q, s)' <=> Waits(q, s)) /\ (WaitsOnce(q, s) => WaitsOnce(q, s)')
    <2>1. inbox[s] \in Seq(Queries) /\ inbox'[s] \in {inbox[s], Append(inbox[s], r)}
      BY DEF ZC!Get, ZC!TypeOK
    <2>2. CASE inbox'[s] = inbox[s]
      BY <1>2, <1>3, <2>2 DEF Unheard, HasOnce, Waits, WaitsOnce
    <2>3. CASE inbox'[s] = Append(inbox[s], r)
      <3>1. /\ DOMAIN inbox'[s] = DOMAIN inbox[s] \cup {Len(inbox[s]) + 1}
            /\ inbox'[s][Len(inbox[s]) + 1] = r
            /\ \A i \in DOMAIN inbox[s] : inbox'[s][i] = inbox[s][i]
        BY <2>1, <2>3
      <3>2. WaitsOnce(r, s)' /\ executed'[r][s] = <<>>
        BY <1>2, <1>3, <3>1 DEF Unheard, Waits, WaitsOnce
      <3>3. \A q \in Queries : q # r => (Waits(q, s)' <=> Waits(q, s)) /\ (WaitsOnce(q, s) => WaitsOnce(q, s)')
        BY <3>1 DEF Waits, WaitsOnce
      <3>4. QED
        BY <3>2, <3>3 DEF HasOnce
    <2>4. QED
      BY <2>1, <2>2, <2>3
  <1>5. ASSUME NEW q \in Queries, q # r
        PROVE  (Unasked(q)' => Unheard(q)') /\ \A s \in Queryables : HasOnce(q, s)'
    BY <1>2, <1>4, <1>5 DEF AskedOnce, Unheard, HasOnce
  <1>6. QED
    BY <1>2, <1>4, <1>5 DEF AskedOnce

LEMMA AskedServe ==
    ASSUME ZC!TypeOK, AskedOnce, NEW s \in Queryables, ZC!Serve(s)
    PROVE  AskedOnce'
  <1>0. PICK q : q = Head(inbox[s])
    OBVIOUS
  <1>1. /\ q = inbox[s][1] /\ 1 \in DOMAIN inbox[s] /\ q \in Queries
        /\ \A i \in DOMAIN Tail(inbox[s]) :
              i \in Nat /\ i > 0 /\ i + 1 \in DOMAIN inbox[s] /\ Tail(inbox[s])[i] = inbox[s][i + 1]
    BY <1>0, InboxTypes DEF ZC!Serve
  <1>2. PICK result \in BOOLEAN : executed' = [executed EXCEPT ![q][s] = Append(@, result)]
    BY <1>0 DEF ZC!Serve
  <1>3. /\ inbox' = [inbox EXCEPT ![s] = Tail(@)] /\ UNCHANGED <<answeredQueries, queryCall, handler>>
        /\ executed \in [Queries -> [Queryables -> Seq(BOOLEAN)]] /\ DOMAIN inbox = Queryables
    BY DEF ZC!Serve, ZC!callers, ZC!TypeOK
  <1>4. /\ \A u \in Queryables : u # s => inbox'[u] = inbox[u]
        /\ inbox'[s] = Tail(inbox[s])
        /\ \A r \in Queries, u \in Queryables : r # q \/ u # s => executed'[r][u] = executed[r][u]
        /\ executed'[q][s] = Append(executed[q][s], result)
    BY <1>1, <1>2, <1>3
  <1>5. \A r \in Queries, u \in Queryables :
            (Waits(r, u)' => Waits(r, u)) /\ (WaitsOnce(r, u) => WaitsOnce(r, u)')
    <2>1. ASSUME NEW r \in Queries, NEW u \in Queryables, u # s
          PROVE  (Waits(r, u)' => Waits(r, u)) /\ (WaitsOnce(r, u) => WaitsOnce(r, u)')
      BY <1>4, <2>1 DEF Waits, WaitsOnce
    <2>2. ASSUME NEW r \in Queries
          PROVE  (Waits(r, s)' => Waits(r, s)) /\ (WaitsOnce(r, s) => WaitsOnce(r, s)')
      <3>1. Waits(r, s)' => Waits(r, s)
        BY <1>1, <1>4 DEF Waits
      <3>2. ASSUME WaitsOnce(r, s), NEW i \in DOMAIN inbox'[s], NEW j \in DOMAIN inbox'[s],
                   inbox'[s][i] = r, inbox'[s][j] = r
            PROVE  i = j
        <4>1. i + 1 = j + 1 /\ i \in Nat /\ j \in Nat
          BY <1>1, <1>4, <3>2 DEF WaitsOnce
        <4>2. QED
          BY <4>1
      <3>3. QED
        BY <3>1, <3>2 DEF WaitsOnce
    <2>3. QED
      BY <2>1, <2>2
  <1>6. Waits(q, s) /\ ~Unasked(q) /\ executed[q][s] = <<>> /\ WaitsOnce(q, s)
    <2>1. Waits(q, s)
      BY <1>1 DEF Waits
    <2>2. QED
      BY <1>1, <2>1 DEF AskedOnce, Unheard, HasOnce
  <1>7. executed'[q][s] = <<result>> /\ ~Waits(q, s)'
    <2>1. Append(<<>>, result) = <<result>>
      OBVIOUS
    <2>2. ASSUME NEW i \in DOMAIN inbox'[s], inbox'[s][i] = q PROVE FALSE
      <3>1. i \in Nat /\ i > 0 /\ i + 1 = 1
        BY <1>1, <1>4, <1>6, <2>2 DEF WaitsOnce
      <3>2. QED
        BY <3>1
    <2>3. QED
      BY <1>4, <1>6, <2>1, <2>2 DEF Waits
  <1>8. \A r \in Queries : Unasked(r)' <=> Unasked(r)
    BY <1>3 DEF Unasked
  <1>9. HasOnce(q, s)'
    BY <1>7 DEF HasOnce
  <1>10. \A r \in Queries, u \in Queryables : r # q \/ u # s => HasOnce(r, u)'
    BY <1>4, <1>5 DEF AskedOnce, HasOnce
  <1>11. \A r \in Queries : Unasked(r)' => Unheard(r)'
    BY <1>3, <1>4, <1>5, <1>6, <1>8 DEF AskedOnce, Unheard
  <1>12. QED
    BY <1>9, <1>10, <1>11 DEF AskedOnce

LEMMA AskedStop ==
    ASSUME ZC!TypeOK, AskedOnce, NEW s \in Queryables, ZC!Stop(s)
    PROVE  AskedOnce'
  <1>1. /\ \A u \in Queryables : u # s => inbox'[u] = inbox[u]
        /\ inbox'[s] = <<>> /\ DOMAIN inbox'[s] = {}
        /\ UNCHANGED <<answeredQueries, queryCall, handler, executed>>
    <2>1. inbox \in [Queryables -> Seq(Queries)] /\ inbox' = [inbox EXCEPT ![s] = <<>>]
      BY DEF ZC!Stop, ZC!TypeOK
    <2>2. QED
      BY <2>1 DEF ZC!Stop, ZC!callers
  <1>2. \A r \in Queries, u \in Queryables :
            (Waits(r, u)' => Waits(r, u)) /\ (WaitsOnce(r, u) => WaitsOnce(r, u)')
    BY <1>1 DEF Waits, WaitsOnce
  <1>3. \A r \in Queries : (Unasked(r)' <=> Unasked(r)) /\ (Unheard(r) => Unheard(r)')
    BY <1>1, <1>2 DEF Unasked, Unheard
  <1>4. QED
    BY <1>1, <1>2, <1>3 DEF AskedOnce, HasOnce

LEMMA AskedInit == ZC!Init => AskedOnce
  <1> SUFFICES ASSUME ZC!Init PROVE AskedOnce
    OBVIOUS
  <1>1. /\ answeredQueries = {}
        /\ \A r \in Queries, s \in Queryables : executed[r][s] = <<>>
        /\ \A s \in Queryables : inbox[s] = <<>>
    BY DEF ZC!Init
  <1>2. \A r \in Queries, s \in Queryables : ~Waits(r, s) /\ WaitsOnce(r, s)
    BY <1>1 DEF Waits, WaitsOnce
  <1>3. QED
    BY <1>1, <1>2 DEF AskedOnce, Unheard, HasOnce

LEMMA AskedNext ==
    ASSUME ZC!TypeOK, MutexHolders, QuerySenders, OneEnding, AskedOnce, QueriesWellformed, [ZC!Next]_ZC!vars
    PROVE  AskedOnce'
  <1>. queryCall \in [Queries -> ZC!CallState] /\ handler \in [Queries -> {"none", "stored", "requested"}]
    BY DEF ZC!TypeOK
  <1>1. ASSUME NEW r \in Queries, ZC!Request(r) PROVE AskedOnce'
    <2>1. UNCHANGED <<inbox, executed, answeredQueries>> /\ queryCall[r] = "idle"
      BY <1>1 DEF ZC!Request, ZC!servers
    <2>2. \A q \in Queries : q # r => queryCall'[q] = queryCall[q] /\ handler'[q] = handler[q]
      BY <1>1 DEF ZC!Request
    <2>3. QED
      BY <2>1, <2>2, AskedFrame DEF Unasked
  <1>2. ASSUME NEW r \in Queries, CallGoesOn(r) PROVE AskedOnce'
    BY <1>2, CallGoesOnFrame, AskedFrame DEF Unasked, ZC!servers
  <1>3. CASE ZC!TakeKind \/ ZC!SentFromService \/ ZC!SendFromService \/ UNCHANGED ZC!vars
    BY <1>3, AskedFrame DEF ZC!TakeKind, ZC!SentFromService, ZC!SendFromService, ZC!vars, Unasked, ZC!servers
  <1>4. CASE ZC!GetReturns
    <2>1. \A q \in Queries : handler'[q] = "stored" => handler[q] = "stored"
      BY <1>4 DEF ZC!GetReturns
    <2>2. QED
      BY <1>4, <2>1, AskedFrame DEF ZC!GetReturns, Unasked, ZC!servers
  <1>5. ASSUME NEW s \in Queryables, ZC!Offer(s) PROVE AskedOnce'
    BY <1>5, AskedFrame DEF ZC!Offer, Unasked, ZC!callers
  <1>6. ASSUME NEW t \in QueryThreads, ZC!ThreadStep(t) PROVE AskedOnce'
    <2>1. /\ UNCHANGED <<inbox, executed>>
          /\ \A r \in Queries : Unasked(r)' => Unasked(r)
      BY <1>6, ThreadFrame DEF Unasked, ZC!servers
    <2>2. CASE ZC!NotifyResult(t)
      <3>1. PICK q \in Queries : answeredQueries' = answeredQueries \cup {q} /\ ~Unasked(q)
        <4>1. rx[t].pc \in EndingPlaces /\ answeredQueries' = answeredQueries \cup {rx[t].req}
          BY <2>2 DEF ZC!NotifyResult, EndingPlaces
        <4>2. query.pc = "handing" /\ rx[t].req = query.req /\ rx[t].req \in Queries
          BY <4>1, RxTypes DEF OneEnding
        <4>3. ~Unasked(rx[t].req)
          BY <4>2 DEF QuerySenders, Unasked
        <4>4. QED
          BY <4>1, <4>2, <4>3
      <3>2. QED
        BY <2>1, <3>1 DEF AskedOnce, Unheard, HasOnce, Waits, WaitsOnce
    <2>3. CASE answeredQueries' = answeredQueries
      BY <2>1, <2>3, AskedFrame
    <2>4. QED
      BY <1>6, <2>2, <2>3 DEF ZC!ThreadStep, ZC!LinkStep, ZC!Notify, ZC!Done, ZC!ReceiveSample, ZC!ReceiveEnd,
         ZC!OnNewSrvConnection, ZC!TimeUp
  <1>7. QED
    BY <1>1, <1>2, <1>3, <1>4, <1>5, <1>6, AskedGet, AskedServe, AskedStop
       DEF ZC!Next, CallGoesOn, ZC!ServiceStep, ZC!HolderStep, QueryThreads

-----------------------------------------------------------------------------
(* One thread ends a query.                                                *)

LEMMA EndingFrame ==
    ASSUME OneEnding, UNCHANGED <<rx, query>>
    PROVE  OneEnding'
  BY DEF OneEnding

LEMMA EndingInit == ASSUME ZC!Init PROVE OneEnding
  <1>1. ZC!Idle.pc = "idle"
    BY DEF ZC!Idle
  <1>2. query.pc = "idle" /\ \A t \in QueryThreads : rx[t].pc = "idle"
    BY <1>1 DEF ZC!Init, QueryThreads
  <1>3. QED
    BY <1>2 DEF OneEnding, QueryThreads, EndingPlaces

\* While no query is handed over, a query may come or go.
LEMMA EndingNone ==
    ASSUME OneEnding, query.pc # "handing", query'.pc # "handing", rx' = rx
    PROVE  OneEnding'
  BY DEF OneEnding

\* A thread takes a query that is open, or what is none of a query.
LEMMA EndingBegins ==
    ASSUME ZC!TypeOK, OneEnding, query.pc = "open", query'.pc = "handing", query'.req = query.req,
           NEW t \in QueryThreads, NEW replied, ZC!Hand(t, replied)
    PROVE  OneEnding'
  <1>1. /\ rx'[t].pc \in EndingPlaces /\ rx'[t].req = query.req /\ rx'[t].pc # "connect"
        /\ \A u \in QueryThreads : u # t => rx'[u] = rx[u]
    BY DEF ZC!Hand, ZC!TypeOK, QueryThreads, EndingPlaces
  <1>2. \A u \in QueryThreads : u # t => rx'[u].pc \notin EndingPlaces
    BY <1>1 DEF OneEnding
  <1>3. rx'[ZC!Timer].pc # "connect"
    BY <1>1 DEF OneEnding, QueryThreads
  <1>4. QED
    BY <1>1, <1>2, <1>3 DEF OneEnding

LEMMA EndingThread ==
    ASSUME ZC!TypeOK, OneEnding, QueriesWellformed, NEW t \in QueryThreads, ZC!ThreadStep(t)
    PROVE  OneEnding'
  <1>. rx \in [QueryThreads -> ZC!RxState] /\ query \in ZC!Query
    BY DEF ZC!TypeOK, QueryThreads
  <1>1. CASE t \in Link /\ (ZC!ReceiveSample(t) \/ ZC!OnNewSrvConnection(t))
    <2>1. rx[t].pc \notin EndingPlaces /\ t # ZC!Timer /\ query' = query
      BY <1>1 DEF ZC!ReceiveSample, ZC!OnNewSrvConnection, ZC!Idle, EndingPlaces, QueriesWellformed
    <2>2. PICK state : (rx' = rx \/ rx' = [rx EXCEPT ![t] = state]) /\ state.pc \notin EndingPlaces
      BY <1>1 DEF ZC!ReceiveSample, ZC!OnNewSrvConnection, ZC!Idle, EndingPlaces
    <2>3. CASE rx' = rx
      BY <2>1, <2>3, EndingFrame
    <2>4. CASE rx' = [rx EXCEPT ![t] = state]
      <3>1. rx'[t].pc \notin EndingPlaces /\ \A u \in QueryThreads : u # t => rx'[u] = rx[u]
        BY <2>2, <2>4
      <3>2. QED
        BY <2>1, <3>1 DEF OneEnding, QueryThreads
    <2>5. QED
      BY <2>2, <2>3, <2>4
  <1>2. CASE ZC!NotifyResult(t) \/ ZC!Notify(t)
    <2>1. /\ rx[t].pc \in EndingPlaces /\ query' = query
          /\ \E pc \in {"wake", "done"} : rx' = [rx EXCEPT ![t].pc = pc]
      BY <1>2 DEF ZC!NotifyResult, ZC!Notify, EndingPlaces, ZC!callers
    <2>2. /\ rx'[t].pc \in EndingPlaces /\ rx'[t].req = rx[t].req /\ rx'[t].pc # "connect"
          /\ \A u \in QueryThreads : u # t => rx'[u] = rx[u]
      BY <2>1, RxTypes DEF EndingPlaces
    <2>3. QED
      BY <2>1, <2>2 DEF OneEnding, QueryThreads
  <1>3. CASE ZC!Done(t)
    <2>1. rx[t].pc \in EndingPlaces /\ query'.pc = "done"
      BY <1>3, QueryChanges DEF ZC!Done, EndingPlaces
    <2>2. /\ rx'[t].pc = "idle"
          /\ \A u \in QueryThreads : u # t => rx'[u] = rx[u]
      BY <1>3 DEF ZC!Done, ZC!Idle
    <2>3. \A u \in QueryThreads : rx'[u].pc \notin EndingPlaces
      BY <2>1, <2>2 DEF OneEnding, EndingPlaces
    <2>4. rx'[ZC!Timer].pc # "connect"
      BY <2>2 DEF OneEnding, QueryThreads
    <2>5. QED
      BY <2>1, <2>3, <2>4 DEF OneEnding
  <1>4. CASE t \in Link /\ ZC!ReceiveEnd(t)
    <2>1. CASE UNCHANGED <<rx, query>>
      BY <2>1, EndingFrame
    <2>2. CASE query.pc = "open" /\ query.req = Head(back[t]).req
      <3>1. PICK to \in SUBSET Queryables, replied \in BOOLEAN :
                \/ query' = AskingQuery("open", to, replied) /\ rx' = rx
                \/ query' = AskingQuery("handing", to, replied) /\ ZC!Hand(t, replied)
        <4>1. PICK to \in SUBSET Queryables, replied \in BOOLEAN :
                  /\ to = query.to \ {Head(back[t]).server}
                  /\ replied <=> query.replied \/ Head(back[t]).replied
          BY <1>4, <2>2, BackTypes, QueryTypes DEF ZC!ReceiveEnd, ZC!TypeOK
        <4>2. replied = (query.replied \/ Head(back[t]).replied)
          BY <4>1
        <4>3. QED
          BY <1>4, <2>2, <4>1, <4>2 DEF ZC!ReceiveEnd, AskingQuery
      <3>2. CASE query' = AskingQuery("open", to, replied) /\ rx' = rx
        BY <2>2, <3>2, QueryChanges, EndingNone
      <3>3. CASE query' = AskingQuery("handing", to, replied) /\ ZC!Hand(t, replied)
        BY <2>2, <3>3, QueryChanges, EndingBegins
      <3>4. QED
        BY <3>1, <3>2, <3>3
    <2>3. QED
      BY <1>4, <2>1, <2>2 DEF ZC!ReceiveEnd
  <1>5. CASE ZC!TimeUp
    <2>1. query.pc = "open" /\ query' = [query EXCEPT !.pc = "handing"] /\ ZC!Hand(ZC!Timer, query.replied)
      BY <1>5 DEF ZC!TimeUp
    <2>2. query'.pc = "handing" /\ query'.req = query.req
      BY <2>1, QueryChanges
    <2>3. QED
      BY <2>1, <2>2, EndingBegins DEF QueryThreads
  <1>6. QED
    BY <1>1, <1>2, <1>3, <1>4, <1>5 DEF ZC!ThreadStep, ZC!LinkStep

LEMMA EndingNext ==
    ASSUME ZC!TypeOK, OneEnding, QueriesWellformed, [ZC!Next]_ZC!vars
    PROVE  OneEnding'
  <1>1. ASSUME NEW r \in Queries, ZC!Request(r) \/ CallGoesOn(r) PROVE OneEnding'
    BY <1>1, CallGoesOnFrame, EndingFrame DEF ZC!Request
  <1>2. CASE ZC!ServiceStep \/ UNCHANGED ZC!vars
    BY <1>2, EndingFrame DEF ZC!ServiceStep, ZC!TakeKind, ZC!SendFromService, ZC!SentFromService, ZC!vars
  <1>3. ASSUME NEW r \in Queries, ZC!Get(r) PROVE OneEnding'
    BY <1>3, EndingNone DEF ZC!Get, ZC!Idle
  <1>4. CASE ZC!GetReturns
    BY <1>4, EndingNone DEF ZC!GetReturns, ZC!QueryDone, ZC!Idle
  <1>5. CASE \E s \in Queryables : ZC!Offer(s) \/ ZC!Serve(s) \/ ZC!Stop(s)
    BY <1>5, EndingFrame DEF ZC!Offer, ZC!Serve, ZC!Stop
  <1>6. QED
    BY <1>1, <1>2, <1>3, <1>4, <1>5, EndingThread DEF ZC!Next, CallGoesOn, ZC!HolderStep, QueryThreads

-----------------------------------------------------------------------------
(* Replies are true.                                                       *)

\* What a server has returned for a request is not changed by it later.
LEMMA SuccessStays ==
    ASSUME ZC!TypeOK, AskedOnce, [ZC!Next]_ZC!vars, NEW r \in Queries, Succeeded(r)
    PROVE  Succeeded(r)'
  <1>1. CASE executed' = executed
    BY <1>1 DEF Succeeded
  <1>2. ASSUME NEW s \in Queryables, ZC!Serve(s) PROVE Succeeded(r)'
    <2>1. PICK u \in Queryables : executed[r][u] = <<TRUE>>
      BY DEF Succeeded
    <2>2. <<TRUE>> # <<>>
      OBVIOUS
    <2>3. ~Waits(r, u)
      BY <2>1, <2>2 DEF AskedOnce, HasOnce
    <2>4. Waits(Head(inbox[s]), s) /\ Head(inbox[s]) \in Queries
      BY <1>2, InboxTypes DEF ZC!Serve, Waits
    <2>5. Head(inbox[s]) # r \/ s # u
      BY <2>3, <2>4
    <2>6. executed'[r][u] = executed[r][u]
      <3>1. PICK result, q : /\ executed' = [executed EXCEPT ![q][s] = Append(@, result)]
                             /\ q # r \/ s # u
        BY <1>2, <2>5 DEF ZC!Serve
      <3>2. executed \in [Queries -> [Queryables -> Seq(BOOLEAN)]]
        BY DEF ZC!TypeOK
      <3>3. QED
        BY <3>1, <3>2
    <2>7. QED
      BY <2>1, <2>6 DEF Succeeded
  <1>3. QED
    <2>1. ASSUME NEW q \in Queries, ZC!Request(q) \/ CallGoesOn(q) PROVE Succeeded(r)'
      BY <1>1, <2>1, CallGoesOnFrame DEF ZC!Request, ZC!servers
    <2>2. CASE ZC!ServiceStep \/ ZC!HolderStep \/ UNCHANGED ZC!vars
      BY <1>1, <2>2 DEF ZC!ServiceStep, ZC!TakeKind, ZC!SendFromService, ZC!SentFromService, ZC!HolderStep, ZC!Get,
         ZC!GetReturns, ZC!servers, ZC!vars
    <2>3. CASE \E s \in Queryables : ZC!Offer(s) \/ ZC!Stop(s)
      BY <1>1, <2>3 DEF ZC!Offer, ZC!Stop
    <2>4. ASSUME NEW t \in QueryThreads, ZC!ThreadStep(t) PROVE Succeeded(r)'
      BY <1>1, <2>4, ThreadFrame DEF ZC!servers
    <2>5. QED
      BY <1>2, <2>1, <2>2, <2>3, <2>4 DEF ZC!Next, CallGoesOn, QueryThreads

LEMMA TruthStays ==
    ASSUME ZC!TypeOK, AskedOnce, [ZC!Next]_ZC!vars, NEW m \in ZC!Sample \cup ZC!End, IsTrue(m)
    PROVE  m.kind = "end" /\ m.replied => Succeeded(m.req)'
  <1> SUFFICES ASSUME m.kind = "end", m.replied PROVE Succeeded(m.req)'
    OBVIOUS
  <1>1. m \in ZC!End
    BY DEF ZC!Sample
  <1>2. PICK r \in Queries : r = m.req
    BY <1>1 DEF ZC!End
  <1>3. Succeeded(r)
    BY <1>2 DEF IsTrue
  <1>4. Succeeded(r)'
    BY <1>3, SuccessStays
  <1>5. QED
    BY <1>2, <1>4

\* A link brings what it brought, and what is true.
BringsTruth ==
    \A l \in Link : \A i \in DOMAIN back'[l] :
        \/ \E j \in DOMAIN back[l] : back'[l][i] = back[l][j]
        \/ IsTrue(back[l][i])'

LEMMA OfferBrings ==
    ASSUME ZC!TypeOK, QueriesWellformed, NEW s \in Queryables, ZC!Offer(s)
    PROVE  BringsTruth
  <1>0. PICK m : m = [kind |-> "put", server |-> s]
    OBVIOUS
  <1>1. back' = [back EXCEPT ![LinkOf[s]] = Append(@, m)] /\ m.kind = "put"
    BY <1>0 DEF ZC!Offer
  <1>2. LinkOf[s] \in Link /\ back \in [Link -> Seq(ZC!Sample \cup ZC!End)]
    BY DEF ZC!TypeOK, QueriesWellformed
  <1>3. /\ \A l \in Link : l # LinkOf[s] => back'[l] = back[l]
        /\ back'[LinkOf[s]] = Append(back[LinkOf[s]], m)
    BY <1>1, <1>2
  <1>4. \A i \in DOMAIN back'[LinkOf[s]] :
            \/ i \in DOMAIN back[LinkOf[s]] /\ back'[LinkOf[s]][i] = back[LinkOf[s]][i]
            \/ back'[LinkOf[s]][i] = m
    BY <1>2, <1>3
  <1>5. QED
    BY <1>1, <1>3, <1>4 DEF BringsTruth, IsTrue

LEMMA ServeBrings ==
    ASSUME ZC!TypeOK, QueriesWellformed, AskedOnce, NEW s \in Queryables, ZC!Serve(s)
    PROVE  BringsTruth
  <1>1. PICK q : q = Head(inbox[s])
    OBVIOUS
  <1>2. PICK result \in BOOLEAN :
            /\ executed' = [executed EXCEPT ![q][s] = Append(@, result)]
            /\ back' = [back EXCEPT ![LinkOf[s]] =
                   Append(@, [kind |-> "end", server |-> s, req |-> q, replied |-> result])]
    BY <1>1 DEF ZC!Serve
  <1>3. PICK m : m = [kind |-> "end", server |-> s, req |-> q, replied |-> result]
    OBVIOUS
  <1>4. result => Succeeded(q)'
    <2>1. q \in Queries /\ Waits(q, s)
      BY <1>1, InboxTypes DEF ZC!Serve, Waits
    <2>2. executed[q][s] = <<>>
      BY <2>1 DEF AskedOnce, HasOnce
    <2>3. executed'[q][s] = Append(<<>>, result)
      BY <1>2, <2>1, <2>2 DEF ZC!TypeOK
    <2>4. result => Append(<<>>, result) = <<TRUE>>
      OBVIOUS
    <2>5. QED
      BY <2>3, <2>4 DEF Succeeded
  <1>5. LinkOf[s] \in Link /\ back \in [Link -> Seq(ZC!Sample \cup ZC!End)]
    BY DEF ZC!TypeOK, QueriesWellformed
  <1>6. /\ \A l \in Link : l # LinkOf[s] => back'[l] = back[l]
        /\ back'[LinkOf[s]] = Append(back[LinkOf[s]], m)
    BY <1>2, <1>3, <1>5
  <1>7. \A i \in DOMAIN back'[LinkOf[s]] :
            \/ i \in DOMAIN back[LinkOf[s]] /\ back'[LinkOf[s]][i] = back[LinkOf[s]][i]
            \/ back'[LinkOf[s]][i] = m
    BY <1>5, <1>6
  <1>8. m.replied => Succeeded(m.req)'
    BY <1>3, <1>4
  <1>9. QED
    BY <1>6, <1>7, <1>8 DEF BringsTruth, IsTrue

LEMMA StopBrings ==
    ASSUME ZC!TypeOK, QueriesWellformed, NEW s \in Queryables, ZC!Stop(s)
    PROVE  BringsTruth
  <1>1. PICK l \in Link, old \in Seq(ZC!Sample \cup ZC!End), queries \in Seq(Queries) :
            l = LinkOf[s] /\ old = back[l] /\ queries = inbox[s]
    BY DEF ZC!TypeOK, QueriesWellformed
  <1>2. PICK end : end = [i \in 1..Len(queries) |->
                             [kind |-> "end", server |-> s, req |-> queries[i], replied |-> FALSE]]
    OBVIOUS
  <1>3. PICK first : first = Append(old, [kind |-> "delete", server |-> s])
    OBVIOUS
  <1>4. back' = [back EXCEPT ![l] = first \o end] /\ back \in [Link -> Seq(ZC!Sample \cup ZC!End)]
    BY <1>1, <1>2, <1>3 DEF ZC!Stop, ZC!TypeOK
  <1>5. back'[l] = first \o end /\ \A k \in Link : k # l => back'[k] = back[k]
    BY <1>4
  <1>6. [kind |-> "delete", server |-> s] \in ZC!Sample \cup ZC!End
    BY DEF ZC!Sample
  <1>7. /\ first \in Seq(ZC!Sample \cup ZC!End) /\ Len(first) = Len(old) + 1
        /\ \A i \in 1..Len(old) : first[i] = old[i]
        /\ first[Len(old) + 1].kind = "delete"
    BY <1>3, <1>6
  <1>8. end \in Seq(ZC!Sample \cup ZC!End) /\ Len(end) = Len(queries)
    <2>1. Len(queries) \in Nat /\ \A i \in 1..Len(queries) : queries[i] \in Queries
      OBVIOUS
    <2>2. \A i \in 1..Len(queries) :
              [kind |-> "end", server |-> s, req |-> queries[i], replied |-> FALSE] \in ZC!Sample \cup ZC!End
      BY <2>1 DEF ZC!End
    <2>3. end \in [1..Len(queries) -> ZC!Sample \cup ZC!End]
      BY <1>2, <2>2
    <2>4. QED
      BY <2>1, <2>3, FunctionIsSeq
  <1>9. \A i \in 1..Len(end) : ~end[i].replied
    BY <1>2, <1>8
  <1>10. PICK both \in Seq(ZC!Sample \cup ZC!End) :
             /\ both = first \o end
             /\ Len(both) = Len(first) + Len(end)
             /\ \A i \in 1..(Len(first) + Len(end)) :
                   both[i] = IF i <= Len(first) THEN first[i] ELSE end[i - Len(first)]
    <2>1. first \o end \in Seq(ZC!Sample \cup ZC!End)
      BY <1>7, <1>8, ConcatProperties
    <2>2. Len(first \o end) = Len(first) + Len(end)
      BY <1>7, <1>8, ConcatProperties
    <2>3. \A i \in 1..(Len(first) + Len(end)) :
              (first \o end)[i] = IF i <= Len(first) THEN first[i] ELSE end[i - Len(first)]
      BY <1>7, <1>8, ConcatProperties
    <2>4. QED
      BY <2>1, <2>2, <2>3
  <1>11. ASSUME NEW i \in DOMAIN back'[l]
         PROVE  \/ \E j \in DOMAIN back[l] : back'[l][i] = back[l][j]
                \/ back'[l][i].kind = "delete" \/ ~back'[l][i].replied
    <2>0. back'[l] = both /\ Len(old) \in Nat /\ Len(end) \in Nat
      BY <1>5, <1>8, <1>10
    <2>. i \in 1..(Len(old) + 1 + Len(end)) /\ Len(old) \in Nat /\ Len(end) \in Nat
      BY <1>7, <1>10, <2>0
    <2>1. CASE i \in 1..Len(old)
      BY <1>1, <1>7, <1>10, <2>0, <2>1
    <2>2. CASE i = Len(old) + 1
      BY <1>7, <1>10, <2>0, <2>2
    <2>3. CASE i > Len(old) + 1
      <3>1. back'[l][i] = end[i - Len(first)] /\ i - Len(first) \in 1..Len(end)
        BY <1>7, <1>10, <2>0, <2>3
      <3>2. QED
        BY <1>9, <3>1
    <2>4. QED
      BY <2>1, <2>2, <2>3
  <1>12. QED
    BY <1>5, <1>11 DEF BringsTruth, IsTrue

LEMMA LinksBring ==
    ASSUME ZC!TypeOK, QueriesWellformed, AskedOnce, [ZC!Next]_ZC!vars
    PROVE  BringsTruth
  <1>1. CASE back' = back
    BY <1>1 DEF BringsTruth
  <1>2. ASSUME NEW t \in Link, ZC!ReceiveSample(t) \/ ZC!ReceiveEnd(t) PROVE BringsTruth
    <2>1. /\ back' = [back EXCEPT ![t] = Tail(@)] /\ back[t] # <<>>
          /\ back \in [Link -> Seq(ZC!Sample \cup ZC!End)]
      BY <1>2 DEF ZC!ReceiveSample, ZC!ReceiveEnd, ZC!TypeOK
    <2>2. /\ back'[t] = Tail(back[t]) /\ \A l \in Link : l # t => back'[l] = back[l]
          /\ \A i \in DOMAIN Tail(back[t]) : /\ i + 1 \in DOMAIN back[t]
                                            /\ Tail(back[t])[i] = back[t][i + 1]
      BY <2>1, BackTypes
    <2>3. QED
      BY <2>2 DEF BringsTruth
  <1>3. QED
    <2>1. ASSUME NEW q \in Queries, ZC!Request(q) \/ CallGoesOn(q) PROVE BringsTruth
      BY <1>1, <2>1, CallGoesOnFrame DEF ZC!Request
    <2>2. CASE ZC!ServiceStep \/ ZC!HolderStep \/ UNCHANGED ZC!vars
      BY <1>1, <2>2 DEF ZC!ServiceStep, ZC!TakeKind, ZC!SendFromService, ZC!SentFromService, ZC!HolderStep, ZC!Get,
         ZC!GetReturns, ZC!vars
    <2>3. ASSUME NEW t \in QueryThreads,
                 ZC!NotifyResult(t) \/ ZC!Notify(t) \/ ZC!Done(t) \/ ZC!OnNewSrvConnection(t) \/ ZC!TimeUp
          PROVE  BringsTruth
      BY <1>1, <2>3 DEF ZC!NotifyResult, ZC!Notify, ZC!Done, ZC!OnNewSrvConnection, ZC!TimeUp
    <2>4. QED
      BY <1>2, <2>1, <2>2, <2>3, OfferBrings, ServeBrings, StopBrings
         DEF ZC!Next, CallGoesOn, QueryThreads, ZC!ThreadStep, ZC!LinkStep

\* What a thread is about to hand over.
ThreadsTrue == \A t \in QueryThreads : rx[t].pc = "reply" => Succeeded(rx[t].req)

QueryTrue == query.pc # "idle" /\ query.replied => Succeeded(query.req)

ToldTrue == \A r \in answeredQueries : Succeeded(r)

\* Truth that does not move stays.
LEMMA TruthFrame ==
    ASSUME ZC!TypeOK, AskedOnce, [ZC!Next]_ZC!vars
    PROVE  /\ query' = query /\ QueryTrue => QueryTrue'
           /\ rx' = rx /\ ThreadsTrue => ThreadsTrue'
           /\ answeredQueries' = answeredQueries /\ ToldTrue => ToldTrue'
  <1>1. ASSUME query' = query, QueryTrue PROVE QueryTrue'
    <2>1. query \in ZC!Query
      BY DEF ZC!TypeOK
    <2>2. CASE query.pc = "idle" \/ ~query.replied
      BY <1>1, <2>2 DEF QueryTrue
    <2>3. CASE query.pc # "idle" /\ query.replied
      <3>1. PICK r \in Queries : r = query.req
        BY <2>1, <2>3, QueryTypes
      <3>2. Succeeded(r)'
        BY <1>1, <2>3, <3>1, SuccessStays DEF QueryTrue
      <3>3. QED
        BY <1>1, <3>1, <3>2 DEF QueryTrue
    <2>4. QED
      BY <2>2, <2>3
  <1>2. ASSUME rx' = rx, ThreadsTrue PROVE ThreadsTrue'
    <2>1. ASSUME NEW t \in QueryThreads, rx[t].pc = "reply" PROVE Succeeded(rx[t].req)'
      <3>1. PICK r \in Queries : r = rx[t].req
        BY <2>1, RxTypes DEF EndingPlaces
      <3>2. Succeeded(r)'
        BY <1>2, <2>1, <3>1, SuccessStays DEF ThreadsTrue
      <3>3. QED
        BY <1>2, <3>1, <3>2
    <2>2. QED
      BY <1>2, <2>1 DEF ThreadsTrue
  <1>3. ASSUME answeredQueries' = answeredQueries, ToldTrue PROVE ToldTrue'
    BY <1>3, SuccessStays DEF ToldTrue, ZC!TypeOK
  <1>4. QED
    BY <1>1, <1>2, <1>3

LEMMA ThreadGoesOn ==
    ASSUME ZC!TypeOK, AskedOnce, [ZC!Next]_ZC!vars, ThreadsTrue, NEW t \in QueryThreads, NEW state,
           rx' = [rx EXCEPT ![t] = state], state.pc = "reply" => Succeeded(state.req)'
    PROVE  ThreadsTrue'
  <1>1. rx'[t] = state /\ \A u \in QueryThreads : u # t => rx'[u] = rx[u]
    BY DEF ZC!TypeOK, QueryThreads
  <1>2. ASSUME NEW u \in QueryThreads, rx[u].pc = "reply" PROVE Succeeded(rx[u].req)'
                                                  \/ rx'[u] # rx[u]
    <2>1. PICK r \in Queries : r = rx[u].req
      BY <1>2, RxTypes DEF EndingPlaces
    <2>2. Succeeded(r)'
      BY <1>2, <2>1, SuccessStays DEF ThreadsTrue
    <2>3. QED
      BY <2>1, <2>2
  <1>3. QED
    BY <1>1, <1>2 DEF ThreadsTrue

LEMMA TruthOfThreads ==
    ASSUME ZC!TypeOK, AskedOnce, RepliesAreTrue, [ZC!Next]_ZC!vars, NEW t \in QueryThreads, ZC!ThreadStep(t)
    PROVE  QueryTrue' /\ ThreadsTrue' /\ ToldTrue'
  <1>0. QueryTrue /\ ThreadsTrue /\ ToldTrue /\ query \in ZC!Query
    BY DEF RepliesAreTrue, QueryTrue, ThreadsTrue, ToldTrue, ZC!TypeOK
  <1>1. CASE t \in Link /\ (ZC!ReceiveSample(t) \/ ZC!OnNewSrvConnection(t))
    <2>1. /\ UNCHANGED <<query, answeredQueries>>
          /\ rx' = rx \/ \E state : rx' = [rx EXCEPT ![t] = state] /\ state.pc # "reply"
      BY <1>1 DEF ZC!ReceiveSample, ZC!OnNewSrvConnection, ZC!Idle
    <2>2. QED
      BY <1>0, <2>1, TruthFrame, ThreadGoesOn
  <1>2. CASE ZC!NotifyResult(t)
    <2>1. /\ query' = query /\ answeredQueries' = answeredQueries \cup {rx[t].req} /\ rx[t].pc = "reply"
          /\ rx' = [rx EXCEPT ![t].pc = "wake"]
      BY <1>2 DEF ZC!NotifyResult
    <2>2. PICK r \in Queries : r = rx[t].req /\ Succeeded(r)'
      <3>1. PICK r \in Queries : r = rx[t].req
        BY <2>1, RxTypes DEF EndingPlaces
      <3>2. QED
        BY <1>0, <2>1, <3>1, SuccessStays DEF ThreadsTrue
    <2>3. ToldTrue'
      <3>1. \A q \in answeredQueries : Succeeded(q)'
        BY <1>0, SuccessStays DEF ToldTrue, ZC!TypeOK
      <3>2. QED
        BY <2>1, <2>2, <3>1 DEF ToldTrue
    <2>4. ThreadsTrue'
      <3>1. rx' = [rx EXCEPT ![t] = [rx[t] EXCEPT !.pc = "wake"]]
        BY <2>1
      <3>2. [rx[t] EXCEPT !.pc = "wake"].pc = "wake"
        BY <2>1, RxTypes DEF EndingPlaces
      <3>3. QED
        BY <1>0, <3>1, <3>2, ThreadGoesOn
    <2>5. QED
      BY <1>0, <2>1, <2>3, <2>4, TruthFrame
  <1>3. CASE ZC!Notify(t)
    <2>1. UNCHANGED <<query, answeredQueries>> /\ rx' = [rx EXCEPT ![t] = [rx[t] EXCEPT !.pc = "done"]]
      BY <1>3 DEF ZC!Notify
    <2>2. [rx[t] EXCEPT !.pc = "done"].pc = "done"
      BY <1>3, RxTypes DEF ZC!Notify, EndingPlaces
    <2>3. QED
      BY <1>0, <2>1, <2>2, TruthFrame, ThreadGoesOn
  <1>4. CASE ZC!Done(t)
    <2>1. /\ answeredQueries' = answeredQueries /\ rx' = [rx EXCEPT ![t] = ZC!Idle] /\ ZC!Idle.pc # "reply"
          /\ query' = [query EXCEPT !.pc = "done"] /\ query.pc = "handing"
      BY <1>4 DEF ZC!Done, ZC!Idle
    <2>2. query'.req = query.req /\ query'.replied = query.replied
      BY <1>0, <2>1, QueryChanges
    <2>3. query.replied => Succeeded(query.req)'
      <3>1. PICK r \in Queries : r = query.req
        BY <1>0, <2>1, QueryTypes
      <3>2. QED
        BY <1>0, <2>1, <3>1, SuccessStays DEF QueryTrue
    <2>4. QED
      BY <1>0, <2>1, <2>2, <2>3, TruthFrame, ThreadGoesOn DEF QueryTrue
  <1>5. CASE t \in Link /\ ZC!ReceiveEnd(t)
    <2>1. answeredQueries' = answeredQueries
      BY <1>5 DEF ZC!ReceiveEnd
    <2>2. CASE UNCHANGED <<rx, query>>
      BY <1>0, <2>1, <2>2, TruthFrame
    <2>3. CASE query.pc = "open" /\ query.req = Head(back[t]).req
      <3>1. PICK m \in ZC!Sample \cup ZC!End : m = Head(back[t]) /\ m.kind = "end" /\ m.req \in Queries
        BY <1>5, BackTypes DEF ZC!ReceiveEnd
      <3>2. IsTrue(m)
        <4>1. back[t] # <<>> /\ back[t] \in Seq(ZC!Sample \cup ZC!End)
          BY <1>5 DEF ZC!ReceiveEnd, ZC!TypeOK
        <4>2. m = back[t][1] /\ 1 \in DOMAIN back[t]
          BY <3>1, <4>1
        <4>3. QED
          BY <1>5, <4>2 DEF RepliesAreTrue
      <3>3. PICK to \in SUBSET Queryables, replied \in BOOLEAN :
                /\ to = query.to \ {m.server}
                /\ replied <=> query.replied \/ m.replied
        BY <2>3, <1>0, QueryTypes
      <3>4. replied = (query.replied \/ m.replied)
        BY <3>3
      <3>5. \E pc \in {"open", "handing"} :
                /\ query' = AskingQuery(pc, to, replied)
                /\ rx' = rx \/ ZC!Hand(t, replied)
        BY <1>5, <2>3, <3>1, <3>3, <3>4 DEF ZC!ReceiveEnd, AskingQuery
      <3>6. query'.req = query.req /\ query'.replied = replied
        BY <1>0, <2>3, <3>5, QueryChanges
      <3>7. replied => Succeeded(m.req)'
        <4>1. CASE query.replied
          <5>1. PICK r \in Queries : r = m.req
            BY <3>1
          <5>2. Succeeded(r)
            BY <1>0, <2>3, <3>1, <4>1, <5>1 DEF QueryTrue
          <5>3. QED
            BY <5>1, <5>2, SuccessStays
        <4>2. CASE m.replied
          BY <3>1, <3>2, <4>2, TruthStays
        <4>3. QED
          BY <3>3, <4>1, <4>2
      <3>8. QueryTrue'
        BY <2>3, <3>1, <3>6, <3>7 DEF QueryTrue
      <3>9. ThreadsTrue'
        <4>1. CASE rx' = rx
          BY <1>0, <4>1, TruthFrame
        <4>2. CASE ZC!Hand(t, replied)
          <5>1. PICK state :
                    /\ state = [pc |-> IF replied THEN "reply" ELSE "done", req |-> m.req]
                    /\ rx' = [rx EXCEPT ![t] = state]
            BY <2>3, <3>1, <4>2 DEF ZC!Hand
          <5>2. state.pc = "reply" => Succeeded(state.req)'
            BY <3>7, <5>1
          <5>3. QED
            BY <1>0, <5>1, <5>2, ThreadGoesOn
        <4>3. QED
          BY <3>5, <4>1, <4>2
      <3>10. QED
        BY <1>0, <2>1, <3>8, <3>9, TruthFrame
    <2>4. QED
      BY <1>5, <2>2, <2>3 DEF ZC!ReceiveEnd
  <1>6. CASE ZC!TimeUp
    <2>1. /\ answeredQueries' = answeredQueries /\ query.pc = "open" /\ query' = [query EXCEPT !.pc = "handing"]
          /\ ZC!Hand(ZC!Timer, query.replied)
      BY <1>6 DEF ZC!TimeUp
    <2>2. query'.req = query.req /\ query'.replied = query.replied
      BY <1>0, <2>1, QueryChanges
    <2>3. PICK r \in Queries : r = query.req
      BY <1>0, <2>1, QueryTypes
    <2>4. query.replied => Succeeded(r)'
      BY <1>0, <2>1, <2>3, SuccessStays DEF QueryTrue
    <2>5. QueryTrue'
      BY <2>2, <2>3, <2>4 DEF QueryTrue
    <2>6. ThreadsTrue'
      <3>1. PICK state :
                /\ state = [pc |-> IF query.replied THEN "reply" ELSE "done", req |-> r]
                /\ rx' = [rx EXCEPT ![ZC!Timer] = state]
        BY <2>1, <2>3 DEF ZC!Hand
      <3>2. state.pc = "reply" => Succeeded(state.req)'
        BY <2>4, <3>1
      <3>3. QED
        BY <1>0, <3>1, <3>2, ThreadGoesOn DEF QueryThreads
    <2>7. QED
      BY <1>0, <2>1, <2>5, <2>6, TruthFrame
  <1>7. QED
    BY <1>1, <1>2, <1>3, <1>4, <1>5, <1>6 DEF ZC!ThreadStep, ZC!LinkStep

LEMMA RepliesInit == ASSUME ZC!Init PROVE RepliesAreTrue
  <1>1. ZC!Idle.pc = "idle"
    BY DEF ZC!Idle
  <1>2. /\ query.pc = "idle" /\ answeredQueries = {} /\ \A t \in QueryThreads : rx[t].pc = "idle"
        /\ \A l \in Link : back[l] = <<>>
    BY <1>1 DEF ZC!Init, QueryThreads
  <1>3. QED
    BY <1>2 DEF RepliesAreTrue

LEMMA RepliesNext ==
    ASSUME ZC!TypeOK, AskedOnce, RepliesAreTrue, QueriesWellformed, [ZC!Next]_ZC!vars
    PROVE  RepliesAreTrue'
  <1>0. QueryTrue /\ ThreadsTrue /\ ToldTrue
    BY DEF RepliesAreTrue, QueryTrue, ThreadsTrue, ToldTrue
  <1>1. ASSUME NEW l \in Link, NEW i \in DOMAIN back'[l] PROVE IsTrue(back[l][i])'
    <2>1. CASE IsTrue(back[l][i])'
      BY <2>1
    <2>2. ASSUME NEW j \in DOMAIN back[l], back'[l][i] = back[l][j]
          PROVE  IsTrue(back[l][i])'
      <3>1. PICK m \in ZC!Sample \cup ZC!End : m = back[l][j]
        <4>1. back[l] \in Seq(ZC!Sample \cup ZC!End)
          BY DEF ZC!TypeOK
        <4>2. QED
          BY <4>1
      <3>2. m.kind = "end" /\ m.replied => Succeeded(m.req)'
        BY <3>1, TruthStays DEF RepliesAreTrue
      <3>3. QED
        BY <2>2, <3>1, <3>2 DEF IsTrue
    <2>3. QED
      BY <2>1, <2>2, LinksBring DEF BringsTruth
  <1>2. QueryTrue' /\ ThreadsTrue' /\ ToldTrue'
    <2>1. ASSUME NEW r \in Queries, ZC!Request(r) \/ CallGoesOn(r)
          PROVE  QueryTrue' /\ ThreadsTrue' /\ ToldTrue'
      BY <1>0, <2>1, TruthFrame, CallGoesOnFrame DEF ZC!Request
    <2>2. CASE ZC!ServiceStep \/ UNCHANGED ZC!vars
      BY <1>0, <2>2, TruthFrame DEF ZC!ServiceStep, ZC!TakeKind, ZC!SendFromService, ZC!SentFromService, ZC!vars
    <2>3. ASSUME NEW r \in Queries, ZC!Get(r) PROVE QueryTrue' /\ ThreadsTrue' /\ ToldTrue'
      <3>1. ~query'.replied /\ UNCHANGED <<rx, answeredQueries>>
        BY <2>3 DEF ZC!Get
      <3>2. QED
        BY <1>0, <3>1, TruthFrame DEF QueryTrue
    <2>4. CASE ZC!GetReturns
      <3>1. query'.pc = "idle" /\ UNCHANGED <<rx, answeredQueries>>
        BY <2>4 DEF ZC!GetReturns, ZC!Idle
      <3>2. QED
        BY <1>0, <3>1, TruthFrame DEF QueryTrue
    <2>5. CASE \E s \in Queryables : ZC!Offer(s) \/ ZC!Serve(s) \/ ZC!Stop(s)
      BY <1>0, <2>5, TruthFrame DEF ZC!Offer, ZC!Serve, ZC!Stop
    <2>6. QED
      BY <2>1, <2>2, <2>3, <2>4, <2>5, TruthOfThreads DEF ZC!Next, CallGoesOn, ZC!HolderStep, QueryThreads
  <1>3. QED
    BY <1>1, <1>2 DEF RepliesAreTrue, QueryTrue, ThreadsTrue, ToldTrue

-----------------------------------------------------------------------------
(* No wake-up is lost.                                                     *)

LEMMA WaitingFrame ==
    ASSUME ZC!TypeOK, WaitingCallers, UNCHANGED <<queryCall, answeredQueries>>,
           rx' = rx \/ \E t \in QueryThreads : \E state : rx[t].pc # "wake" /\ rx' = [rx EXCEPT ![t] = state]
    PROVE  WaitingCallers'
  <1>1. \A t \in QueryThreads : rx[t].pc = "wake" => rx'[t] = rx[t]
    BY DEF ZC!TypeOK, QueryThreads
  <1>2. QED
    BY <1>1 DEF WaitingCallers

LEMMA WaitingCall ==
    ASSUME ZC!TypeOK, AskedOnce, WaitingCallers, NEW r \in Queries, ZC!Request(r) \/ CallGoesOn(r)
    PROVE  WaitingCallers'
  <1>1. UNCHANGED <<rx, answeredQueries>> /\ \A q \in Queries : q # r => queryCall'[q] = queryCall[q]
    <2>1. CASE ZC!Request(r)
      <3>1. (\E at : queryCall' = [queryCall EXCEPT ![r] = at]) /\ UNCHANGED <<rx, answeredQueries>>
        BY <2>1 DEF ZC!Request
      <3>2. QED
        BY <3>1 DEF ZC!TypeOK
    <2>2. QED
      BY <2>1, CallGoesOnFrame
  <1>2. /\ queryCall'[r] = "checked" => r \notin answeredQueries
        /\ queryCall'[r] = "blocked" => queryCall[r] = "checked"
    <2>. queryCall \in [Queries -> ZC!CallState]
      BY DEF ZC!TypeOK
    <2>1. CASE ZC!Request(r)
      BY <2>1 DEF ZC!Request, AskedOnce, Unasked, Unheard
    <2>2. CASE ZC!Sent(r) \/ ZC!Block(r) \/ ZC!Resume(r)
      BY <2>2 DEF ZC!Sent, ZC!Block, ZC!Resume
    <2>3. CASE ZC!SpuriousWakeup(r) \/ ZC!Timeout(r)
      BY <2>3 DEF ZC!SpuriousWakeup, ZC!Timeout
    <2>4. QED
      BY <2>1, <2>2, <2>3 DEF CallGoesOn, ZC!CallContinues
  <1>3. QED
    BY <1>1, <1>2 DEF WaitingCallers

LEMMA WaitingThread ==
    ASSUME ZC!TypeOK, MutexHolders, QuerySenders, OneEnding, WaitingCallers, QueriesWellformed,
           NEW t \in QueryThreads, ZC!ThreadStep(t)
    PROVE  WaitingCallers'
  <1>. /\ rx \in [QueryThreads -> ZC!RxState] /\ query \in ZC!Query /\ queryCall \in [Queries -> ZC!CallState]
       /\ answeredQueries \subseteq Queries
    BY DEF ZC!TypeOK, QueryThreads
  <1>1. CASE ZC!NotifyResult(t)
    <2>1. PICK r \in Queries : r = rx[t].req
      BY <1>1, RxTypes DEF ZC!NotifyResult, EndingPlaces
    <2>2. /\ rx[t].pc = "reply" /\ rx' = [rx EXCEPT ![t].pc = "wake"]
          /\ answeredQueries' = answeredQueries \cup {r} /\ queryCall' = queryCall
      BY <1>1, <2>1 DEF ZC!NotifyResult, ZC!callers
    <2>3. r \in toSend
      BY <2>1, <2>2 DEF OneEnding, QuerySenders, EndingPlaces
    <2>4. queryCall[r] # "checked"
      BY <2>3 DEF MutexHolders, QueriesWellformed
    <2>5. /\ rx'[t].pc = "wake" /\ rx'[t].req = r
          /\ \A u \in QueryThreads : rx[u].pc = "wake" => rx'[u] = rx[u]
      <3>1. rx[t] = [pc |-> rx[t].pc, req |-> r]
        BY <2>1, <2>2, RxTypes DEF EndingPlaces
      <3>2. QED
        BY <2>2, <3>1
    <2>6. QED
      BY <2>2, <2>4, <2>5 DEF WaitingCallers
  <1>2. CASE ZC!Notify(t)
    <2>1. PICK r \in Queries : r = rx[t].req
      BY <1>2, RxTypes DEF ZC!Notify, EndingPlaces
    <2>2. /\ rx' = [rx EXCEPT ![t].pc = "done"] /\ answeredQueries' = answeredQueries
          /\ queryCall'[r] # "blocked" /\ queryCall'[r] \in {"woken", queryCall[r]}
          /\ \A q \in Queries : q # r => queryCall'[q] = queryCall[q]
      BY <1>2, <2>1 DEF ZC!Notify
    <2>3. \A u \in QueryThreads : rx[u].req # r => rx'[u] = rx[u]
      BY <2>1, <2>2
    <2>4. QED
      BY <2>2, <2>3 DEF WaitingCallers
  <1>3. CASE ZC!Done(t)
    BY <1>3, WaitingFrame DEF ZC!Done, ZC!callers
  <1>4. CASE t \in Link /\ ZC!LinkStep(t)
    <2>1. UNCHANGED <<queryCall, answeredQueries>> /\ rx[t].pc # "wake"
      BY <1>4 DEF ZC!LinkStep, ZC!ReceiveSample, ZC!ReceiveEnd, ZC!OnNewSrvConnection, ZC!callers, ZC!Idle
    <2>2. rx' = rx \/ \E state : rx' = [rx EXCEPT ![t] = state]
      BY <1>4 DEF ZC!LinkStep, ZC!ReceiveSample, ZC!ReceiveEnd, ZC!OnNewSrvConnection, ZC!Hand
    <2>3. QED
      BY <2>1, <2>2, WaitingFrame
  <1>5. CASE ZC!TimeUp
    <2>1. UNCHANGED <<queryCall, answeredQueries>> /\ rx[ZC!Timer].pc # "wake"
      BY <1>5 DEF ZC!TimeUp, ZC!callers, ZC!Idle
    <2>2. \E state : rx' = [rx EXCEPT ![ZC!Timer] = state]
      BY <1>5 DEF ZC!TimeUp, ZC!Hand
    <2>3. QED
      BY <2>1, <2>2, WaitingFrame DEF QueryThreads
  <1>6. QED
    BY <1>1, <1>2, <1>3, <1>4, <1>5 DEF ZC!ThreadStep

LEMMA WaitingNext ==
    ASSUME ZC!TypeOK, MutexHolders, QuerySenders, AskedOnce, OneEnding, WaitingCallers, QueriesWellformed, [ZC!Next]_ZC!vars
    PROVE  WaitingCallers'
  <1>1. CASE ZC!ServiceStep \/ ZC!HolderStep \/ UNCHANGED ZC!vars
    BY <1>1, WaitingFrame DEF ZC!ServiceStep, ZC!TakeKind, ZC!SendFromService, ZC!SentFromService, ZC!HolderStep,
       ZC!Get, ZC!GetReturns, ZC!vars
  <1>2. CASE \E s \in Queryables : ZC!Offer(s) \/ ZC!Serve(s) \/ ZC!Stop(s)
    BY <1>2, WaitingFrame DEF ZC!Offer, ZC!Serve, ZC!Stop, ZC!callers
  <1>3. QED
    BY <1>1, <1>2, WaitingCall, WaitingThread DEF ZC!Next, CallGoesOn, QueryThreads

-----------------------------------------------------------------------------
(* The theorem.                                                            *)

LEMMA QueryInvariantInit == ASSUME QueriesWellformed, ZC!Init PROVE QueryInvariant
  <1>1. WaitingCallers
    BY DEF ZC!Init, WaitingCallers
  <1>2. QED
    BY <1>1, QueryTypeInit, SendersInit, AskedInit, RepliesInit, EndingInit DEF QueryInvariant

LEMMA QueryInvariantNext == ASSUME QueriesWellformed, QueryInvariant, [ZC!Next]_ZC!vars PROVE QueryInvariant'
  BY QueryTypeNext, SendersNext, AskedNext, RepliesNext, EndingNext, WaitingNext DEF QueryInvariant

\* At most one position of a queue has the request.
LEMMA QueryCardinality == \A S : ZC!Cardinality(S) = Cardinality(S)
  BY DEF ZC!Cardinality, Cardinality

LEMMA CountsOnce ==
    ASSUME ZC!TypeOK, NEW r \in Queries, NEW s \in Queryables, HasOnce(r, s)
    PROVE  Len(executed[r][s]) + Cardinality({ i \in DOMAIN inbox[s] : inbox[s][i] = r }) <= 1
  <1> DEFINE At == { i \in DOMAIN inbox[s] : inbox[s][i] = r }
  <1>1. CASE executed[r][s] = <<>> /\ WaitsOnce(r, s)
    <2>1. Cardinality(At) \in {0, 1}
      <3>1. CASE At = {}
        BY <3>1, FS_EmptySet
      <3>2. ASSUME NEW i \in At PROVE Cardinality(At) = 1
        <4>1. At = {i}
          BY <1>1 DEF WaitsOnce
        <4>2. QED
          BY <4>1, FS_Singleton
      <3>3. QED
        BY <3>1, <3>2
    <2>2. Len(executed[r][s]) = 0
      BY <1>1
    <2>3. QED
      BY <2>1, <2>2
  <1>2. CASE (\E result \in BOOLEAN : executed[r][s] = <<result>>) /\ ~Waits(r, s)
    <2>1. At = {}
      BY <1>2 DEF Waits
    <2>2. Cardinality(At) = 0
      BY <2>1, FS_EmptySet
    <2>3. Len(executed[r][s]) = 1
      BY <1>2
    <2>4. QED
      BY <2>2, <2>3
  <1>3. QED
    BY <1>1, <1>2 DEF HasOnce

LEMMA QueryInvariantSuffices == ASSUME QueriesWellformed, QueryInvariant PROVE ZC!QueriesSound
  <1>1. ZC!TypeOK
    BY DEF QueryInvariant
  <1>2. ASSUME NEW t \in QueryThreads, rx[t].pc \in EndingPlaces
        PROVE  rx[t] = [pc |-> rx[t].pc, req |-> rx[t].req]
    BY <1>1, <1>2, RxTypes
  <1>3. ZC!NoLostWakeup
    <2>1. ASSUME NEW r \in Queries, queryCall[r] = "blocked", r \in answeredQueries
          PROVE  \E t \in Link \cup {ZC!Timer} : rx[t] = [pc |-> "wake", req |-> r]
      <3>1. PICK t \in QueryThreads : rx[t].pc = "wake" /\ rx[t].req = r
        BY <2>1 DEF QueryInvariant, WaitingCallers
      <3>2. rx[t] = [pc |-> "wake", req |-> r]
        BY <1>2, <3>1 DEF EndingPlaces
      <3>3. QED
        BY <3>2 DEF QueryThreads
    <2>2. answeredQueries \subseteq Queries
      BY <1>1 DEF ZC!TypeOK
    <2>3. QED
      BY <2>1, <2>2 DEF ZC!NoLostWakeup
  <1>4. ZC!ExecutedOnce
    BY <1>1, CountsOnce, QueryCardinality DEF QueryInvariant, AskedOnce, ZC!ExecutedOnce
  <1>5. ZC!ToldOfSuccess
    BY DEF QueryInvariant, RepliesAreTrue, Succeeded, ZC!ToldOfSuccess
  <1>6. ZC!QueryEnds
    <2>1. query \in ZC!Query /\ (query.pc = "idle" <=> query = ZC!Idle)
      BY <1>1, QueryTypes DEF ZC!TypeOK
    <2>2. query # ZC!Idle => mutex # ZC!None /\ query.req \in toSend
      BY <2>1, FreeIsIdle DEF QueryInvariant, QuerySenders
    <2>3. query.pc = "open" => rx[ZC!Timer] = ZC!Idle
      <3>1. rx[ZC!Timer].pc \in {"idle", "connect"} \cup EndingPlaces /\ (rx[ZC!Timer].pc = "idle" <=> rx[ZC!Timer] = ZC!Idle)
        BY <1>1, RxTypes DEF QueryThreads
      <3>2. QED
        BY <3>1 DEF QueryInvariant, OneEnding, QueryThreads
    <2>4. query.pc = "handing" =>
              \E t \in Link \cup {ZC!Timer} :
                  rx[t].pc \in {"reply", "wake", "done"} /\ rx[t].req = query.req
      BY DEF QueryInvariant, OneEnding, QueryThreads, EndingPlaces
    <2>5. QED
      BY <2>2, <2>3, <2>4 DEF ZC!QueryEnds
  <1>7. QED
    BY <1>1, <1>3, <1>4, <1>5, <1>6 DEF ZC!QueriesSound

\* Requests that are queries of Zenoh are executed at most once by a server, the
\* callers are told of successes only and always woken, and a query ends though the
\* mutex is held through it: for any calls, servers and links.
THEOREM QueriesAreSound == NodePartsSpec => []QueriesSound
  <1>1. NodePartsInit => (part = "queries" => QueryInvariant)
    BY QueriesAreWellformed, QueryInvariantInit DEF NodePartsInit
  <1>2. (part = "queries" => QueryInvariant) /\ [NodePartsNext]_nodePartsVars
            => (part = "queries" => QueryInvariant)'
    <2>1. ASSUME QueryInvariant, ZC!Next \/ UNCHANGED queryVars PROVE QueryInvariant'
      <3>1. [ZC!Next]_ZC!vars
        BY <2>1 DEF queryVars, ZC!vars, ZC!servers, ZC!callers
      <3>2. QED
        BY <2>1, <3>1, QueriesAreWellformed, QueryInvariantNext
    <2>2. QED
      BY <2>1 DEF NodePartsNext, nodePartsVars
  <1>3. (part = "queries" => QueryInvariant) => QueriesSound
    BY QueriesAreWellformed, QueryInvariantSuffices DEF QueriesSound
  <1>4. QED
    BY <1>1, <1>2, <1>3, PTL DEF NodePartsSpec
=============================================================================
