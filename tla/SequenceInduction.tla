-------------------------- MODULE SequenceInduction --------------------------
(***************************************************************************)
(* What the folds of the community modules and recursive functions on 1..n *)
(* compute, for sequences of any length.  Induction is stated about sets   *)
(* of numbers, and rests on the least element of those that are missing.   *)
(***************************************************************************)
EXTENDS Integers, SequencesExt, SequenceTheorems, WellFoundedInduction, TLAPS

\* The order of the numbers, as the relation the library's theorems are about.
NatLess == {ss \in Nat \X Nat : ss[1] < ss[2]}

\* There is no endless descent in it.
LEMMA NatLessWellFounded == IsWellFoundedOn(NatLess, Nat)
<1>1. NatLess = OpToRel(<, Nat)
  BY DEF NatLess, OpToRel
<1> QED BY <1>1, NatLessThanWellFounded

\* A set with 0 and the successor of each of its numbers has all numbers.
LEMMA NatSetInduction ==
  ASSUME NEW S, 0 \in S, \A n \in Nat : n \in S => n + 1 \in S
  PROVE  Nat \subseteq S
<1> SUFFICES ASSUME Nat \ S # {} PROVE FALSE
  OBVIOUS
<1>1. PICK x \in Nat \ S : \A y \in Nat \ S : ~(<<y, x>> \in NatLess)
  BY NatLessWellFounded, WFMin
<1>2. x # 0 /\ x - 1 \in Nat /\ x - 1 < x
  BY <1>1
<1>3. x - 1 \in S
  BY <1>1, <1>2 DEF NatLess
<1>4. (x - 1) + 1 = x
  OBVIOUS
<1> QED BY <1>2, <1>3, <1>4

\* Whatever holds at the start of a range and goes from each number to the next
\* holds in all of it.
LEMMA UpwardInduction ==
  ASSUME NEW m \in Int, NEW n \in Int, NEW S,
         m \in S, \A i \in m..(n - 1) : i \in S => i + 1 \in S
  PROVE  m..n \subseteq S
<1> DEFINE R == {k \in Nat : m + k <= n => m + k \in S}
<1>1. 0 \in R
  OBVIOUS
<1>2. ASSUME NEW k \in Nat, k \in R PROVE k + 1 \in R
  <2>1. CASE m + (k + 1) <= n
    <3>1. m + k \in m..(n - 1) /\ m + k \in S
      BY <2>1, <1>2
    <3>2. (m + k) + 1 \in S
      BY <3>1
    <3> QED BY <3>2
  <2> QED BY <2>1
<1>3. Nat \subseteq R
  <2> HIDE DEF R
  <2> QED BY <1>1, <1>2, NatSetInduction
<1>4. ASSUME NEW i \in m..n PROVE i \in S
  <2>1. i - m \in Nat /\ m + (i - m) = i
    OBVIOUS
  <2> QED BY <2>1, <1>3
<1> QED BY <1>4

\* The same from the end of the range down.
LEMMA DownwardInduction ==
  ASSUME NEW m \in Int, NEW n \in Int, NEW S,
         n \in S, \A i \in (m + 1)..n : i \in S => i - 1 \in S
  PROVE  m..n \subseteq S
<1> DEFINE R == {k \in Nat : m <= n - k => n - k \in S}
<1>1. 0 \in R
  OBVIOUS
<1>2. ASSUME NEW k \in Nat, k \in R PROVE k + 1 \in R
  <2>1. CASE m <= n - (k + 1)
    <3>1. n - k \in (m + 1)..n /\ n - k \in S
      BY <2>1, <1>2
    <3>2. (n - k) - 1 \in S
      BY <3>1
    <3> QED BY <3>2
  <2> QED BY <2>1
<1>3. Nat \subseteq R
  <2> HIDE DEF R
  <2> QED BY <1>1, <1>2, NatSetInduction
<1>4. ASSUME NEW i \in m..n PROVE i \in S
  <2>1. n - i \in Nat /\ n - (n - i) = i /\ m <= n - (n - i)
    OBVIOUS
  <2>2. n - i \in R
    BY <2>1, <1>3
  <2> QED BY <2>1, <2>2
<1> QED BY <1>4

\* A set of numbers has a least one.
LEMMA LeastOf ==
  ASSUME NEW S \in SUBSET Nat, S # {}
  PROVE  \E m \in S : \A j \in S : m <= j
<1>1. PICK m \in S : \A j \in Nat : <<j, m>> \in NatLess => j \notin S
  BY NatLessWellFounded, WFMin
<1>2. \A j \in S : m <= j
  <2> TAKE j \in S
  <2>1. j \in Nat /\ m \in Nat
    OBVIOUS
  <2>2. j < m => <<j, m>> \in NatLess
    BY <2>1 DEF NatLess, OpToRel
  <2> QED BY <1>1, <2>1, <2>2
<1> QED BY <1>2

-----------------------------------------------------------------------------
(* Functions on 1..n, and the flattening of sequences                      *)

\* g has the values that start with a, each made of the one before.
Follows(g, m, a, next) == \A i \in 1..m : g[i] = IF i = 1 THEN a ELSE next[i][g[i - 1]]

\* A function on 1..n given by its first value and by how each value follows
\* from the one before.
LEMMA UpwardRecursion ==
  ASSUME NEW T, NEW n \in Nat, NEW a \in T, NEW next, \A i \in 1..n, t \in T : next[i][t] \in T
  PROVE  \E g \in [1..n -> T] : Follows(g, n, a, next)
<1> USE DEF Follows
<1> DEFINE R == {m \in Nat : m <= n => \E g \in [1..m -> T] : Follows(g, m, a, next)}
<1>1. 0 \in R
  <2>1. [i \in 1..0 |-> a] \in [1..0 -> T] /\ Follows([i \in 1..0 |-> a], 0, a, next)
    OBVIOUS
  <2> QED BY <2>1
<1>2. ASSUME NEW m \in Nat, m \in R PROVE m + 1 \in R
  <2> SUFFICES ASSUME m + 1 <= n PROVE \E g \in [1..(m + 1) -> T] : Follows(g, m + 1, a, next)
    OBVIOUS
  <2>1. PICK g \in [1..m -> T] : Follows(g, m, a, next)
    BY <1>2
  <2> DEFINE b == IF m = 0 THEN a ELSE next[m + 1][g[m]]
             h == [i \in 1..(m + 1) |-> IF i = m + 1 THEN b ELSE g[i]]
  <2>2. b \in T
    <3>1. CASE m = 0
      BY <3>1
    <3>2. CASE m # 0
      <4>1. g[m] \in T /\ m + 1 \in 1..n
        BY <3>2
      <4> QED BY <4>1, <3>2
    <3> QED BY <3>1, <3>2
  <2>3. h \in [1..(m + 1) -> T]
    BY <2>2
  <2>4. ASSUME NEW i \in 1..(m + 1)
        PROVE  h[i] = IF i = 1 THEN a ELSE next[i][h[i - 1]]
    <3>1. CASE i = m + 1
      BY <3>1
    <3>2. CASE i # m + 1
      <4>1. i \in 1..m /\ h[i] = g[i] /\ (i # 1 => h[i - 1] = g[i - 1])
        BY <3>2
      <4> QED BY <4>1, <2>1
    <3> QED BY <3>1, <3>2
  <2> QED BY <2>3, <2>4
<1>3. Nat \subseteq R
  <2> HIDE DEF R
  <2> QED BY <1>1, <1>2, NatSetInduction
<1> QED BY <1>3

\* FlattenSeq puts the sequences one behind the other: g[i] has the first i.
LEMMA FlattenSeqIs ==
  ASSUME NEW S, NEW seqs \in Seq(Seq(S))
  PROVE  \E g \in [1..Len(seqs) -> Seq(S)] :
            /\ \A i \in 1..Len(seqs) : g[i] = IF i = 1 THEN seqs[i] ELSE g[i - 1] \o seqs[i]
            /\ FlattenSeq(seqs) = IF Len(seqs) = 0 THEN <<>> ELSE g[Len(seqs)]
<1> DEFINE n == Len(seqs)
           F(g) == [i \in 1..n |-> IF i = 1 THEN seqs[i] ELSE g[i - 1] \o seqs[i]]
           f == CHOOSE g : g = F(g)
           next == [i \in 1..n |-> [s \in Seq(S) |-> s \o seqs[i]]]
<1>1. n \in Nat /\ seqs \in [1..n -> Seq(S)]
  BY LenProperties
<1>2. CASE n = 0
  <2>1. FlattenSeq(seqs) = <<>>
    BY <1>2 DEF FlattenSeq
  <2>2. [i \in 1..0 |-> <<>>] \in [1..0 -> Seq(S)]
    OBVIOUS
  <2>3. 1..n = {} /\ 1..0 = {}
    BY <1>2
  <2> QED BY <1>2, <2>1, <2>2, <2>3
<1>3. CASE n # 0
  <2>1. \A i \in 1..n, s \in Seq(S) : next[i][s] \in Seq(S)
    BY <1>1, ConcatProperties
  <2> DEFINE a == seqs[1]
  <2>2. a \in Seq(S)
    BY <1>1, <1>3
  <2>3. PICK g \in [1..n -> Seq(S)] :
            \A i \in 1..n : g[i] = IF i = 1 THEN a ELSE next[i][g[i - 1]]
    <3> DEFINE U == Seq(S)
    <3>1. n \in Nat /\ a \in U /\ \A i \in 1..n, t \in U : next[i][t] \in U
      BY <1>1, <2>1, <2>2
    <3> HIDE DEF next, n, a, f, F, U
    <3>2. \E g \in [1..n -> U] : Follows(g, n, a, next)
      BY <3>1, UpwardRecursion
    <3> QED BY <3>2 DEF U, Follows
  <2>4. ASSUME NEW i \in 1..n PROVE g[i] = IF i = 1 THEN seqs[i] ELSE g[i - 1] \o seqs[i]
    <3>1. i # 1 => g[i - 1] \in Seq(S)
      <4> HIDE DEF n
      <4>1. i # 1 => i - 1 \in 1..n
        BY <1>1
      <4> QED BY <4>1
    <3>2. i # 1 => next[i][g[i - 1]] = g[i - 1] \o seqs[i]
      BY <3>1
    <3> HIDE DEF next, n
    <3> QED BY <2>3, <3>2
  <2>5. g = F(g)
    BY <2>4
  <2>6. f = F(f)
    <3> HIDE DEF F
    <3> QED BY <2>5, Zenon
  <2>7. FlattenSeq(seqs) = f[n]
    BY <1>3 DEF FlattenSeq
  <2> HIDE DEF f
  <2>8. 1..n \subseteq {i \in 1..n : f[i] = g[i]}
    <3> DEFINE R == {i \in 1..n : f[i] = g[i]}
    <3>1. 1 \in R
      BY <1>1, <1>3, <2>4, <2>6
    <3>2. ASSUME NEW i \in 1..(n - 1), i \in R PROVE i + 1 \in R
      <4>1. i + 1 \in 1..n /\ i + 1 # 1 /\ (i + 1) - 1 = i /\ f[i] = g[i]
        BY <1>1, <3>2
      <4>2. f[i + 1] = f[i] \o seqs[i + 1]
        BY <4>1, <2>6
      <4>3. g[i + 1] = g[i] \o seqs[i + 1]
        BY <4>1, <2>4
      <4> QED BY <4>1, <4>2, <4>3
    <3> HIDE DEF R
    <3>3. 1..n \subseteq R
      <4>1. 1 \in Int /\ n \in Int
        BY <1>1
      <4>2. \A i \in 1..(n - 1) : i \in R => i + 1 \in R
        BY <3>2
      <4> HIDE DEF n, F
      <4> QED BY <4>1, <4>2, <3>1, UpwardInduction
    <3> QED BY <3>3 DEF R
  <2>9. FlattenSeq(seqs) = g[n]
    <3>1. n \in 1..n
      BY <1>1, <1>3
    <3> QED BY <3>1, <2>7, <2>8
  <2> QED BY <1>3, <2>4, <2>9
<1> QED BY <1>2, <1>3

\* It has the type of its parts.
LEMMA FlattenSeqType ==
  ASSUME NEW S, NEW seqs \in Seq(Seq(S))
  PROVE  FlattenSeq(seqs) \in Seq(S)
<1>1. PICK g \in [1..Len(seqs) -> Seq(S)] :
          FlattenSeq(seqs) = IF Len(seqs) = 0 THEN <<>> ELSE g[Len(seqs)]
  BY FlattenSeqIs
<1>2. Len(seqs) \in Nat
  BY LenProperties
<1>3. Len(seqs) # 0 => Len(seqs) \in 1..Len(seqs)
  BY <1>2
<1> QED BY <1>1, <1>3, EmptySeq

\* It has what its parts have.
LEMMA FlattenSeqRange ==
  ASSUME NEW S, NEW seqs \in Seq(Seq(S))
  PROVE  ToSet(FlattenSeq(seqs)) = UNION {ToSet(seqs[i]) : i \in 1..Len(seqs)}
<1> DEFINE n == Len(seqs)
           U(i) == UNION {ToSet(seqs[j]) : j \in 1..i}
<1>1. n \in Nat /\ seqs \in [1..n -> Seq(S)]
  BY LenProperties
<1>2. PICK g \in [1..n -> Seq(S)] :
          /\ \A i \in 1..n : g[i] = IF i = 1 THEN seqs[i] ELSE g[i - 1] \o seqs[i]
          /\ FlattenSeq(seqs) = IF n = 0 THEN <<>> ELSE g[n]
  BY FlattenSeqIs
<1>3. CASE n = 0
  BY <1>2, <1>3 DEF ToSet
<1>4. CASE n # 0
  <2> DEFINE R == {i \in 1..n : ToSet(g[i]) = U(i)}
  <2>1. 1 \in R
    <3>1. 1..1 = {1} /\ 1 \in 1..n
      BY <1>1, <1>4
    <3>2. g[1] = seqs[1]
      BY <3>1, <1>2
    <3>3. U(1) = ToSet(seqs[1])
      BY <3>1
    <3> QED BY <3>1, <3>2, <3>3
  <2>2. \A i \in 1..(n - 1) : i \in R => i + 1 \in R
    <3> SUFFICES ASSUME NEW i \in 1..(n - 1), i \in R PROVE i + 1 \in R
      OBVIOUS
    <3>1. i + 1 \in 1..n /\ i \in 1..n /\ (i + 1) - 1 = i /\ i + 1 # 1
      BY <1>1
    <3>2. g[i + 1] = g[i] \o seqs[i + 1]
      BY <3>1, <1>2
    <3>3. g[i] \in Seq(S) /\ seqs[i + 1] \in Seq(S)
      BY <3>1, <1>1, <1>2
    <3>4. ToSet(g[i + 1]) = ToSet(g[i]) \cup ToSet(seqs[i + 1])
      <4> DEFINE s == g[i]
                 t == seqs[i + 1]
      <4>1. Range(s \o t) = Range(s) \cup Range(t)
        <5> HIDE DEF s, t
        <5> QED BY <3>3, RangeConcatenation DEF s, t
      <4> QED BY <4>1, <3>2 DEF ToSet, Range
    <3>5. 1..(i + 1) = 1..i \cup {i + 1}
      <4>1. i \in Int /\ i >= 1
        BY <3>1
      <4> HIDE DEF n, R, U
      <4> QED BY <4>1
    <3>6. U(i + 1) = U(i) \cup ToSet(seqs[i + 1])
      BY <3>5
    <3> QED BY <3>1, <3>4, <3>6
  <2>3. 1..n \subseteq R
    <3>1. 1 \in Int /\ n \in Int
      BY <1>1
    <3> HIDE DEF n, R
    <3> QED BY <3>1, <2>1, <2>2, UpwardInduction
  <2>4. n \in R
    <3>1. n \in 1..n
      BY <1>1, <1>4
    <3> QED BY <3>1, <2>3
  <2> QED BY <2>4, <1>2, <1>4
<1> QED BY <1>3, <1>4

\* An operator of our own for \o: the provers use its associativity by name.
Cat(s, t) == s \o t

\* It does not matter which two are put together first.
LEMMA CatAssociative ==
  \A S : \A r, s, t \in Seq(S) : Cat(Cat(r, s), t) = Cat(r, Cat(s, t))
<1> TAKE S
<1> TAKE r, s, t \in Seq(S)
<1> QED BY ConcatAssociative DEF Cat

\* One more in front.
LEMMA FlattenSeqCons ==
  ASSUME NEW S, NEW seqs \in Seq(Seq(S)), NEW tail \in Seq(Seq(S)),
         Len(seqs) = Len(tail) + 1, \A i \in 1..Len(tail) : tail[i] = seqs[i + 1]
  PROVE  FlattenSeq(seqs) = seqs[1] \o FlattenSeq(tail)
<1> DEFINE n == Len(tail)
           a == seqs[1]
<1>1. n \in Nat /\ tail \in [1..n -> Seq(S)] /\ seqs \in [1..(n + 1) -> Seq(S)] /\ Len(seqs) = n + 1
  BY LenProperties
<1>2. a \in Seq(S)
  BY <1>1
<1>3. PICK g \in [1..(n + 1) -> Seq(S)] :
          /\ \A i \in 1..(n + 1) : g[i] = IF i = 1 THEN seqs[i] ELSE g[i - 1] \o seqs[i]
          /\ FlattenSeq(seqs) = g[n + 1]
  <2>1. Len(seqs) = n + 1 /\ Len(seqs) # 0
    BY <1>1
  <2> HIDE DEF n
  <2> QED BY <2>1, FlattenSeqIs
<1>4. PICK h \in [1..n -> Seq(S)] :
          /\ \A i \in 1..n : h[i] = IF i = 1 THEN tail[i] ELSE h[i - 1] \o tail[i]
          /\ FlattenSeq(tail) = IF n = 0 THEN <<>> ELSE h[n]
  BY FlattenSeqIs
<1>5. g[1] = a
  BY <1>1, <1>3
<1>6. CASE n = 0
  BY <1>2, <1>3, <1>4, <1>5, <1>6, ConcatEmptySeq
<1>7. CASE n # 0
  <2> DEFINE R == {i \in 1..n : g[i + 1] = a \o h[i]}
  <2>1. \A i \in 1..n : g[i + 1] = g[i] \o tail[i]
    <3> TAKE i \in 1..n
    <3>1. i + 1 \in 1..(n + 1) /\ i + 1 # 1 /\ (i + 1) - 1 = i /\ seqs[i + 1] = tail[i]
      BY <1>1
    <3> QED BY <3>1, <1>3
  <2>2. 1 \in R
    <3>1. 1 \in 1..n
      BY <1>1, <1>7
    <3> QED BY <3>1, <2>1, <1>4, <1>5
  <2>3. \A i \in 1..(n - 1) : i \in R => i + 1 \in R
    <3> SUFFICES ASSUME NEW i \in 1..(n - 1), i \in R PROVE i + 1 \in R
      OBVIOUS
    <3>1. i + 1 \in 1..n /\ i \in 1..n /\ (i + 1) - 1 = i /\ i + 1 # 1
      BY <1>1
    <3>2. h[i + 1] = h[i] \o tail[i + 1]
      BY <3>1, <1>4
    <3>3. g[(i + 1) + 1] = g[i + 1] \o tail[i + 1]
      BY <3>1, <2>1
    <3>4. h[i] \in Seq(S) /\ tail[i + 1] \in Seq(S)
      BY <3>1, <1>1
    <3>5. g[i + 1] \o tail[i + 1] = a \o (h[i] \o tail[i + 1])
      <4>1. Cat(Cat(a, h[i]), tail[i + 1]) = Cat(a, Cat(h[i], tail[i + 1]))
        <5> HIDE DEF a
        <5> QED BY <3>4, <1>2, CatAssociative
      <4> QED BY <4>1 DEF Cat
    <3> QED BY <3>1, <3>2, <3>3, <3>5
  <2>4. 1..n \subseteq R
    <3>1. 1 \in Int /\ n \in Int
      BY <1>1
    <3> HIDE DEF n, R
    <3> QED BY <3>1, <2>2, <2>3, UpwardInduction
  <2>5. n \in R
    <3>1. n \in 1..n
      BY <1>1, <1>7
    <3> QED BY <3>1, <2>4
  <2> QED BY <2>5, <1>1, <1>3, <1>4, <1>7
<1> QED BY <1>6, <1>7

-----------------------------------------------------------------------------
(* Sequences of sequences, part by part                                    *)

\* Two sequences put together have the elements of both.
LEMMA ConcatRange ==
  ASSUME NEW S, NEW s \in Seq(S), NEW t \in Seq(S)
  PROVE  s \o t \in Seq(S) /\ ToSet(s \o t) = ToSet(s) \cup ToSet(t)
<1>1. s \o t \in Seq(S)
  BY ConcatProperties
<1>2. Range(s \o t) = Range(s) \cup Range(t)
  BY RangeConcatenation
<1> QED BY <1>1, <1>2 DEF Range, ToSet

\* A sequence of sequences given part by part.
LEMMA PartsAre ==
  ASSUME NEW S, NEW n \in Nat, NEW parts, DOMAIN parts = 1..n, parts = [i \in 1..n |-> parts[i]],
         \A i \in 1..n : parts[i] \in S
  PROVE  parts \in Seq(S) /\ Len(parts) = n
<1>1. parts \in [1..n -> S]
  OBVIOUS
<1>2. parts \in Seq(S)
  BY <1>1, SeqDef
<1> QED BY <1>1, <1>2, LenProperties

\* The sequence of the last ones from place i on.
From(seqs, n, i) == [j \in 1..(n - i + 1) |-> seqs[i + j - 1]]

\* The first of them, and then the rest.
Unfolds(seqs, n) ==
    \A i \in 1..n : FlattenSeq(From(seqs, n, i)) = seqs[i] \o FlattenSeq(From(seqs, n, i + 1))

\* Flattening goes from each place to the next, down to nothing.
LEMMA FlattenFrom ==
  ASSUME NEW S, NEW n \in Nat, NEW seqs \in [1..n -> Seq(S)]
  PROVE  /\ FlattenSeq(From(seqs, n, n + 1)) = <<>>
         /\ Unfolds(seqs, n)
         /\ \A i \in 1..(n + 1) : FlattenSeq(From(seqs, n, i)) \in Seq(S)
         /\ From(seqs, n, 1) = seqs
<1>1. ASSUME NEW i \in 1..(n + 1)
      PROVE  From(seqs, n, i) \in Seq(Seq(S)) /\ Len(From(seqs, n, i)) = n - i + 1
  <2> DEFINE U == Seq(S)
             parts == From(seqs, n, i)
             m == n - i + 1
  <2>1. m \in Nat /\ DOMAIN parts = 1..m /\ parts = [j \in 1..m |-> parts[j]]
    BY DEF From
  <2>2. \A j \in 1..m : parts[j] \in U
    BY DEF From
  <2> HIDE DEF U, m, parts
  <2>3. parts \in Seq(U) /\ Len(parts) = m
    BY <2>1, <2>2, PartsAre
  <2> QED BY <2>3 DEF U, m, parts
<1>2. FlattenSeq(From(seqs, n, n + 1)) = <<>>
  <2>1. n + 1 \in 1..(n + 1) /\ n - (n + 1) + 1 = 0
    OBVIOUS
  <2>2. Len(From(seqs, n, n + 1)) = 0 /\ From(seqs, n, n + 1) \in Seq(Seq(S))
    BY <1>1, <2>1
  <2>3. PICK g : FlattenSeq(From(seqs, n, n + 1)) = IF Len(From(seqs, n, n + 1)) = 0 THEN <<>> ELSE g[Len(From(seqs, n, n + 1))]
    BY <2>2, FlattenSeqIs
  <2> QED BY <2>2, <2>3
<1>3. ASSUME NEW i \in 1..n
      PROVE  FlattenSeq(From(seqs, n, i)) = seqs[i] \o FlattenSeq(From(seqs, n, i + 1))
  <2> DEFINE s == From(seqs, n, i)
             t == From(seqs, n, i + 1)
  <2>1. i \in 1..(n + 1) /\ i + 1 \in 1..(n + 1)
    OBVIOUS
  <2>2. s \in Seq(Seq(S)) /\ Len(s) = n - i + 1
    BY <1>1, <2>1
  <2>3. t \in Seq(Seq(S)) /\ Len(t) = n - i
    <3>1. t \in Seq(Seq(S)) /\ Len(t) = n - (i + 1) + 1
      <4> DEFINE k == i + 1
      <4>1. k \in 1..(n + 1)
        BY <2>1
      <4> HIDE DEF k
      <4>2. From(seqs, n, k) \in Seq(Seq(S)) /\ Len(From(seqs, n, k)) = n - k + 1
        BY <1>1, <4>1
      <4> QED BY <4>2 DEF k
    <3>2. n - (i + 1) + 1 = n - i
      OBVIOUS
    <3> QED BY <3>1, <3>2
  <2>4. s[1] = seqs[i]
    BY DEF From
  <2>5. \A j \in 1..(n - i) : t[j] = s[j + 1]
    BY DEF From
  <2>6. Len(s) = Len(t) + 1 /\ \A j \in 1..Len(t) : t[j] = s[j + 1]
    BY <2>2, <2>3, <2>5
  <2> HIDE DEF s, t
  <2>7. FlattenSeq(s) = s[1] \o FlattenSeq(t)
    BY <2>2, <2>3, <2>6, FlattenSeqCons
  <2> QED BY <2>4, <2>7 DEF s, t
<1>4. \A i \in 1..(n + 1) : FlattenSeq(From(seqs, n, i)) \in Seq(S)
  BY <1>1, FlattenSeqType
<1>5. From(seqs, n, 1) = seqs
  <2>1. n - 1 + 1 = n /\ \A j \in 1..n : 1 + j - 1 = j
    OBVIOUS
  <2> QED BY <2>1 DEF From
<1> QED BY <1>2, <1>3, <1>4, <1>5 DEF Unfolds

-----------------------------------------------------------------------------
(* Choosing from a sequence                                                *)

\* Of the elements of args those with kept[i], in their order.
Chosen(args, kept, n) == FlattenSeq([i \in 1..n |-> IF kept[i] THEN <<args[i]>> ELSE <<>>])

\* Each of the first j of a row of chosen elements comes from one of args; the
\* next one chosen is behind it if it was behind it in args.
Follow(row, args, kept, i) ==
    \A j \in 1..Len(row) : \E p \in 1..i :
        /\ kept[p]
        /\ row[j] = args[p]
        /\ p = i => j = Len(row)
        /\ p < i /\ kept[p + 1] => j < Len(row) /\ row[j + 1] = args[p + 1]

\* What is chosen keeps its order: what was behind one another, and is chosen,
\* still is; and all that is chosen is there.
LEMMA NeighboursStay ==
  ASSUME NEW A, NEW n \in Nat, NEW args \in [1..n -> A], NEW kept
  PROVE  /\ Chosen(args, kept, n) \in Seq(A)
         /\ Follow(Chosen(args, kept, n), args, kept, n)
         /\ \A p \in 1..n : kept[p] => args[p] \in ToSet(Chosen(args, kept, n))
<1> DEFINE parts == [i \in 1..n |-> IF kept[i] THEN <<args[i]>> ELSE <<>>]
           U == Seq(A)
<1>1. \A i \in 1..n : parts[i] \in U
  <2> SUFFICES ASSUME NEW i \in 1..n PROVE parts[i] \in U
    OBVIOUS
  <2>1. <<args[i]>> \in Seq(A) /\ <<>> \in Seq(A)
    BY EmptySeq
  <2> QED BY <2>1
<1>2. parts \in Seq(U) /\ Len(parts) = n
  <2>1. DOMAIN parts = 1..n /\ parts = [i \in 1..n |-> parts[i]]
    OBVIOUS
  <2> HIDE DEF parts, U
  <2> QED BY <1>1, <2>1, PartsAre
<1>3. \A i \in 1..n : parts[i] = IF kept[i] THEN <<args[i]>> ELSE <<>>
  OBVIOUS
<1>4. Chosen(args, kept, n) = FlattenSeq(parts)
  BY DEF Chosen
<1> HIDE DEF parts
<1>5. PICK g \in [1..n -> Seq(A)] :
        /\ \A i \in 1..n : g[i] = IF i = 1 THEN parts[i] ELSE g[i - 1] \o parts[i]
        /\ FlattenSeq(parts) = IF n = 0 THEN <<>> ELSE g[n]
  <2>1. parts \in Seq(Seq(A)) /\ Len(parts) = n
    BY <1>2
  <2>2. PICK g \in [1..Len(parts) -> Seq(A)] :
          /\ \A i \in 1..Len(parts) : g[i] = IF i = 1 THEN parts[i] ELSE g[i - 1] \o parts[i]
          /\ FlattenSeq(parts) = IF Len(parts) = 0 THEN <<>> ELSE g[Len(parts)]
    BY <2>1, FlattenSeqIs
  <2>3. g \in [1..n -> Seq(A)]
    BY <2>1, <2>2
  <2>4. \A i \in 1..n : g[i] = IF i = 1 THEN parts[i] ELSE g[i - 1] \o parts[i]
    BY <2>1, <2>2, Zenon
  <2>5. FlattenSeq(parts) = IF n = 0 THEN <<>> ELSE g[n]
    BY <2>1, <2>2
  <2> QED BY <2>3, <2>4, <2>5
<1>6. FlattenSeq(parts) \in Seq(A)
  BY <1>2, FlattenSeqType
<1>7. \A p \in 1..n : kept[p] => args[p] \in ToSet(FlattenSeq(parts))
  <2> SUFFICES ASSUME NEW p \in 1..n, kept[p] PROVE args[p] \in ToSet(FlattenSeq(parts))
    OBVIOUS
  <2>1. ToSet(FlattenSeq(parts)) = UNION {ToSet(parts[i]) : i \in 1..n}
    BY <1>2, FlattenSeqRange
  <2>2. args[p] \in ToSet(parts[p])
    <3>1. parts[p] = <<args[p]>>
      BY <1>3
    <3> QED BY <3>1 DEF ToSet
  <2> QED BY <2>1, <2>2
<1>8. CASE n = 0
  <2>1. FlattenSeq(parts) = <<>>
    BY <1>5, <1>8
  <2> QED BY <1>4, <1>6, <1>7, <2>1 DEF Follow
<1>9. CASE n # 0
  <2> DEFINE R == {i \in 1..n : Follow(g[i], args, kept, i)}
  <2>1. 1 \in R
    <3>0. 1 \in 1..n
      BY <1>9
    <3>1. 1 \in 1..n /\ g[1] = parts[1]
      <4>1. g[1] = IF 1 = 1 THEN parts[1] ELSE g[1 - 1] \o parts[1]
        BY <3>0, <1>5
      <4> QED BY <3>0, <4>1
    <3>2. CASE kept[1]
      <4>1. g[1] = <<args[1]>>
        BY <1>3, <3>1, <3>2
      <4>2. Len(g[1]) = 1 /\ g[1][1] = args[1]
        BY <4>1
      <4>3. 1 \in 1..1 /\ ~(1 < 1)
        OBVIOUS
      <4>4. \A j \in 1..1 : j = 1
        OBVIOUS
      <4>5. Follow(g[1], args, kept, 1)
        BY <3>2, <4>2, <4>3, <4>4 DEF Follow
      <4> QED BY <3>1, <4>5
    <3>3. CASE ~kept[1]
      <4>1. g[1] = <<>>
        BY <1>3, <3>1, <3>3
      <4> QED BY <3>1, <4>1 DEF Follow
    <3> QED BY <3>2, <3>3
  <2>2. ASSUME NEW i \in 1..(n - 1), i \in R PROVE i + 1 \in R
    <3>1. i \in 1..n /\ i + 1 \in 1..n /\ i + 1 # 1 /\ (i + 1) - 1 = i
      OBVIOUS
    <3>2. g[i + 1] = g[i] \o parts[i + 1]
      BY <1>5, <3>1
    <3>3. Follow(g[i], args, kept, i)
      BY <2>2
    <3> DEFINE row == g[i]
               longer == g[i + 1]
    <3>4. row \in Seq(A) /\ Len(row) \in Nat
      BY <3>1, <1>5, LenProperties
    <3>5. CASE ~kept[i + 1]
      <4>1. longer = row
        <5>1. parts[i + 1] = <<>>
          BY <1>3, <3>1, <3>5
        <5> QED BY <3>2, <3>4, <5>1, ConcatEmptySeq
      <4> HIDE DEF row, longer
      <4>2. Follow(longer, args, kept, i + 1)
        BY <3>3, <3>5, <4>1 DEF Follow, row
      <4> QED BY <3>1, <4>2 DEF longer
    <3>6. CASE kept[i + 1]
      <4> DEFINE a == args[i + 1]
      <4>1. longer = row \o <<a>>
        BY <1>3, <3>1, <3>2, <3>6
      <4> HIDE DEF row, longer
      <4>2. /\ Len(longer) = Len(row) + 1
            /\ \A j \in 1..Len(row) : longer[j] = row[j]
            /\ longer[Len(row) + 1] = a
        <5>1. a \in A
          BY <3>1
        <5> HIDE DEF a
        <5> QED BY <3>4, <4>1, <5>1
      <4>3. ASSUME NEW j \in 1..Len(longer)
            PROVE  \E p \in 1..(i + 1) :
                      /\ kept[p]
                      /\ longer[j] = args[p]
                      /\ p = i + 1 => j = Len(longer)
                      /\ p < i + 1 /\ kept[p + 1] => j < Len(longer) /\ longer[j + 1] = args[p + 1]
        <5>1. CASE j = Len(longer)
          <6>1. longer[j] = args[i + 1]
            BY <4>2, <5>1
          <6>2. i + 1 \in 1..(i + 1) /\ ~(i + 1 < i + 1)
            OBVIOUS
          <6> QED BY <3>6, <5>1, <6>1, <6>2
        <5>2. CASE j # Len(longer)
          <6>1. j \in 1..Len(row)
            <7>1. Len(longer) = Len(row) + 1 /\ Len(row) \in Nat
              BY <3>4, <4>2 DEF row
            <7> QED BY <7>1, <5>2
          <6>2. PICK p \in 1..i : /\ kept[p]
                                  /\ row[j] = args[p]
                                  /\ p = i => j = Len(row)
                                  /\ p < i /\ kept[p + 1] => j < Len(row) /\ row[j + 1] = args[p + 1]
            BY <3>3, <6>1 DEF Follow, row
          <6>3. p \in 1..(i + 1) /\ p # i + 1 /\ longer[j] = args[p]
            <7>1. longer[j] = row[j] /\ row[j] = args[p]
              BY <4>2, <6>1, <6>2
            <7>2. p \in 1..(i + 1) /\ p # i + 1
              OBVIOUS
            <7> QED BY <7>1, <7>2
          <6>4. ASSUME kept[p + 1] PROVE j < Len(longer) /\ longer[j + 1] = args[p + 1]
            <7>1. CASE p = i
              BY <3>4, <4>2, <6>1, <6>2, <7>1
            <7>2. CASE p # i
              <8>1. j < Len(row) /\ row[j + 1] = args[p + 1]
                BY <6>2, <6>4, <7>2
              <8>2. j + 1 \in 1..Len(row)
                BY <3>4, <6>1, <8>1
              <8> QED BY <3>4, <4>2, <8>1, <8>2
            <7> QED BY <7>1, <7>2
          <6> QED BY <6>2, <6>3, <6>4
        <5> QED BY <5>1, <5>2
      <4>4. Follow(longer, args, kept, i + 1)
        BY <4>3 DEF Follow
      <4> QED BY <3>1, <4>4 DEF longer
    <3> QED BY <3>5, <3>6
  <2>3. n \in R
    <3>1. 1 \in Int /\ n \in Int /\ n \in 1..n
      BY <1>9
    <3>2. \A i \in 1..(n - 1) : i \in R => i + 1 \in R
      BY <2>2
    <3> HIDE DEF R
    <3>3. 1..n \subseteq R
      BY <2>1, <3>1, <3>2, UpwardInduction
    <3> QED BY <3>1, <3>3
  <2> QED BY <1>4, <1>5, <1>6, <1>7, <1>9, <2>3
<1> QED BY <1>8, <1>9
==============================================================================
