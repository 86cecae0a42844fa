----------------------------- MODULE DataFacts -----------------------------
(* Facts about numbers, sequences and sums that the proofs of several       *)
(* modules need: induction, and what the recursive functions inside         *)
(* FlattenSeq and MapThenFoldSet compute for sequences and finite sets of   *)
(* any size.  Both choose their function, so each fact first shows that     *)
(* there is one, and then that all of them agree.                           *)
EXTENDS Integers, Sequences, SequencesExt, FiniteSetsExt,
        FiniteSetTheorems, SequenceTheorems, TLAPS

\* Induction, from the theorems on finite sets: if n is not in S, successor maps
\* the members of S up to n one-to-one into those of them that are not 0.
LEMMA Induction ==
    ASSUME NEW S, S \subseteq Nat, 0 \in S, \A n \in S : n + 1 \in S
    PROVE  S = Nat
<1> SUFFICES ASSUME NEW n \in Nat, n \notin S PROVE FALSE
  OBVIOUS
<1> DEFINE A == {k \in S : k <= n}
           B == A \ {0}
           f == [k \in A |-> k + 1]
<1>1. IsFiniteSet(A)
  <2>1. A \in SUBSET Nat /\ \A k \in A : k <= n
    OBVIOUS
  <2>2. QED
    BY <2>1, FS_BoundedSetOfNaturals
<1>2. IsFiniteSet(B) /\ Cardinality(B) = Cardinality(A) - 1
  <2>1. 0 \in A
    OBVIOUS
  <2> HIDE DEF A
  <2>2. QED
    BY <1>1, <2>1, FS_RemoveElement
<1>3. f \in [A -> B]
  <2>1. \A k \in A : k + 1 \in B
    OBVIOUS
  <2> HIDE DEF A, B
  <2>2. QED
    BY <2>1
<1>4. Cardinality(B) < Cardinality(A)
  <2> HIDE DEF A, B
  <2>1. Cardinality(A) \in Nat
    BY <1>1, FS_CardinalityType
  <2>2. QED
    BY <1>2, <2>1
<1>5. \E x, y \in A : x # y /\ f[x] = f[y]
  <2> HIDE DEF A, B, f
  <2>1. QED
    BY <1>1, <1>2, <1>3, <1>4, FS_PigeonHole
<1>6. QED
  BY <1>5

\* A set of naturals has a least element.
LEMMA Least ==
    ASSUME NEW S, S \subseteq Nat, S # {}
    PROVE  \E i \in S : \A j \in S : i <= j
<1>1. SUFFICES ASSUME ~\E i \in S : \A j \in S : i <= j
               PROVE  FALSE
  OBVIOUS
<1> DEFINE T == {n \in Nat : \A j \in S : n <= j}
<1>2. T \subseteq Nat /\ 0 \in T
  OBVIOUS
<1>3. ASSUME NEW n \in T
      PROVE  n + 1 \in T
  <2>1. n \notin S
    BY <1>1, <1>3
  <2>2. \A j \in S : n + 1 <= j
    BY <1>3, <2>1
  <2>3. QED
    BY <1>3, <2>2
<1>4. T = Nat
  <2> HIDE DEF T
  <2>1. QED
    BY <1>2, <1>3, Induction
<1>5. PICK j \in S : TRUE
  OBVIOUS
<1>6. j + 1 \in T
  <2>1. j + 1 \in Nat
    OBVIOUS
  <2> HIDE DEF T
  <2>2. QED
    BY <1>4, <2>1
<1>7. QED
  BY <1>5, <1>6

\* A bounded set of numbers has a greatest member.
LEMMA Greatest ==
    ASSUME NEW n \in Nat, NEW S, S \subseteq 0 .. n, S # {}
    PROVE  \E i \in S : \A j \in S : j <= i
<1> DEFINE T == {n - i : i \in S}
<1>1. T \subseteq Nat /\ T # {}
  <2>1. \A i \in S : n - i \in Nat
    OBVIOUS
  <2>2. PICK i \in S : TRUE
    OBVIOUS
  <2>3. n - i \in T
    OBVIOUS
  <2>4. QED
    BY <2>1, <2>3
<1>2. PICK k \in T : \A l \in T : k <= l
  <2> HIDE DEF T
  <2>1. QED
    BY <1>1, Least
<1>3. PICK i \in S : k = n - i
  BY <1>2
<1>4. ASSUME NEW j \in S PROVE j <= i
  <2>1. n - j \in T
    OBVIOUS
  <2>2. n - i <= n - j
    BY <1>2, <1>3, <2>1
  <2>3. i \in Nat /\ j \in Nat
    OBVIOUS
  <2>4. QED
    BY <2>2, <2>3
<1>5. QED
  BY <1>4

-----------------------------------------------------------------------------
(* Sets that are listed, and sequences.                                     *)

\* A set whose elements are all one has at most one element.
LEMMA AtMostOne ==
    ASSUME NEW S, \A x, y \in S : x = y
    PROVE  IsFiniteSet(S) /\ Cardinality(S) = IF S = {} THEN 0 ELSE 1
<1>1. CASE S = {}
  BY <1>1, FS_EmptySet
<1>2. CASE S # {}
  <2>1. PICK x \in S : TRUE
    BY <1>2
  <2>2. S = {x}
    BY <2>1
  <2>3. QED
    BY <1>2, <2>2, FS_Singleton
<1>3. QED
  BY <1>1, <1>2

\* An order of a set holds every element of it once.
LEMMA ListedOnce ==
    ASSUME NEW S, IsFiniteSet(S), NEW s,
           s \in [1 .. Cardinality(S) -> S],
           \A o \in S : \E i \in DOMAIN s : s[i] = o
    PROVE  /\ Cardinality(S) \in Nat /\ s \in [1 .. Cardinality(S) -> S]
           /\ DOMAIN s = 1 .. Cardinality(S)
           /\ \A o \in S : \E i \in DOMAIN s : s[i] = o
           /\ \A i, j \in DOMAIN s : i # j => s[i] # s[j]
<1> DEFINE k == Cardinality(S)
<1>1. k \in Nat
  BY FS_CardinalityType
<1>2. s \in [1 .. k -> S] /\ \A o \in S : \E i \in DOMAIN s : s[i] = o
  BY DEF k
<1> HIDE DEF k
<1>3. DOMAIN s = 1 .. k /\ \A o \in S : \E i \in 1 .. k : s[i] = o
  BY <1>2
<1>4. s \in Surjection(1 .. k, S)
  BY <1>2, <1>3 DEF Surjection
<1>5. IsFiniteSet(1 .. k) /\ Cardinality(1 .. k) = k
  <2>1. k \in Int /\ 1 \in Int /\ k >= 0
    BY <1>1
  <2>2. IsFiniteSet(1 .. k) /\ Cardinality(1 .. k) = IF 1 > k THEN 0 ELSE k - 1 + 1
    BY <2>1, FS_Interval
  <2>3. QED
    BY <2>1, <2>2
<1>6. s \in Injection(1 .. k, S)
  BY <1>4, <1>5, FS_SurjSameCardinalityImpliesInj DEF k
<1>7. \A i, j \in 1 .. k : s[i] = s[j] => i = j
  BY <1>3, <1>6 DEF Injection, IsInjective
<1>8. \A i, j \in DOMAIN s : i # j => s[i] # s[j]
  BY <1>3, <1>7
<1>9. k = Cardinality(S)
  BY DEF k
<1>10. QED
  BY <1>1, <1>2, <1>3, <1>8, <1>9

\* A function on 1 .. k is a sequence.
LEMMA BuiltSeq ==
    ASSUME NEW S, NEW k \in Nat, NEW f \in [1 .. k -> S]
    PROVE  f \in Seq(S) /\ Len(f) = k /\ DOMAIN f = 1 .. k
OBVIOUS

-----------------------------------------------------------------------------
(* FlattenSeq.                                                              *)

\* f[i] are the first i of the sequences in s, one after the other.
Flattens(f, s, n) ==
    f = [i \in 1 .. n |-> IF i = 1 THEN s[i] ELSE f[i - 1] \o s[i]]

\* The recursion of FlattenSeq has a solution, for any number of sequences.
LEMMA FlattenExists ==
    ASSUME NEW s, NEW n \in Nat
    PROVE  \E f : Flattens(f, s, n)
<1> DEFINE S == {m \in Nat : \E f : Flattens(f, s, m)}
<1>1. 0 \in S
  <2>1. Flattens([i \in 1 .. 0 |-> 0], s, 0)
    BY DEF Flattens
  <2>2. QED
    BY <2>1
<1>2. ASSUME NEW m \in S PROVE m + 1 \in S
  <2>1. PICK f : Flattens(f, s, m)
    OBVIOUS
  <2> DEFINE g == [i \in 1 .. m + 1 |->
                     IF i = m + 1 THEN IF i = 1 THEN s[i] ELSE f[i - 1] \o s[i] ELSE f[i]]
  <2>2. ASSUME NEW i \in 1 .. m + 1
        PROVE  g[i] = IF i = 1 THEN s[i] ELSE g[i - 1] \o s[i]
    <3>1. CASE i = m + 1
      BY <3>1
    <3>2. CASE i # m + 1
      <4>1. i \in 1 .. m /\ (i # 1 => i - 1 \in 1 .. m)
        BY <3>2
      <4>2. f[i] = IF i = 1 THEN s[i] ELSE f[i - 1] \o s[i]
        BY <2>1, <4>1 DEF Flattens
      <4>3. QED
        BY <3>2, <4>1, <4>2
    <3>3. QED
      BY <3>1, <3>2
  <2>3. g = [i \in 1 .. m + 1 |-> IF i = 1 THEN s[i] ELSE g[i - 1] \o s[i]]
    BY <2>2
  <2>4. \E h : Flattens(h, s, m + 1)
    <3> HIDE DEF g
    <3>1. QED
      BY <2>3 DEF Flattens
  <2>5. QED
    BY <2>4
<1>3. S = Nat
  <2>1. S \subseteq Nat
    OBVIOUS
  <2> HIDE DEF S
  <2>2. QED
    BY <1>1, <1>2, <2>1, Induction
<1>4. QED
  BY <1>3

\* Solutions agree as far as their sequences do.
LEMMA FlattenUnique ==
    ASSUME NEW s, NEW t, NEW n \in Nat, NEW m \in Nat, n <= m,
           NEW f, Flattens(f, s, n), NEW g, Flattens(g, t, m),
           \A i \in 1 .. n : s[i] = t[i]
    PROVE  \A i \in 1 .. n : f[i] = g[i]
<1> DEFINE S == {i \in Nat : i \in 1 .. n => f[i] = g[i]}
<1>1. 0 \in S
  OBVIOUS
<1>2. ASSUME NEW i \in S PROVE i + 1 \in S
  <2>1. SUFFICES ASSUME i + 1 \in 1 .. n PROVE f[i + 1] = g[i + 1]
    OBVIOUS
  <2> DEFINE j == i + 1
  <2>2. j \in 1 .. m /\ j \in 1 .. n /\ j - 1 = i /\ i \in Nat
    BY <2>1
  <2>3. i # 0 => f[i] = g[i]
    BY <2>1
  <2> HIDE DEF j
  <2>4. f[j] = IF j = 1 THEN s[j] ELSE f[j - 1] \o s[j]
    BY <2>2 DEF Flattens
  <2>5. g[j] = IF j = 1 THEN t[j] ELSE g[j - 1] \o t[j]
    BY <2>2 DEF Flattens
  <2>6. f[j] = g[j]
    BY <2>2, <2>3, <2>4, <2>5
  <2>7. QED
    BY <2>6 DEF j
<1>3. S = Nat
  <2>1. S \subseteq Nat
    OBVIOUS
  <2> HIDE DEF S
  <2>2. QED
    BY <1>1, <1>2, <2>1, Induction
<1>4. QED
  BY <1>3

\* What FlattenSeq computes is the last member of the solution.
LEMMA FlattenIs ==
    ASSUME NEW s, Len(s) \in Nat \ {0}
    PROVE  \E f : Flattens(f, s, Len(s)) /\ FlattenSeq(s) = f[Len(s)]
<1> DEFINE F == CHOOSE f : f = [i \in 1 .. Len(s) |-> IF i = 1 THEN s[i] ELSE f[i - 1] \o s[i]]
<1>1. F = [i \in 1 .. Len(s) |-> IF i = 1 THEN s[i] ELSE F[i - 1] \o s[i]]
  <2>1. \E f : f = [i \in 1 .. Len(s) |-> IF i = 1 THEN s[i] ELSE f[i - 1] \o s[i]]
    BY FlattenExists DEF Flattens
  <2>2. QED
    BY <2>1
<1>2. FlattenSeq(s) = F[Len(s)]
  BY DEF FlattenSeq
<1> HIDE DEF F
<1>3. QED
  BY <1>1, <1>2 DEF Flattens

\* A sequence more is appended to the flat one.
LEMMA FlattenAppend ==
    ASSUME NEW T, NEW s \in Seq(Seq(T)), NEW x \in Seq(T)
    PROVE  FlattenSeq(Append(s, x)) = FlattenSeq(s) \o x
<1> DEFINE n == Len(s)
           t == Append(s, x)
<1>1. n \in Nat /\ Len(t) = n + 1 /\ t[n + 1] = x /\ \A i \in 1 .. n : s[i] = t[i]
  OBVIOUS
<1> HIDE DEF n, t
<1>2. PICK g : Flattens(g, t, n + 1) /\ FlattenSeq(t) = g[n + 1]
  BY <1>1, FlattenIs
<1>3. g[n + 1] = IF n + 1 = 1 THEN t[n + 1] ELSE g[n] \o t[n + 1]
  <2>1. \A j \in 1 .. n + 1 : g[j] = IF j = 1 THEN t[j] ELSE g[j - 1] \o t[j]
    BY <1>2 DEF Flattens
  <2>2. n + 1 \in 1 .. n + 1 /\ (n + 1) - 1 = n
    BY <1>1
  <2>3. QED
    BY <2>1, <2>2
<1>4. CASE n = 0
  <2>1. s = <<>> /\ FlattenSeq(s) = s
    BY <1>4 DEF FlattenSeq, n
  <2>2. FlattenSeq(t) = x
    BY <1>1, <1>2, <1>3, <1>4
  <2>3. QED
    BY <2>1, <2>2 DEF t
<1>5. CASE n # 0
  <2>1. PICK f : Flattens(f, s, n) /\ FlattenSeq(s) = f[n]
    BY <1>1, <1>5, FlattenIs DEF n
  <2>2. f[n] = g[n]
    BY <1>1, <1>2, <1>5, <2>1, FlattenUnique
  <2>3. FlattenSeq(t) = FlattenSeq(s) \o x
    BY <1>1, <1>2, <1>3, <1>5, <2>1, <2>2
  <2>4. QED
    BY <2>3 DEF t
<1>6. QED
  BY <1>4, <1>5

\* No sequences, an empty one.
LEMMA FlattenEmpty == FlattenSeq(<<>>) = <<>>
BY DEF FlattenSeq
-----------------------------------------------------------------------------
(* Sums.                                                                    *)

Picked(S) == CHOOSE x \in S : TRUE

\* it[s] is the sum of f over s, taken in the order of Picked, for every s of D.
SumsIn(it, f, D) ==
    it = [s \in D |-> IF s = {} THEN 0 ELSE f[Picked(s)] + it[s \ {Picked(s)}]]

Sums(it, f, S) == SumsIn(it, f, SUBSET S)

\* There is such a sum, for any finite set.
LEMMA SumExists ==
    ASSUME NEW S, IsFiniteSet(S), NEW f
    PROVE  \E it : Sums(it, f, S)
<1> DEFINE A(n) == {s \in SUBSET S : Cardinality(s) <= n}
           N == {n \in Nat : \E it : SumsIn(it, f, A(n))}
<1>1. \A s \in SUBSET S : IsFiniteSet(s) /\ Cardinality(s) \in Nat
                          /\ Cardinality(s) <= Cardinality(S)
  BY FS_Subset, FS_CardinalityType
<1>2. \A n \in Nat : \A s \in A(n + 1) : s # {} => s \ {Picked(s)} \in A(n)
  <2>1. SUFFICES ASSUME NEW n \in Nat, NEW s \in A(n + 1), s # {}
                 PROVE  s \ {Picked(s)} \in A(n)
    OBVIOUS
  <2>2. Picked(s) \in s
    BY <2>1 DEF Picked
  <2>3. Cardinality(s \ {Picked(s)}) = Cardinality(s) - 1
    BY <1>1, <2>1, <2>2, FS_RemoveElement
  <2>4. QED
    BY <1>1, <2>1, <2>3
<1>3. \A s \in A(0) : s = {}
  BY <1>1, FS_EmptySet
<1>4. 0 \in N
  <2>1. SumsIn([s \in A(0) |-> 0], f, A(0))
    BY <1>3 DEF SumsIn
  <2> HIDE DEF A
  <2>2. QED
    BY <2>1
<1>5. ASSUME NEW n \in N PROVE n + 1 \in N
  <2>1. PICK it : SumsIn(it, f, A(n))
    OBVIOUS
  <2> DEFINE next == [s \in A(n + 1) |-> IF s = {} THEN 0
                                        ELSE f[Picked(s)] + it[s \ {Picked(s)}]]
  <2>2. \A s \in A(n) : s \in A(n + 1)
    BY <1>1
  <2>3. \A s \in A(n) : next[s] = it[s]
    <3> HIDE DEF A
    <3>1. QED
      BY <2>1, <2>2 DEF SumsIn
  <2>4. \A s \in A(n + 1) : s # {} => next[s \ {Picked(s)}] = it[s \ {Picked(s)}]
    <3> HIDE DEF A, next
    <3>1. QED
      BY <1>2, <2>3
  <2>5. next = [s \in A(n + 1) |-> IF s = {} THEN 0
                                   ELSE f[Picked(s)] + next[s \ {Picked(s)}]]
    <3> HIDE DEF A
    <3>1. QED
      BY <2>4
  <2>6. SumsIn(next, f, A(n + 1))
    <3> HIDE DEF A, next
    <3>1. QED
      BY <2>5 DEF SumsIn
  <2>7. n \in Nat
    OBVIOUS
  <2> HIDE DEF A, next
  <2>8. QED
    BY <2>6, <2>7
<1>6. N = Nat
  <2>1. N \subseteq Nat
    OBVIOUS
  <2> HIDE DEF N
  <2>2. QED
    BY <1>4, <1>5, <2>1, Induction
<1>7. A(Cardinality(S)) = SUBSET S /\ Cardinality(S) \in Nat
  BY <1>1
<1>8. QED
  <2> HIDE DEF A
  <2>1. \E it : SumsIn(it, f, A(Cardinality(S)))
    BY <1>6, <1>7
  <2>2. \E it : SumsIn(it, f, SUBSET S)
    BY <1>7, <2>1, Zenon
  <2>3. QED
    BY <2>2 DEF Sums

\* Two sums agree wherever both are defined.
LEMMA SumUnique ==
    ASSUME NEW S, NEW T, IsFiniteSet(S), S \subseteq T,
           NEW f, NEW g, \A x \in S : f[x] = g[x],
           NEW it, Sums(it, f, S), NEW other, Sums(other, g, T)
    PROVE  it[S] = other[S]
<1> DEFINE N == {n \in Nat : \A s \in SUBSET S : Cardinality(s) = n => it[s] = other[s]}
<1>1. \A s \in SUBSET S : IsFiniteSet(s) /\ Cardinality(s) \in Nat
  BY FS_Subset, FS_CardinalityType
<1>2. 0 \in N
  <2>1. \A s \in SUBSET S : Cardinality(s) = 0 => s = {}
    BY <1>1, FS_EmptySet
  <2>2. it[{}] = 0 /\ other[{}] = 0
    BY DEF Sums, SumsIn
  <2>3. QED
    BY <2>1, <2>2
<1>3. ASSUME NEW n \in N PROVE n + 1 \in N
  <2>1. SUFFICES ASSUME NEW s \in SUBSET S, Cardinality(s) = n + 1
                 PROVE  it[s] = other[s]
    OBVIOUS
  <2>2. s # {}
    <3>1. n + 1 # 0
      BY <1>3
    <3>2. QED
      BY <2>1, <3>1, FS_EmptySet
  <2> DEFINE x == Picked(s)
  <2>3. x \in s
    BY <2>2 DEF Picked
  <2>4. Cardinality(s \ {x}) = n /\ s \ {x} \in SUBSET S
    <3>1. IsFiniteSet(s) /\ (n + 1) - 1 = n
      BY <1>1, <1>3, <2>1
    <3>2. Cardinality(s \ {x}) = Cardinality(s) - 1
      BY <2>3, <3>1, FS_RemoveElement
    <3>3. QED
      BY <2>1, <3>1, <3>2
  <2>5. it[s \ {x}] = other[s \ {x}]
    BY <2>4
  <2>6. it[s] = f[x] + it[s \ {x}]
    BY <2>2 DEF Sums, SumsIn
  <2>7. other[s] = g[x] + other[s \ {x}]
    BY <2>2 DEF Sums, SumsIn
  <2>8. f[x] = g[x]
    BY <2>3
  <2>9. QED
    BY <2>5, <2>6, <2>7, <2>8
<1>4. N = Nat
  <2>1. N \subseteq Nat
    OBVIOUS
  <2> HIDE DEF N
  <2>2. QED
    BY <1>2, <1>3, <2>1, Induction
<1>5. QED
  BY <1>1, <1>4

\* The sum of f over a finite set.
SumOver(f, S) == (CHOOSE it : Sums(it, f, S))[S]

\* Any solution gives it, of f or of a function that is f on the set.
LEMMA SumIs ==
    ASSUME NEW S, NEW T, IsFiniteSet(T), S \subseteq T,
           NEW f, NEW g, \A x \in S : f[x] = g[x],
           NEW it, Sums(it, g, T)
    PROVE  SumOver(f, S) = it[S]
<1> DEFINE own == CHOOSE o : Sums(o, f, S)
<1>1. IsFiniteSet(S)
  BY FS_Subset
<1>2. Sums(own, f, S)
  BY <1>1, SumExists
<1>3. SumOver(f, S) = own[S]
  BY DEF SumOver
<1> HIDE DEF own
<1>4. own[S] = it[S]
  BY <1>1, <1>2, SumUnique
<1>5. QED
  BY <1>3, <1>4

\* Nothing to add.
LEMMA SumEmpty == \A f : SumOver(f, {}) = 0
<1> SUFFICES ASSUME NEW f PROVE SumOver(f, {}) = 0
  OBVIOUS
<1>1. PICK it : Sums(it, f, {})
  BY SumExists, FS_EmptySet
<1>2. it[{}] = 0
  BY <1>1 DEF Sums, SumsIn
<1>3. SumOver(f, {}) = it[{}]
  BY <1>1, SumIs, FS_EmptySet
<1>4. QED
  BY <1>2, <1>3

\* A sum depends on the function's values in the set alone.
LEMMA SumSame ==
    ASSUME NEW S, IsFiniteSet(S), NEW f, NEW g, \A x \in S : f[x] = g[x]
    PROVE  SumOver(f, S) = SumOver(g, S)
<1>1. PICK it : Sums(it, g, S)
  BY SumExists
<1>2. SumOver(f, S) = it[S] /\ SumOver(g, S) = it[S]
  BY <1>1, SumIs
<1>3. QED
  BY <1>2

\* The one that is picked first, and the rest.
LEMMA SumPicked ==
    ASSUME NEW S, IsFiniteSet(S), S # {}, NEW f
    PROVE  SumOver(f, S) = f[Picked(S)] + SumOver(f, S \ {Picked(S)})
<1>1. PICK it : Sums(it, f, S)
  BY SumExists
<1>2. it[S] = f[Picked(S)] + it[S \ {Picked(S)}]
  BY <1>1 DEF Sums, SumsIn
<1>3. SumOver(f, S) = it[S] /\ SumOver(f, S \ {Picked(S)}) = it[S \ {Picked(S)}]
  BY <1>1, SumIs
<1>4. QED
  BY <1>2, <1>3

\* Any one and the rest: the order does not matter.
LEMMA SumRemove ==
    ASSUME NEW S, IsFiniteSet(S), NEW f, \A x \in S : f[x] \in Int
    PROVE  /\ SumOver(f, S) \in Int
           /\ \A x \in S : SumOver(f, S) = f[x] + SumOver(f, S \ {x})
<1> DEFINE Fine(s) == /\ SumOver(f, s) \in Int
                      /\ \A x \in s : SumOver(f, s) = f[x] + SumOver(f, s \ {x})
           N == {n \in Nat : \A s \in SUBSET S : Cardinality(s) \leq n => Fine(s)}
<1>1. \A s \in SUBSET S : IsFiniteSet(s) /\ Cardinality(s) \in Nat
  BY FS_Subset, FS_CardinalityType
<1>2. 0 \in N
  <2>1. \A s \in SUBSET S : Cardinality(s) <= 0 => s = {}
    BY <1>1, FS_EmptySet
  <2>2. Fine({})
    BY SumEmpty
  <2> HIDE DEF Fine
  <2>3. QED
    BY <2>1, <2>2
<1>3. ASSUME NEW n \in N PROVE n + 1 \in N
  <2>1. n \in Nat /\ n + 1 \in Nat
    OBVIOUS
  <2>2. SUFFICES ASSUME NEW s \in SUBSET S, Cardinality(s) \leq n + 1
                 PROVE  Fine(s)
    BY <2>1
  <2>3. ASSUME NEW t \in SUBSET S, NEW x \in t, Cardinality(t) <= n + 1
        PROVE  t \ {x} \in SUBSET S /\ Cardinality(t \ {x}) <= n
    <3>1. Cardinality(t \ {x}) = Cardinality(t) - 1
      BY <1>1, FS_RemoveElement
    <3>2. QED
      BY <1>1, <2>1, <2>3, <3>1
  <2>4. \A t \in SUBSET S : Cardinality(t) \leq n => Fine(t)
    OBVIOUS
  <2>5. CASE s = {}
    BY <2>5, SumEmpty
  <2>6. CASE s # {}
    <3> DEFINE c == Picked(s)
    <3>1. c \in s /\ c \in S
      BY <2>6 DEF Picked
    <3>2. SumOver(f, s) = f[c] + SumOver(f, s \ {c})
      BY <1>1, <2>6, SumPicked
    <3>3. Fine(s \ {c})
      BY <2>2, <2>3, <2>4, <3>1
    <3> HIDE DEF c
    <3>4. SumOver(f, s) \in Int
      BY <3>1, <3>2, <3>3
    <3>5. ASSUME NEW x \in s
          PROVE  SumOver(f, s) = f[x] + SumOver(f, s \ {x})
      <4>1. CASE x = c
        BY <3>2, <4>1
      <4>2. CASE x # c
        <5>1. Fine(s \ {x})
          BY <2>2, <2>3, <2>4
        <5> DEFINE rest == SumOver(f, (s \ {c}) \ {x})
        <5>2. (s \ {c}) \ {x} = (s \ {x}) \ {c}
          OBVIOUS
        <5>3. SumOver(f, s \ {c}) = f[x] + rest
          BY <3>3, <4>2
        <5>4. SumOver(f, s \ {x}) = f[c] + rest
          BY <3>1, <4>2, <5>1, <5>2
        <5>5. rest \in Int
          <6>1. s \ {c} \in SUBSET S /\ Cardinality(s \ {c}) <= n /\ x \in s \ {c}
            BY <2>2, <2>3, <3>1, <4>2
          <6>2. Cardinality((s \ {c}) \ {x}) <= Cardinality(s \ {c})
            <7>1. Cardinality((s \ {c}) \ {x}) = Cardinality(s \ {c}) - 1
              BY <1>1, <6>1, FS_RemoveElement
            <7>2. QED
              BY <1>1, <6>1, <7>1
          <6>3. (s \ {c}) \ {x} \in SUBSET S /\ Cardinality((s \ {c}) \ {x}) <= n
            BY <1>1, <2>1, <6>1, <6>2
          <6>4. Fine((s \ {c}) \ {x})
            BY <2>4, <6>3
          <6>5. QED
            BY <6>4
        <5>6. f[x] \in Int /\ f[c] \in Int
          BY <3>1
        <5> HIDE DEF rest
        <5>7. QED
          BY <3>2, <5>3, <5>4, <5>5, <5>6
      <4>3. QED
        BY <4>1, <4>2
    <3>6. QED
      BY <3>4, <3>5
  <2>7. QED
    BY <2>5, <2>6
<1>4. N = Nat
  <2>1. N \subseteq Nat
    OBVIOUS
  <2> HIDE DEF N
  <2>2. QED
    BY <1>2, <1>3, <2>1, Induction
<1>5. Cardinality(S) \in N
  BY <1>1, <1>4
<1>6. QED
  BY <1>1, <1>5

\* One more in one place is one more in the sum.
LEMMA SumOneMore ==
    ASSUME NEW S, IsFiniteSet(S), NEW x \in S,
           NEW f, \A y \in S : f[y] \in Int,
           NEW g, g[x] = f[x] + 1, \A y \in S : y # x => g[y] = f[y]
    PROVE  SumOver(g, S) = SumOver(f, S) + 1
<1>1. \A y \in S : g[y] \in Int
  OBVIOUS
<1>2. SumOver(f, S) = f[x] + SumOver(f, S \ {x}) /\ SumOver(g, S) = g[x] + SumOver(g, S \ {x})
  BY <1>1, SumRemove
<1>3. IsFiniteSet(S \ {x})
  BY FS_RemoveElement
<1>4. SumOver(g, S \ {x}) = SumOver(f, S \ {x})
  BY <1>3, SumSame
<1>5. SumOver(f, S \ {x}) \in Int
  BY <1>3, SumRemove
<1>6. QED
  BY <1>2, <1>4, <1>5

\* A sum of zeros.
LEMMA SumZero ==
    ASSUME NEW S, IsFiniteSet(S), NEW f, \A x \in S : f[x] = 0
    PROVE  SumOver(f, S) = 0
<1> DEFINE N == {n \in Nat : \A s \in SUBSET S : Cardinality(s) = n => SumOver(f, s) = 0}
<1>1. \A s \in SUBSET S : IsFiniteSet(s) /\ Cardinality(s) \in Nat
  BY FS_Subset, FS_CardinalityType
<1>2. 0 \in N
  <2>1. \A s \in SUBSET S : Cardinality(s) = 0 => s = {}
    BY <1>1, FS_EmptySet
  <2>2. QED
    BY <2>1, SumEmpty
<1>3. ASSUME NEW n \in N PROVE n + 1 \in N
  <2>1. n \in Nat /\ n + 1 \in Nat /\ (n + 1) - 1 = n /\ n + 1 # 0
    OBVIOUS
  <2>2. SUFFICES ASSUME NEW s \in SUBSET S, Cardinality(s) = n + 1
                 PROVE  SumOver(f, s) = 0
    BY <2>1
  <2>3. PICK x \in s : TRUE
    BY <1>1, <2>1, <2>2, FS_EmptySet
  <2>4. Cardinality(s \ {x}) = n /\ s \ {x} \in SUBSET S
    BY <1>1, <2>1, <2>2, <2>3, FS_RemoveElement
  <2>5. SumOver(f, s \ {x}) = 0
    BY <2>4
  <2>6. SumOver(f, s) = f[x] + SumOver(f, s \ {x})
    BY <1>1, SumRemove
  <2>7. QED
    BY <2>5, <2>6
<1>4. N = Nat
  <2>1. N \subseteq Nat
    OBVIOUS
  <2> HIDE DEF N
  <2>2. QED
    BY <1>2, <1>3, <2>1, Induction
<1>5. QED
  BY <1>1, <1>4
=============================================================================
