----------------------------- MODULE Fundamentals -----------------------------
(***************************************************************************)
(* Facts about numbers, finite sets and graphs that the proofs of several  *)
(* components use.  A graph is a function from its nodes to their sets of  *)
(* successors.                                                             *)
(***************************************************************************)
EXTENDS Integers, SequencesExt, FiniteSetTheorems, WellFoundedInduction, TLAPS

(* Every nonempty set of natural numbers has a least one.                  *)
LEMMA LeastNumber ==
  ASSUME NEW S, S \subseteq Nat, S # {}
  PROVE  \E n \in S : \A m \in S : n <= m
<1>1. PICK n \in S : \A m \in S : ~ (<<m, n>> \in OpToRel(<, Nat))
  BY NatLessThanWellFounded, WFMin
<1>2. \A m \in S : ~ (m < n)
  BY <1>1 DEF OpToRel
<1> QED
  BY <1>2

(* Every nonempty set of subsets of a finite set has a minimal one.        *)
LEMMA MinimalSet ==
  ASSUME NEW V, IsFiniteSet(V), NEW T, T \subseteq SUBSET V, T # {}
  PROVE  \E A \in T : \A B \in T : B \subseteq A => B = A
<1>1. IsWellFoundedOn(StrictSubsetOrdering(V), SUBSET V)
  BY FS_StrictSubsetOrderingWellFounded, FS_FiniteSubsetsOfFinite
<1>2. PICK A \in T : \A B \in T : ~ (<<B, A>> \in StrictSubsetOrdering(V))
  BY <1>1, WFMin
<1>3. ASSUME NEW B \in T, B \subseteq A PROVE B = A
  BY <1>2, <1>3 DEF StrictSubsetOrdering
<1> QED
  BY <1>3

LEMMA FiniteImage ==
  ASSUME NEW S, IsFiniteSet(S), NEW f
  PROVE  IsFiniteSet({f[x] : x \in S})
<1> DEFINE g == [x \in S |-> f[x]]
           T == {f[x] : x \in S}
<1>1. g \in Surjection(S, T)
  BY DEF Surjection
<1> QED
  BY <1>1, FS_Surjection DEF ExistsSurjection

(* A set that holds 0 and goes on from every number to the next.           *)
LEMMA Upto ==
  ASSUME NEW n \in Nat, NEW G, 0 \in G, \A k \in 1..n : k - 1 \in G => k \in G
  PROVE  n \in G
<1> DEFINE Bad == {k \in 0..n : k \notin G}
<1> SUFFICES ASSUME Bad # {} PROVE FALSE
  OBVIOUS
<1>1. PICK k \in Bad : \A j \in Bad : k <= j
  <2>1. Bad \subseteq Nat
    OBVIOUS
  <2> QED BY <2>1, LeastNumber
<1>2. k \in 1..n /\ k - 1 \in G
  BY <1>1
<1> QED
  BY <1>1, <1>2

(* The members of a finite set of numbers, from the least to the greatest. *)
Rises(e, n, S) == e \in [1..n -> S] /\ \A i, j \in 1..n : i < j => e[i] < e[j]

LEMMA RisingExists ==
  ASSUME NEW S, S \subseteq Nat, IsFiniteSet(S)
  PROVE  \E e : Rises(e, Cardinality(S), S)
<1> DEFINE n == Cardinality(S)
           G == {k \in 0..n : \A T \in SUBSET S :
                   IsFiniteSet(T) /\ Cardinality(T) = k => \E e : Rises(e, k, T)}
<1>1. n \in Nat
  BY FS_CardinalityType
<1>2. 0 \in G
  <2>1. ASSUME NEW T PROVE Rises(<<>>, 0, T)
    BY DEF Rises
  <2> QED BY <1>1, <2>1
<1>3. ASSUME NEW k \in 1..n, k - 1 \in G PROVE k \in G
  <2>1. ASSUME NEW T \in SUBSET S, IsFiniteSet(T), Cardinality(T) = k
        PROVE  \E e : Rises(e, k, T)
    <3>1. T # {}
      BY <2>1, <1>1, FS_EmptySet
    <3>2. PICK x \in T : \A y \in T : x <= y
      BY <3>1, LeastNumber
    <3>3. T \ {x} \in SUBSET S /\ IsFiniteSet(T \ {x}) /\ Cardinality(T \ {x}) = k - 1
      BY <2>1, <3>2, FS_RemoveElement
    <3>4. PICK e : Rises(e, k - 1, T \ {x})
      BY <1>3, <3>3
    <3> DEFINE d == [i \in 1..k |-> IF i = 1 THEN x ELSE e[i - 1]]
    <3>5. ASSUME NEW i \in 1..k PROVE i = 1 \/ i - 1 \in 1..k-1
      BY <1>1
    <3>6. \A i \in 1..k-1 : e[i] \in T \ {x}
      BY <3>4 DEF Rises
    <3>7. d \in [1..k -> T]
      BY <3>5, <3>6
    <3>8. ASSUME NEW i \in 1..k, NEW j \in 1..k, i < j PROVE d[i] < d[j]
      <4>1. j - 1 \in 1..k-1 /\ j # 1 /\ d[j] = e[j - 1]
        BY <1>1, <3>8, <3>5
      <4>2. CASE i = 1
        <5>1. d[i] = x /\ e[j - 1] \in T /\ e[j - 1] # x
          BY <3>6, <4>1, <4>2
        <5>2. x \in Nat /\ e[j - 1] \in Nat
          BY <5>1
        <5> QED BY <3>2, <4>1, <5>1, <5>2
      <4>3. CASE i # 1
        <5>1. i - 1 \in 1..k-1 /\ i - 1 < j - 1 /\ d[i] = e[i - 1]
          BY <1>1, <3>5, <3>8, <4>3
        <5> QED BY <3>4, <4>1, <5>1 DEF Rises
      <4> QED BY <4>2, <4>3
    <3> HIDE DEF d
    <3> QED BY <3>7, <3>8 DEF Rises
  <2>2. k \in 0..n
    BY <1>1
  <2> QED BY <2>1, <2>2
<1> HIDE DEF G
<1>4. n \in G
  BY <1>1, <1>2, <1>3, Upto
<1> QED
  BY <1>4 DEF G

(* Flattened sequences.                                                    *)
Flattening(f, s, n) == f = [i \in 1..n |-> IF i = 1 THEN s[i] ELSE f[i - 1] \o s[i]]

LEMMA FlattenExists ==
  ASSUME NEW s, NEW n \in Nat
  PROVE  \E f : Flattening(f, s, n)
<1> DEFINE Bad == {k \in Nat : ~ \E f : Flattening(f, s, k)}
<1> SUFFICES ASSUME Bad # {} PROVE FALSE
  OBVIOUS
<1>1. PICK k \in Bad : \A j \in Bad : k <= j
  BY LeastNumber
<1>2. k # 0
  <2>1. Flattening([i \in 1..0 |-> s[i]], s, 0)
    BY DEF Flattening
  <2> QED BY <2>1
<1>3. PICK f : Flattening(f, s, k - 1)
  BY <1>1, <1>2
<1> DEFINE g == [i \in 1..k |-> IF i < k THEN f[i] ELSE IF i = 1 THEN s[i] ELSE f[i - 1] \o s[i]]
<1>4. Flattening(g, s, k)
  <2> SUFFICES ASSUME NEW i \in 1..k
               PROVE  g[i] = IF i = 1 THEN s[i] ELSE g[i - 1] \o s[i]
    BY DEF Flattening
  <2>1. \A j \in 1..k-1 : f[j] = IF j = 1 THEN s[j] ELSE f[j - 1] \o s[j]
    BY <1>3 DEF Flattening
  <2>2. CASE i < k
    <3>1. i \in 1..k-1 /\ (i # 1 => i - 1 \in 1..k-1)
      BY <1>2, <2>2
    <3> QED BY <2>1, <3>1
  <2>3. CASE i = k
    BY <1>2, <2>3
  <2> QED BY <2>2, <2>3
<1> QED
  BY <1>1, <1>4

LEMMA FlattenIs ==
  ASSUME NEW s, NEW n \in Nat, s \in Seq(ToSet(s)), Len(s) = n
  PROVE  \E f : Flattening(f, s, n) /\ FlattenSeq(s) = IF n = 0 THEN s ELSE f[n]
<1> DEFINE f == CHOOSE f : Flattening(f, s, n)
<1>1. FlattenSeq(s) = IF n = 0 THEN s ELSE f[n]
  BY DEF FlattenSeq, Flattening
<1>2. Flattening(f, s, n)
  BY FlattenExists
<1> QED
  BY <1>1, <1>2

LEMMA ListedSequence ==
  ASSUME NEW s, NEW n \in Nat, s = [i \in 1..n |-> s[i]]
  PROVE  s \in Seq(ToSet(s)) /\ Len(s) = n /\ DOMAIN s = 1..n
<1>1. s \in [1..n -> ToSet(s)]
  BY DEF ToSet
<1>2. s \in Seq(ToSet(s))
  BY <1>1
<1> QED
  BY <1>1, <1>2

LEMMA FlattenLast ==
  ASSUME NEW s, NEW n \in Nat, s = [i \in 1..n |-> s[i]], \A i \in 1..n : s[i] \in Seq(ToSet(s[i]))
  PROVE  /\ n = 0 => FlattenSeq(s) = <<>>
         /\ n > 0 => FlattenSeq(s) = FlattenSeq([i \in 1..n-1 |-> s[i]]) \o s[n]
<1> DEFINE t == [i \in 1..n-1 |-> s[i]]
<1>0. t = [i \in 1..n-1 |-> s[i]]
  OBVIOUS
<1> HIDE DEF t
<1> SUFFICES /\ n = 0 => FlattenSeq(s) = <<>>
             /\ n > 0 => FlattenSeq(s) = FlattenSeq(t) \o s[n]
  BY <1>0
<1>1. s \in Seq(ToSet(s)) /\ Len(s) = n
  BY ListedSequence
<1>2. PICK f : Flattening(f, s, n) /\ FlattenSeq(s) = IF n = 0 THEN s ELSE f[n]
  BY <1>1, FlattenIs
<1>3. CASE n = 0
  BY <1>2, <1>3
<1>4. CASE n > 0
  <2>1. n - 1 \in Nat /\ t = [i \in 1..n-1 |-> t[i]] /\ \A i \in 1..n-1 : t[i] = s[i]
    BY <1>0, <1>4
  <2>2. t \in Seq(ToSet(t)) /\ Len(t) = n - 1
    BY <2>1, ListedSequence
  <2>3. PICK g : Flattening(g, t, n - 1) /\ FlattenSeq(t) = IF n - 1 = 0 THEN t ELSE g[n - 1]
    BY <2>1, <2>2, FlattenIs
  <2>4. \A i \in 1..n : f[i] = IF i = 1 THEN s[i] ELSE f[i - 1] \o s[i]
    BY <1>2 DEF Flattening
  <2>5. \A i \in 1..n-1 : g[i] = IF i = 1 THEN s[i] ELSE g[i - 1] \o s[i]
    BY <2>1, <2>3 DEF Flattening
  <2>6. FlattenSeq(s) = f[n] /\ n \in 1..n
    BY <1>2, <1>4
  <2>7. CASE n = 1
    <3>1. t = <<>> /\ f[1] = s[1] /\ s[1] \in Seq(ToSet(s[1]))
      BY <2>1, <2>4, <2>7
    <3>2. <<>> \o s[1] = s[1]
      BY <3>1
    <3>3. FlattenSeq(t) = <<>>
      BY <2>3, <2>7, <3>1
    <3>4. FlattenSeq(s) = FlattenSeq(t) \o s[n]
      BY <2>6, <2>7, <3>1, <3>2, <3>3
    <3> QED BY <1>4, <3>4
  <2>8. CASE n # 1
    <3> DEFINE G == {k \in 0..n-1 : k > 0 => f[k] = g[k]}
    <3>1. 0 \in G
      BY <2>1
    <3>2. ASSUME NEW k \in 1..n-1, k - 1 \in G PROVE k \in G
      <4>1. k \in 1..n /\ k \in 0..n-1 /\ (k # 1 => k - 1 > 0)
        BY <2>1
      <4> QED BY <2>4, <2>5, <3>2, <4>1
    <3> HIDE DEF G
    <3>3. n - 1 \in G
      BY <2>1, <3>1, <3>2, Upto
    <3>4. f[n - 1] = g[n - 1] /\ n - 1 # 0
      BY <1>4, <2>8, <3>3 DEF G
    <3>5. f[n] = f[n - 1] \o s[n]
      BY <2>4, <2>6, <2>8
    <3>6. FlattenSeq(s) = FlattenSeq(t) \o s[n]
      BY <2>3, <2>6, <3>4, <3>5
    <3> QED BY <1>4, <3>6
  <2> QED BY <2>7, <2>8
<1> QED
  BY <1>3, <1>4

-----------------------------------------------------------------------------
(* The weight of every subset of a finite set whose elements weigh g.      *)
Weighs(W, g, S) ==
  /\ W \in [SUBSET S -> Nat]
  /\ W[{}] = 0
  /\ \A s \in SUBSET S : \A y \in s : W[s] = g[y] + W[s \ {y}]

LEMMA WeightExists ==
  ASSUME NEW S, IsFiniteSet(S), NEW g, \A y \in S : g[y] \in Nat
  PROVE  \E W : Weighs(W, g, S)
<1> DEFINE Bad == {A \in SUBSET S : ~ \E W : Weighs(W, g, A)}
<1> SUFFICES ASSUME Bad # {} PROVE FALSE
  OBVIOUS
<1>1. PICK A \in Bad : \A B \in Bad : B \subseteq A => B = A
  <2>1. Bad \subseteq SUBSET S
    OBVIOUS
  <2> HIDE DEF Bad
  <2> QED BY <2>1, MinimalSet
<1>2. A # {}
  <2>1. Weighs([s \in SUBSET {} |-> 0], g, {})
    BY DEF Weighs
  <2> QED BY <2>1
<1>3. PICK a \in A : TRUE
  BY <1>2
<1>4. PICK W : Weighs(W, g, A \ {a})
  BY <1>1, <1>3
<1> DEFINE X == [s \in SUBSET A |-> IF a \in s THEN g[a] + W[s \ {a}] ELSE W[s]]
<1>5. ASSUME NEW s \in SUBSET A
      PROVE  a \in s => s \ {a} \in SUBSET (A \ {a})
  OBVIOUS
<1>6. ASSUME NEW s \in SUBSET A
      PROVE  a \notin s => s \in SUBSET (A \ {a})
  OBVIOUS
<1>7. \A s \in SUBSET (A \ {a}) : W[s] \in Nat
  BY <1>4 DEF Weighs
<1>8. X \in [SUBSET A -> Nat]
  BY <1>3, <1>5, <1>6, <1>7
<1>9. X[{}] = 0
  BY <1>4 DEF Weighs
<1>10. ASSUME NEW s \in SUBSET A, NEW y \in s PROVE X[s] = g[y] + X[s \ {y}]
  <2>1. CASE y = a
    BY <2>1
  <2>2. CASE y # a /\ a \in s
    <3>1. s \ {a} \in SUBSET (A \ {a}) /\ y \in s \ {a}
      BY <2>2
    <3>2. W[s \ {a}] = g[y] + W[(s \ {a}) \ {y}]
      BY <1>4, <3>1 DEF Weighs
    <3>3. (s \ {a}) \ {y} = (s \ {y}) \ {a} /\ a \in s \ {y} /\ s \ {y} \in SUBSET A
      BY <2>2
    <3>4. W[(s \ {y}) \ {a}] \in Nat /\ g[a] \in Nat /\ g[y] \in Nat
      BY <1>7, <3>3
    <3>5. X[s] = g[a] + W[s \ {a}] /\ X[s \ {y}] = g[a] + W[(s \ {y}) \ {a}]
      BY <2>2, <3>3
    <3>6. X[s] = g[a] + (g[y] + W[(s \ {y}) \ {a}])
      BY <3>2, <3>3, <3>5
    <3>7. X[s \ {y}] = g[a] + W[(s \ {y}) \ {a}]
      BY <3>5
    <3> HIDE DEF X
    <3> QED BY <3>4, <3>6, <3>7
  <2>3. CASE a \notin s
    <3>1. s \in SUBSET (A \ {a}) /\ a \notin s \ {y} /\ s \ {y} \in SUBSET A
      BY <2>3
    <3>2. W[s] = g[y] + W[s \ {y}]
      BY <1>4, <3>1 DEF Weighs
    <3> QED BY <3>1, <3>2, <2>3
  <2> QED BY <2>1, <2>2, <2>3
<1>11. Weighs(X, g, A)
  BY <1>8, <1>9, <1>10 DEF Weighs
<1> QED
  BY <1>11

LEMMA WeightUnique ==
  ASSUME NEW S, NEW T, NEW g, NEW h, NEW W, Weighs(W, g, S), NEW X, Weighs(X, h, T),
         NEW A \in SUBSET S, IsFiniteSet(A), A \subseteq T, \A y \in A : g[y] = h[y]
  PROVE  W[A] = X[A]
<1> DEFINE Bad == {B \in SUBSET A : W[B] # X[B]}
<1> SUFFICES ASSUME Bad # {} PROVE FALSE
  OBVIOUS
<1>1. PICK B \in Bad : \A C \in Bad : C \subseteq B => C = B
  <2>1. Bad \subseteq SUBSET A
    OBVIOUS
  <2> HIDE DEF Bad
  <2> QED BY <2>1, MinimalSet
<1>2. B # {}
  BY <1>1 DEF Weighs
<1>3. PICK y \in B : TRUE
  BY <1>2
<1>4. W[B \ {y}] = X[B \ {y}]
  BY <1>1, <1>3
<1>5. W[B] = g[y] + W[B \ {y}] /\ X[B] = h[y] + X[B \ {y}]
  BY <1>3 DEF Weighs
<1> QED
  BY <1>1, <1>3, <1>4, <1>5

LEMMA WeightAdds ==
  ASSUME NEW S, NEW g, NEW W, Weighs(W, g, S), \A y \in S : g[y] \in Nat,
         NEW A \in SUBSET S, NEW B \in SUBSET S, IsFiniteSet(B), A \cap B = {}
  PROVE  W[A \cup B] = W[A] + W[B]
<1> DEFINE Bad == {C \in SUBSET B : W[A \cup C] # W[A] + W[C]}
<1> SUFFICES ASSUME Bad # {} PROVE FALSE
  OBVIOUS
<1>1. PICK C \in Bad : \A D \in Bad : D \subseteq C => D = C
  <2>1. Bad \subseteq SUBSET B
    OBVIOUS
  <2> HIDE DEF Bad
  <2> QED BY <2>1, MinimalSet
<1>2. \A s \in SUBSET S : W[s] \in Nat
  BY DEF Weighs
<1>3. C # {}
  <2>1. A \cup {} = A /\ W[{}] = 0 /\ W[A] \in Nat
    BY <1>2 DEF Weighs
  <2>2. W[A \cup C] # W[A] + W[C]
    BY <1>1
  <2> HIDE DEF Bad
  <2> SUFFICES ASSUME C = {} PROVE FALSE
    OBVIOUS
  <2>3. W[A \cup C] = W[A] /\ W[C] = 0
    BY <2>1
  <2> QED BY <2>1, <2>2, <2>3
<1>4. PICK y \in C : TRUE
  BY <1>3
<1>5. W[A \cup (C \ {y})] = W[A] + W[C \ {y}]
  BY <1>1, <1>4
<1>6. (A \cup C) \ {y} = A \cup (C \ {y}) /\ A \cup C \in SUBSET S /\ C \in SUBSET S
  BY <1>4
<1>7. W[A \cup C] = g[y] + W[(A \cup C) \ {y}] /\ W[C] = g[y] + W[C \ {y}]
  BY <1>4, <1>6 DEF Weighs
<1>8. W[A] \in Nat /\ W[C \ {y}] \in Nat /\ g[y] \in Nat
  BY <1>2, <1>4
<1>9. W[A \cup C] = W[A] + W[C]
  <2>1. W[A \cup C] = g[y] + (W[A] + W[C \ {y}])
    BY <1>5, <1>6, <1>7
  <2> HIDE DEF Bad
  <2> QED BY <1>7, <1>8, <2>1
<1> QED
  BY <1>1, <1>9

(* The weight of a finite set.                                             *)
WeightOf(g, S) == (CHOOSE W : Weighs(W, g, S))[S]

LEMMA WeightIs ==
  ASSUME NEW S, IsFiniteSet(S), NEW g, \A y \in S : g[y] \in Nat,
         NEW T \in SUBSET S, NEW W, Weighs(W, g, S)
  PROVE  WeightOf(g, T) = W[T] /\ WeightOf(g, T) \in Nat
<1>1. IsFiniteSet(T) /\ \A y \in T : g[y] \in Nat
  BY FS_Subset
<1>2. \E X : Weighs(X, g, T)
  BY <1>1, WeightExists
<1> DEFINE X == CHOOSE X : Weighs(X, g, T)
<1>3. Weighs(X, g, T)
  BY <1>2
<1> HIDE DEF X
<1>4. X[T] = W[T]
  BY <1>1, <1>3, WeightUnique
<1> QED
  BY <1>4 DEF WeightOf, X, Weighs

LEMMA WeightNone == ASSUME NEW g PROVE WeightOf(g, {}) = 0
<1>1. PICK W : Weighs(W, g, {})
  BY FS_EmptySet, WeightExists
<1>2. WeightOf(g, {}) = W[{}]
  BY <1>1, FS_EmptySet, WeightIs
<1> QED
  BY <1>1, <1>2 DEF Weighs

LEMMA WeightMore ==
  ASSUME NEW S, IsFiniteSet(S), NEW g, NEW x, x \notin S, \A y \in S \cup {x} : g[y] \in Nat
  PROVE  /\ WeightOf(g, S \cup {x}) = g[x] + WeightOf(g, S)
         /\ WeightOf(g, S) \in Nat /\ WeightOf(g, S \cup {x}) \in Nat
<1> DEFINE T == S \cup {x}
<1>1. IsFiniteSet(T) /\ S \in SUBSET T /\ T \ {x} = S /\ x \in T /\ T \in SUBSET T
  BY FS_AddElement
<1>2. \A y \in T : g[y] \in Nat
  OBVIOUS
<1> HIDE DEF T
<1>3. PICK W : Weighs(W, g, T)
  BY <1>1, <1>2, WeightExists
<1>4. /\ WeightOf(g, T) = W[T] /\ WeightOf(g, S) = W[S]
      /\ WeightOf(g, T) \in Nat /\ WeightOf(g, S) \in Nat
  BY <1>1, <1>2, <1>3, WeightIs
<1>5. W[T] = g[x] + W[S]
  BY <1>1, <1>3 DEF Weighs
<1> QED
  BY <1>4, <1>5 DEF T

LEMMA WeightSame ==
  ASSUME NEW S, IsFiniteSet(S), NEW g, NEW h, \A y \in S : g[y] \in Nat /\ h[y] = g[y]
  PROVE  WeightOf(g, S) = WeightOf(h, S)
<1>1. S \in SUBSET S /\ \A y \in S : g[y] \in Nat /\ h[y] \in Nat
  OBVIOUS
<1>2. PICK W : Weighs(W, g, S)
  BY <1>1, WeightExists
<1>3. Weighs(W, h, S)
  BY <1>2 DEF Weighs
<1>4. WeightOf(g, S) = W[S]
  BY ONLY <1>1, <1>2, IsFiniteSet(S), WeightIs
<1>5. WeightOf(h, S) = W[S]
  BY ONLY <1>1, <1>3, IsFiniteSet(S), WeightIs
<1> QED
  BY <1>4, <1>5

-----------------------------------------------------------------------------
(* What is reachable from p in at least one step.                          *)
Reach(e, p) ==
  {q \in DOMAIN e : \A S \in SUBSET DOMAIN e :
                      e[p] \subseteq S /\ (\A m \in S : e[m] \subseteq S) => q \in S}

LEMMA ReachLeast ==
  ASSUME NEW V, NEW e \in [V -> SUBSET V], NEW p \in V,
         NEW S \in SUBSET V, e[p] \subseteq S, \A m \in S : e[m] \subseteq S
  PROVE  Reach(e, p) \subseteq S
  BY DEF Reach

LEMMA ReachCloses ==
  ASSUME NEW V, NEW e \in [V -> SUBSET V], NEW p \in V
  PROVE  /\ Reach(e, p) \subseteq V
         /\ e[p] \subseteq Reach(e, p)
         /\ \A q \in Reach(e, p) : e[q] \subseteq Reach(e, p)
  BY DEF Reach

LEMMA ReachTransitive ==
  ASSUME NEW V, NEW e \in [V -> SUBSET V], NEW p \in V, NEW q \in Reach(e, p)
  PROVE  Reach(e, q) \subseteq Reach(e, p)
<1>1. Reach(e, p) \subseteq V
  BY ReachCloses
<1> QED
  BY <1>1, ReachCloses, ReachLeast

(* The first step of a way.                                                *)
LEMMA ReachFirstStep ==
  ASSUME NEW V, NEW e \in [V -> SUBSET V], NEW p \in V, NEW q \in Reach(e, p)
  PROVE  q \in e[p] \/ \E m \in e[p] : q \in Reach(e, m)
<1> DEFINE S == e[p] \cup UNION {Reach(e, m) : m \in e[p]}
<1>1. S \in SUBSET V
  BY ReachCloses
<1>2. ASSUME NEW m \in S PROVE e[m] \subseteq S
  <2>1. CASE m \in e[p]
    BY <2>1, ReachCloses
  <2>2. ASSUME NEW first \in e[p], m \in Reach(e, first) PROVE e[m] \subseteq S
    <3>1. e[m] \subseteq Reach(e, first)
      BY <2>2, ReachCloses
    <3> QED
      BY <3>1
  <2> QED
    BY <2>1, <2>2
<1>3. e[p] \subseteq S
  OBVIOUS
<1>4. Reach(e, p) \subseteq S
  <2> HIDE DEF S
  <2> QED
    BY <1>1, <1>2, <1>3, ReachLeast
<1> QED
  BY <1>4

(* What lies on a cycle through p has a successor that does.               *)
LEMMA OnCycle ==
  ASSUME NEW V, NEW e \in [V -> SUBSET V], NEW p \in V, p \in Reach(e, p)
  PROVE  \E T \in SUBSET V : p \in T /\ \A q \in T : e[q] \cap T # {}
<1> DEFINE T == {q \in Reach(e, p) : p \in Reach(e, q)}
<1>1. T \in SUBSET V /\ p \in T
  BY ReachCloses
<1>2. ASSUME NEW q \in T PROVE e[q] \cap T # {}
  <2>1. q \in V /\ e[q] \subseteq Reach(e, p)
    BY <1>1, ReachCloses
  <2>2. CASE p \in e[q]
    BY <1>1, <2>2
  <2>3. ASSUME NEW m \in e[q], p \in Reach(e, m) PROVE e[q] \cap T # {}
    BY <2>1, <2>3
  <2> QED
    BY <2>1, <2>2, <2>3, ReachFirstStep
<1> QED
  BY <1>1, <1>2

(* Where every node of a set has a successor in the set, one reaches       *)
(* itself.                                                                 *)
LEMMA CycleWithin ==
  ASSUME NEW V, IsFiniteSet(V), NEW e \in [V -> SUBSET V],
         NEW T \in SUBSET V, T # {}, \A p \in T : e[p] \cap T # {}
  PROVE  \E p \in T : p \in Reach(e, p)
<1> DEFINE within(p) == Reach(e, p) \cap T
           sets == {within(p) : p \in T}
<1>1. PICK A \in sets : \A B \in sets : B \subseteq A => B = A
  <2>1. sets \subseteq SUBSET V /\ sets # {}
    OBVIOUS
  <2> HIDE DEF sets
  <2> QED
    BY <2>1, MinimalSet
<1>2. PICK p \in T : A = within(p)
  BY <1>1
<1>3. PICK q \in e[p] : q \in T
  OBVIOUS
<1>4. q \in Reach(e, p)
  BY ReachCloses
<1>5. within(q) \subseteq A
  BY <1>2, <1>4, ReachTransitive
<1>6. within(q) = A
  BY <1>1, <1>3, <1>5
<1>7. q \in within(q)
  BY <1>2, <1>3, <1>4, <1>6
<1> QED
  BY <1>3, <1>7

(* Some node reaches itself exactly when there is a nonempty set of nodes  *)
(* each of which has a successor in the set.                               *)
LEMMA CyclesOrLayers ==
  ASSUME NEW V, IsFiniteSet(V), NEW e \in [V -> SUBSET V]
  PROVE  (\E p \in V : p \in Reach(e, p))
           <=> \E T \in SUBSET V : T # {} /\ \A p \in T : e[p] \cap T # {}
<1>1. ASSUME NEW p \in V, p \in Reach(e, p)
      PROVE  \E T \in SUBSET V : T # {} /\ \A q \in T : e[q] \cap T # {}
  BY <1>1, OnCycle
<1>2. ASSUME NEW T \in SUBSET V, T # {}, \A p \in T : e[p] \cap T # {}
      PROVE  \E p \in V : p \in Reach(e, p)
  BY <1>2, CycleWithin
<1> QED
  BY <1>1, <1>2

(* A node is on a cycle when others share its component, or when it has an *)
(* edge to itself.                                                         *)
LEMMA CyclicNode ==
  ASSUME NEW V, IsFiniteSet(V), NEW e \in [V -> SUBSET V], NEW p \in V
  PROVE  (\/ Cardinality({p} \cup {q \in Reach(e, p) : p \in Reach(e, q)}) > 1
          \/ p \in e[p])
            <=> p \in Reach(e, p)
<1> DEFINE C == {p} \cup {q \in Reach(e, p) : p \in Reach(e, q)}
<1>1. IsFiniteSet(C)
  <2>1. C \subseteq V
    BY ReachCloses
  <2> QED
    BY <2>1, FS_Subset
<1>2. Cardinality(C) > 1 <=> C # {p}
  <2>1. Cardinality({p}) = 1
    BY FS_Singleton
  <2>2. Cardinality(C) \in Nat /\ Cardinality({p}) <= Cardinality(C)
    BY <1>1, FS_CardinalityType, FS_Subset
  <2>3. Cardinality(C) = Cardinality({p}) => C = {p}
    BY <1>1, FS_Subset
  <2> HIDE DEF C
  <2> QED
    BY <2>1, <2>2, <2>3
<1>3. ASSUME C # {p} PROVE p \in Reach(e, p)
  BY <1>3, ReachTransitive
<1>4. ASSUME p \in e[p] PROVE p \in Reach(e, p)
  BY <1>4, ReachCloses
<1>5. ASSUME p \in Reach(e, p), p \notin e[p] PROVE C # {p}
  <2>1. PICK m \in e[p] : p \in Reach(e, m)
    BY <1>5, ReachFirstStep
  <2>2. m \in Reach(e, p)
    BY ReachCloses
  <2> QED
    BY <1>5, <2>1, <2>2
<1> QED
  BY <1>2, <1>3, <1>4, <1>5
-----------------------------------------------------------------------------

(* Rounds: n times from r with a function on the subsets of a set, which   *)
(* is how a closure is computed.                                           *)
Rounds(g, n, r, s) == g = [k \in 0..n |-> IF k = 0 THEN r ELSE s[g[k - 1]]]

Computes(g, U, n, r, s) ==
  /\ n \in Nat /\ r \in SUBSET U /\ s \in [SUBSET U -> SUBSET U]
  /\ g \in [0..n -> SUBSET U] /\ Rounds(g, n, r, s)

Inflates(s, U) == \A A \in SUBSET U : A \subseteq s[A]
StepsWithin(s, U, S) == \A A \in SUBSET U : A \subseteq S => s[A] \subseteq S

LEMMA RoundsExist ==
  ASSUME NEW U, NEW s \in [SUBSET U -> SUBSET U], NEW r \in SUBSET U, NEW n \in Nat
  PROVE  \E g : Computes(g, U, n, r, s)
<1> DEFINE G == {k \in 0..n : \E g \in [0..k -> SUBSET U] : Rounds(g, k, r, s)}
<1>1. 0 \in G
  <2>1. [k \in 0..0 |-> r] \in [0..0 -> SUBSET U]
    OBVIOUS
  <2>2. Rounds([k \in 0..0 |-> r], 0, r, s)
    BY DEF Rounds
  <2> QED BY <2>1, <2>2
<1>2. ASSUME NEW m \in 1..n, m - 1 \in G PROVE m \in G
  <2>1. PICK g \in [0..(m - 1) -> SUBSET U] : Rounds(g, m - 1, r, s)
    BY <1>2
  <2>2. m - 1 \in 0..(m - 1) /\ g[m - 1] \in SUBSET U
    BY <1>2
  <2> DEFINE h == [k \in 0..m |-> IF k = m THEN s[g[m - 1]] ELSE g[k]]
  <2>3. h \in [0..m -> SUBSET U]
    BY <1>2, <2>2
  <2>4. ASSUME NEW k \in 0..m PROVE h[k] = IF k = 0 THEN r ELSE s[h[k - 1]]
    <3>1. CASE k = m
      BY <1>2, <2>2, <3>1
    <3>2. CASE k # m
      <4>1. k \in 0..(m - 1) /\ h[k] = g[k]
        BY <1>2, <3>2
      <4>2. g[k] = IF k = 0 THEN r ELSE s[g[k - 1]]
        BY <2>1, <4>1 DEF Rounds
      <4>3. k # 0 => k - 1 \in 0..m /\ k - 1 # m /\ h[k - 1] = g[k - 1]
        BY <1>2, <4>1
      <4> QED BY <4>1, <4>2, <4>3
    <3> QED BY <3>1, <3>2
  <2>5. Rounds(h, m, r, s)
    <3> HIDE DEF h
    <3> QED BY <2>3, <2>4 DEF Rounds
  <2> QED
    BY <1>2, <2>3, <2>5
<1> HIDE DEF G
<1>3. n \in G
  BY <1>1, <1>2, Upto
<1> QED
  BY <1>3 DEF G, Computes

LEMMA RoundsLeast ==
  ASSUME NEW U, NEW s, NEW r, NEW n, NEW g, Computes(g, U, n, r, s),
         NEW S, r \subseteq S, StepsWithin(s, U, S)
  PROVE  g[n] \subseteq S
<1>0. /\ n \in Nat /\ r \in SUBSET U /\ g \in [0..n -> SUBSET U]
      /\ \A k \in 0..n : g[k] = IF k = 0 THEN r ELSE s[g[k - 1]]
  BY DEF Computes, Rounds
<1> DEFINE G == {k \in 0..n : g[k] \subseteq S}
<1>1. 0 \in G
  BY <1>0
<1>2. ASSUME NEW m \in 1..n, m - 1 \in G PROVE m \in G
  <2>1. m \in 0..n /\ m # 0 /\ m - 1 \in 0..n /\ g[m - 1] \in SUBSET U
    BY <1>0, <1>2
  <2>2. g[m] = s[g[m - 1]]
    BY <1>0, <2>1
  <2>3. g[m - 1] \subseteq S
    BY <1>2
  <2>4. s[g[m - 1]] \subseteq S
    BY <2>1, <2>3 DEF StepsWithin
  <2> QED BY <2>1, <2>2, <2>4
<1> HIDE DEF G
<1>3. n \in G
  BY <1>0, <1>1, <1>2, Upto
<1> QED
  BY <1>3 DEF G

(* As many rounds as there are elements are enough.                        *)
LEMMA RoundsClose ==
  ASSUME NEW U, IsFiniteSet(U), NEW n, Cardinality(U) <= n,
         NEW s, Inflates(s, U), NEW r, NEW g, Computes(g, U, n, r, s)
  PROVE  r \subseteq g[n] /\ s[g[n]] = g[n]
<1>n. n \in Nat /\ s \in [SUBSET U -> SUBSET U] /\ g \in [0..n -> SUBSET U] /\ r \in SUBSET U
  BY DEF Computes
<1>g. \A k \in 0..n : g[k] = IF k = 0 THEN r ELSE s[g[k - 1]]
  BY DEF Computes, Rounds
<1>s. \A A \in SUBSET U : A \subseteq s[A] /\ s[A] \in SUBSET U
  BY <1>n DEF Inflates
<1> DEFINE G == {k \in 0..n : r \subseteq g[k] /\ (s[g[k]] = g[k] \/ Cardinality(g[k]) >= k)}
<1>0. \A k \in 0..n : /\ g[k] \in SUBSET U /\ IsFiniteSet(g[k]) /\ Cardinality(g[k]) \in Nat
                      /\ s[g[k]] \in SUBSET U
  BY <1>n, <1>s, FS_Subset, FS_CardinalityType
<1>1. 0 \in G
  <2>1. 0 \in 0..n /\ g[0] = r
    BY <1>n, <1>g
  <2> QED BY <1>0, <2>1
<1>2. ASSUME NEW m \in 1..n, m - 1 \in G PROVE m \in G
  <2>1. m \in 0..n /\ m # 0 /\ m - 1 \in 0..n
    BY <1>n, <1>2
  <2>2. g[m] = s[g[m - 1]]
    BY <1>g, <2>1
  <2>3. g[m - 1] \subseteq g[m] /\ r \subseteq g[m]
    BY <1>0, <1>s, <1>2, <2>1, <2>2
  <2>4. CASE g[m] = g[m - 1]
    BY <2>1, <2>2, <2>3, <2>4
  <2>5. CASE g[m] # g[m - 1]
    <3>1. Cardinality(g[m - 1]) >= m - 1
      BY <1>2, <2>2, <2>5
    <3>2. Cardinality(g[m - 1]) <= Cardinality(g[m]) /\ Cardinality(g[m]) # Cardinality(g[m - 1])
      BY <1>0, <2>1, <2>3, <2>5, FS_Subset
    <3>3. Cardinality(g[m]) >= m
      BY <1>n, <1>0, <2>1, <3>1, <3>2
    <3> QED BY <2>1, <2>3, <3>3
  <2> QED BY <2>4, <2>5
<1> HIDE DEF G
<1>3. n \in G
  BY <1>n, <1>1, <1>2, Upto
<1>4. r \subseteq g[n] /\ (s[g[n]] = g[n] \/ Cardinality(g[n]) >= n)
  BY <1>3 DEF G
<1>5. ASSUME Cardinality(g[n]) >= n PROVE s[g[n]] = g[n]
  <2>1. n \in 0..n
    BY <1>n
  <2>2. Cardinality(U) \in Nat
    BY FS_CardinalityType
  <2>3. Cardinality(g[n]) <= Cardinality(U) /\ (Cardinality(U) = Cardinality(g[n]) => U = g[n])
    BY <1>0, <2>1, FS_Subset
  <2>4. U = g[n]
    BY <1>n, <1>0, <1>5, <2>1, <2>2, <2>3
  <2>5. U \subseteq s[U] /\ s[U] \in SUBSET U
    BY <1>s
  <2>6. s[U] = U
    BY <2>5
  <2> QED BY <2>4, <2>6
<1> QED
  BY <1>4, <1>5
=============================================================================
