---------------------------- MODULE IdentityProofs ----------------------------
(***************************************************************************)
(* Theorems about the catalog of identities (module IdentityCatalog), for  *)
(* every revision that RevisionAssumption describes, every modulus of the  *)
(* digest and every order of demands.                                      *)
(*                                                                         *)
(* What the catalog promises rests on three facts: the places of what is   *)
(* declared and their keys determine each other unless two keys share a    *)
(* digest; the order of keys is a strict total order, so that sorting and  *)
(* removing duplicates keep each record once; and what the lowering adds   *)
(* depends on what was demanded, never on the order it was demanded in.    *)
(***************************************************************************)
EXTENDS IdentityCatalog, Fundamentals

-----------------------------------------------------------------------------
(***************************************************************************)
(* Sequences that are joined and flattened.                                *)
(***************************************************************************)

LEMMA JoinedList ==
  ASSUME NEW T, NEW a \in Seq(T), NEW b \in Seq(T)
  PROVE  a \o b \in Seq(T) /\ Len(a \o b) = Len(a) + Len(b) /\ ToSet(a \o b) = ToSet(a) \cup ToSet(b)
<1> DEFINE c == a \o b
<1>1. /\ Len(a) \in Nat /\ Len(b) \in Nat /\ DOMAIN a = 1..Len(a) /\ DOMAIN b = 1..Len(b)
      /\ c \in Seq(T) /\ Len(c) = Len(a) + Len(b) /\ DOMAIN c = 1..Len(c)
  OBVIOUS
<1>2. \A i \in 1..Len(a) : i \in DOMAIN c /\ c[i] = a[i]
  BY <1>1
<1>3. \A i \in 1..Len(b) : Len(a) + i \in DOMAIN c /\ c[Len(a) + i] = b[i]
  BY <1>1
<1>4. \A i \in DOMAIN c : \/ i \in 1..Len(a) /\ c[i] = a[i]
                          \/ i - Len(a) \in 1..Len(b) /\ c[i] = b[i - Len(a)]
  BY <1>1
<1> HIDE DEF c
<1>5. ToSet(c) = ToSet(a) \cup ToSet(b)
  <2>1. \A x \in ToSet(c) : x \in ToSet(a) \/ x \in ToSet(b)
    BY <1>1, <1>4 DEF ToSet
  <2>2. \A x \in ToSet(a) : x \in ToSet(c)
    BY <1>1, <1>2 DEF ToSet
  <2>3. \A x \in ToSet(b) : x \in ToSet(c)
    BY <1>1, <1>3 DEF ToSet
  <2> QED BY <2>1, <2>2, <2>3
<1> QED
  BY <1>1, <1>5 DEF c

LEMMA OwnSequence ==
  ASSUME NEW T, NEW q \in Seq(T)
  PROVE  q \in Seq(ToSet(q))
<1>1. q \in [1..Len(q) -> ToSet(q)] /\ Len(q) \in Nat
  BY DEF ToSet
<1> QED
  BY <1>1

LEMMA FlattenedList ==
  ASSUME NEW T, NEW n \in Nat, NEW s, s = [i \in 1..n |-> s[i]], \A i \in 1..n : s[i] \in Seq(T)
  PROVE  FlattenSeq(s) \in Seq(T) /\ ToSet(FlattenSeq(s)) = UNION {ToSet(s[i]) : i \in 1..n}
<1> DEFINE up(k) == [i \in 1..k |-> s[i]]
           Flat(k) == /\ FlattenSeq(up(k)) \in Seq(T)
                      /\ ToSet(FlattenSeq(up(k))) = UNION {ToSet(s[i]) : i \in 1..k}
           G == {k \in 0..n : Flat(k)}
<1>0. ASSUME NEW k \in 0..n
      PROVE  /\ up(k) = [i \in 1..k |-> up(k)[i]]
             /\ \A i \in 1..k : up(k)[i] = s[i] /\ up(k)[i] \in Seq(ToSet(up(k)[i]))
  <2>1. \A i \in 1..k : i \in 1..n
    OBVIOUS
  <2>2. \A i \in 1..k : up(k)[i] = s[i]
    OBVIOUS
  <2>3. ASSUME NEW i \in 1..k PROVE s[i] \in Seq(ToSet(s[i]))
    BY <2>1, OwnSequence
  <2> QED BY <2>2, <2>3
<1>1. Flat(0)
  <2>1. up(0) = [i \in 1..0 |-> up(0)[i]] /\ \A i \in 1..0 : up(0)[i] \in Seq(ToSet(up(0)[i]))
    BY <1>0, 0 \in 0..n
  <2> DEFINE u == up(0)
  <2> HIDE DEF u
  <2>2. FlattenSeq(u) = <<>>
    BY <2>1, FlattenLast DEF u
  <2>3. ToSet(<<>>) = {} /\ UNION {ToSet(s[i]) : i \in 1..0} = {} /\ <<>> \in Seq(T)
    BY DEF ToSet
  <2> QED BY <2>2, <2>3 DEF u
<1>2. ASSUME NEW k \in 1..n, Flat(k - 1) PROVE Flat(k)
  <2> DEFINE u == up(k)
  <2>1. /\ u = [i \in 1..k |-> u[i]]
        /\ \A i \in 1..k : u[i] = s[i] /\ u[i] \in Seq(ToSet(u[i]))
    BY <1>0, k \in 0..n
  <2> HIDE DEF u
  <2>2. k \in Nat /\ k > 0 /\ k \in 1..k
    OBVIOUS
  <2>3. FlattenSeq(u) = FlattenSeq([i \in 1..k-1 |-> u[i]]) \o u[k]
    BY <2>1, <2>2, FlattenLast
  <2>4. [i \in 1..k-1 |-> u[i]] = up(k - 1) /\ u[k] = s[k]
    <3>1. \A i \in 1..k-1 : i \in 1..k
      OBVIOUS
    <3> QED BY <2>1, <2>2, <3>1
  <2> HIDE DEF up
  <2> DEFINE f == FlattenSeq(up(k - 1))
  <2>5. f \in Seq(T) /\ s[k] \in Seq(T) /\ FlattenSeq(u) = f \o s[k]
    BY <1>2, <2>3, <2>4
  <2> HIDE DEF f
  <2>6. FlattenSeq(u) \in Seq(T) /\ ToSet(FlattenSeq(u)) = ToSet(f) \cup ToSet(s[k])
    BY <2>5, JoinedList
  <2>7. 1..k = (1..k-1) \cup {k}
    OBVIOUS
  <2>8. UNION {ToSet(s[i]) : i \in 1..k} = (UNION {ToSet(s[i]) : i \in 1..k-1}) \cup ToSet(s[k])
    BY <2>7
  <2> QED BY <1>2, <2>6, <2>8 DEF u, f
<1> HIDE DEF Flat
<1>3. 0 \in G /\ \A k \in 1..n : k - 1 \in G => k \in G
  BY <1>1, <1>2
<1>4. n \in G
  BY <1>3, Upto
<1>5. up(n) = s
  OBVIOUS
<1> QED
  BY <1>4, <1>5 DEF Flat

-----------------------------------------------------------------------------
(***************************************************************************)
(* The order of keys.                                                      *)
(***************************************************************************)

(* A key with an end mark: what comes first in an order is less where they *)
(* first differ.                                                           *)
Padded(a, i) == IF i \in DOMAIN a THEN a[i] + 1 ELSE 0

DiffersFirst(a, b, k) ==
  /\ k \in Nat \ {0} /\ Padded(a, k) < Padded(b, k)
  /\ \A i \in 1..k-1 : Padded(a, i) = Padded(b, i)

LEMMA BeforeIs ==
  ASSUME NEW a \in Seq(Nat), NEW b \in Seq(Nat)
  PROVE  Before(a, b) <=> \E k : DiffersFirst(a, b, k)
<1> DEFINE common == {i \in DOMAIN a \cap DOMAIN b : a[i] # b[i]}
           first  == CHOOSE i \in common : \A k \in common : i <= k
<1>1. /\ Len(a) \in Nat /\ Len(b) \in Nat /\ DOMAIN a = 1..Len(a) /\ DOMAIN b = 1..Len(b)
      /\ \A i \in DOMAIN a : a[i] \in Nat
      /\ \A i \in DOMAIN b : b[i] \in Nat
  OBVIOUS
<1>2. \A i \in Nat \ {0} : Padded(a, i) \in Nat /\ Padded(b, i) \in Nat
  BY <1>1 DEF Padded
<1>3. ASSUME common = {} PROVE Before(a, b) <=> \E k : DiffersFirst(a, b, k)
  <2>1. Before(a, b) <=> Len(a) < Len(b)
    BY <1>3 DEF Before
  <2>2. \A i \in DOMAIN a \cap DOMAIN b : a[i] = b[i]
    BY <1>3
  <2>3. ASSUME Len(a) < Len(b) PROVE DiffersFirst(a, b, Len(a) + 1)
    <3>1. Len(a) + 1 \in DOMAIN b /\ Len(a) + 1 \notin DOMAIN a
      BY <1>1, <2>3
    <3>2. \A i \in 1..(Len(a) + 1) - 1 : i \in DOMAIN a /\ i \in DOMAIN b
      BY <1>1, <2>3
    <3>3. \A i \in 1..(Len(a) + 1) - 1 : Padded(a, i) = Padded(b, i)
      BY <2>2, <3>2 DEF Padded
    <3>4. Padded(a, Len(a) + 1) < Padded(b, Len(a) + 1)
      BY <1>1, <3>1 DEF Padded
    <3> QED BY <1>1, <3>3, <3>4 DEF DiffersFirst
  <2>4. ASSUME NEW k, DiffersFirst(a, b, k) PROVE Len(a) < Len(b)
    <3>0. k \in Nat \ {0} /\ Padded(a, k) < Padded(b, k)
      BY <2>4 DEF DiffersFirst
    <3>1. k \in DOMAIN b
      BY <1>2, <3>0 DEF Padded
    <3>2. k \notin DOMAIN a
      <4> SUFFICES ASSUME k \in DOMAIN a PROVE FALSE
        OBVIOUS
      <4>1. Padded(a, k) = Padded(b, k)
        BY <2>2, <3>1 DEF Padded
      <4> QED BY <1>2, <3>0, <4>1
    <3> QED BY <1>1, <3>0, <3>1, <3>2
  <2> QED BY <2>1, <2>3, <2>4
<1>4. ASSUME common # {} PROVE Before(a, b) <=> \E k : DiffersFirst(a, b, k)
  <2>1. Before(a, b) <=> a[first] < b[first]
    BY <1>4 DEF Before
  <2>2. first \in common /\ \A k \in common : first <= k
    <3>1. common \subseteq Nat
      BY <1>1
    <3>2. \E i \in common : \A k \in common : i <= k
      BY <1>4, <3>1, LeastNumber
    <3> QED BY <3>2
  <2> HIDE DEF first
  <2>3. first \in DOMAIN a /\ first \in DOMAIN b /\ a[first] # b[first] /\ first \in Nat \ {0}
    BY <1>1, <2>2
  <2>4. \A i \in 1..first-1 : i \in DOMAIN a /\ i \in DOMAIN b /\ a[i] = b[i]
    <3>1. ASSUME NEW i \in 1..first-1 PROVE i \in DOMAIN a /\ i \in DOMAIN b /\ ~ (first <= i)
      BY <1>1, <2>3
    <3> QED BY <2>2, <3>1
  <2>5. ASSUME a[first] < b[first] PROVE DiffersFirst(a, b, first)
    BY <1>1, <2>3, <2>4, <2>5 DEF DiffersFirst, Padded
  <2>6. ASSUME NEW k, DiffersFirst(a, b, k) PROVE a[first] < b[first]
    <3>1. k \in Nat \ {0} /\ Padded(a, k) < Padded(b, k) /\ \A i \in 1..k-1 : Padded(a, i) = Padded(b, i)
      BY <2>6 DEF DiffersFirst
    <3>2. CASE k < first
      <4>0. k \in 1..first-1
        BY <2>3, <3>1, <3>2
      <4>1. Padded(a, k) = Padded(b, k) /\ Padded(a, k) \in Nat
        BY <1>2, <2>4, <3>1, <4>0 DEF Padded
      <4> QED BY <3>1, <4>1
    <3>3. CASE k > first
      <4>1. Padded(a, first) = Padded(b, first)
        BY <2>3, <3>1, <3>3
      <4> QED BY <1>1, <2>3, <4>1 DEF Padded
    <3>4. CASE k = first
      BY <1>1, <2>3, <3>1, <3>4 DEF Padded
    <3> QED BY <2>3, <3>1, <3>2, <3>3, <3>4
  <2> QED BY <2>1, <2>5, <2>6
<1> QED
  BY <1>3, <1>4

(* Before is irreflexive, total and transitive.                            *)
LEMMA BeforeOrders ==
  /\ \A a \in Seq(Nat) : ~ Before(a, a)
  /\ \A a, b \in Seq(Nat) : a # b => Before(a, b) \/ Before(b, a)
  /\ \A a, b, c \in Seq(Nat) : Before(a, b) /\ Before(b, c) => Before(a, c)
<1>0. ASSUME NEW a \in Seq(Nat), NEW i \in Nat \ {0} PROVE Padded(a, i) \in Nat
  BY DEF Padded
<1>1. ASSUME NEW a \in Seq(Nat) PROVE ~ Before(a, a)
  <2>1. \A k : ~ DiffersFirst(a, a, k)
    BY <1>0 DEF DiffersFirst
  <2> QED BY <2>1, BeforeIs
<1>2. ASSUME NEW a \in Seq(Nat), NEW b \in Seq(Nat), a # b PROVE Before(a, b) \/ Before(b, a)
  <2> DEFINE D == {i \in Nat \ {0} : Padded(a, i) # Padded(b, i)}
  <2>1. D # {}
    <3> SUFFICES ASSUME \A i \in Nat \ {0} : Padded(a, i) = Padded(b, i) PROVE FALSE
      OBVIOUS
    <3>1. /\ Len(a) \in Nat /\ Len(b) \in Nat /\ DOMAIN a = 1..Len(a) /\ DOMAIN b = 1..Len(b)
          /\ a = [i \in 1..Len(a) |-> a[i]] /\ b = [i \in 1..Len(b) |-> b[i]]
          /\ \A i \in DOMAIN a : a[i] \in Nat
          /\ \A i \in DOMAIN b : b[i] \in Nat
      OBVIOUS
    <3>2. \A i \in Nat \ {0} : i \in DOMAIN a <=> i \in DOMAIN b
      BY <3>1 DEF Padded
    <3>3. Len(a) = Len(b)
      <4>1. ~ (Len(a) < Len(b))
        <5> SUFFICES ASSUME Len(a) < Len(b) PROVE FALSE
          OBVIOUS
        <5>1. Len(b) \in Nat \ {0} /\ Len(b) \in DOMAIN b /\ Len(b) \notin DOMAIN a
          BY <3>1
        <5> QED BY <3>2, <5>1
      <4>2. ~ (Len(b) < Len(a))
        <5> SUFFICES ASSUME Len(b) < Len(a) PROVE FALSE
          OBVIOUS
        <5>1. Len(a) \in Nat \ {0} /\ Len(a) \in DOMAIN a /\ Len(a) \notin DOMAIN b
          BY <3>1
        <5> QED BY <3>2, <5>1
      <4>3. Len(a) \in Int /\ Len(b) \in Int
        BY <3>1
      <4> QED BY ONLY <4>1, <4>2, <4>3
    <3>4. \A i \in 1..Len(a) : a[i] = b[i]
      BY <3>1, <3>2 DEF Padded
    <3>5. a = b
      BY <3>1, <3>3, <3>4
    <3> QED BY <1>2, <3>5
  <2>2. PICK k \in D : \A i \in D : k <= i
    <3>1. D \subseteq Nat
      OBVIOUS
    <3> QED BY <2>1, <3>1, LeastNumber
  <2>3. \A i \in 1..k-1 : Padded(a, i) = Padded(b, i)
    BY <2>2
  <2>4. Padded(a, k) < Padded(b, k) \/ Padded(b, k) < Padded(a, k)
    <3>1. Padded(a, k) \in Nat /\ Padded(b, k) \in Nat /\ Padded(a, k) # Padded(b, k)
      BY <1>0, <2>2
    <3> QED BY <3>1
  <2>5. DiffersFirst(a, b, k) \/ DiffersFirst(b, a, k)
    BY <2>2, <2>3, <2>4 DEF DiffersFirst
  <2> QED BY <2>5, BeforeIs
<1>3. ASSUME NEW a \in Seq(Nat), NEW b \in Seq(Nat), NEW c \in Seq(Nat), Before(a, b), Before(b, c)
      PROVE  Before(a, c)
  <2>1. PICK k : DiffersFirst(a, b, k)
    BY <1>3, BeforeIs
  <2>2. PICK l : DiffersFirst(b, c, l)
    BY <1>3, BeforeIs
  <2> DEFINE m == IF k <= l THEN k ELSE l
  <2>3. k \in Nat \ {0} /\ l \in Nat \ {0} /\ m \in Nat \ {0} /\ m <= k /\ m <= l
    BY <2>1, <2>2 DEF DiffersFirst
  <2>4. /\ Padded(a, m) \in Nat /\ Padded(b, m) \in Nat /\ Padded(c, m) \in Nat
    BY <1>0, <2>3
  <2>5. \A i \in 1..m-1 : i \in 1..k-1 /\ i \in 1..l-1
    BY <2>3
  <2>6. \A i \in 1..m-1 : Padded(a, i) = Padded(c, i)
    BY <2>1, <2>2, <2>5 DEF DiffersFirst
  <2>7. /\ m = k => Padded(a, m) < Padded(b, m)
        /\ m < k => Padded(a, m) = Padded(b, m)
        /\ m = l => Padded(b, m) < Padded(c, m)
        /\ m < l => Padded(b, m) = Padded(c, m)
    <3>1. /\ m < k => m \in 1..k-1
          /\ m < l => m \in 1..l-1
      BY <2>3
    <3> HIDE DEF m
    <3> QED BY <2>1, <2>2, <3>1 DEF DiffersFirst
  <2>8. m = k \/ m = l
    OBVIOUS
  <2> HIDE DEF m
  <2>9. Padded(a, m) < Padded(c, m)
    BY <2>3, <2>4, <2>7, <2>8
  <2>10. DiffersFirst(a, c, m)
    BY <2>3, <2>6, <2>9 DEF DiffersFirst
  <2> QED BY <2>10, BeforeIs
<1> QED
  BY <1>1, <1>2, <1>3

-----------------------------------------------------------------------------
(***************************************************************************)
(* Sorting and removing duplicates.                                        *)
(***************************************************************************)

KeysOrdered(list) == \A i, k \in DOMAIN list : i < k => ~ Before(list[k].key, list[i].key)

KeysRise(list) == \A i, k \in DOMAIN list : i < k => Before(list[i].key, list[k].key)

KeysOnce(list) == \A i, k \in DOMAIN list : list[i].key = list[k].key => i = k

Keyed(R) == \A r \in R : r.key \in Seq(Nat)

(* Where no key comes twice, an order without ties rises.                  *)
LEMMA OrderedOnce ==
  ASSUME NEW R, Keyed(R), NEW list \in Seq(R), KeysOrdered(list), KeysOnce(list)
  PROVE  KeysRise(list)
<1> SUFFICES ASSUME NEW i \in DOMAIN list, NEW k \in DOMAIN list, i < k
             PROVE  Before(list[i].key, list[k].key)
  BY DEF KeysRise
<1>1. list[i] \in R /\ list[k] \in R /\ i # k
  OBVIOUS
<1>2. list[i].key \in Seq(Nat) /\ list[k].key \in Seq(Nat)
  BY <1>1 DEF Keyed
<1>3. list[i].key # list[k].key /\ ~ Before(list[k].key, list[i].key)
  BY <1>1 DEF KeysOrdered, KeysOnce
<1> QED
  BY <1>2, <1>3, BeforeOrders

LEMMA RisingOnce ==
  ASSUME NEW R, Keyed(R), NEW list \in Seq(R), KeysRise(list)
  PROVE  KeysOnce(list)
<1> SUFFICES ASSUME NEW i \in DOMAIN list, NEW k \in DOMAIN list, list[i].key = list[k].key, i # k
             PROVE  FALSE
  BY DEF KeysOnce
<1>1. list[i].key \in Seq(Nat) /\ (i < k \/ k < i)
  BY DEF Keyed
<1>2. Before(list[i].key, list[i].key)
  BY <1>1 DEF KeysRise
<1> QED
  BY <1>1, <1>2, BeforeOrders

(* Where a record goes.                                                    *)
LEMMA InsertionPoint ==
  ASSUME NEW R, Keyed(R), NEW s \in Seq(R), KeysOrdered(s), NEW r \in R
  PROVE  \E p \in 0..Len(s) : \A k \in DOMAIN s : k <= p <=> ~ Before(r.key, s[k].key)
<1> DEFINE n == Len(s)
           After_ == {k \in 1..n : Before(r.key, s[k].key)}
<1>1. n \in Nat /\ DOMAIN s = 1..n /\ \A k \in 1..n : s[k] \in R /\ s[k].key \in Seq(Nat)
  BY DEF Keyed
<1>2. r.key \in Seq(Nat)
  BY DEF Keyed
<1> HIDE DEF n
<1>3. CASE After_ = {}
  <2>1. \A k \in 1..n : k <= n /\ ~ Before(r.key, s[k].key)
    BY <1>1, <1>3
  <2>2. n \in 0..n /\ \A k \in DOMAIN s : k <= n <=> ~ Before(r.key, s[k].key)
    BY <1>1, <2>1
  <2> QED BY <2>2 DEF n
<1>4. CASE After_ # {}
  <2>1. PICK f \in After_ : \A k \in After_ : f <= k
    <3>1. After_ \subseteq Nat
      OBVIOUS
    <3> QED BY <1>4, <3>1, LeastNumber
  <2>2. f \in 1..n /\ Before(r.key, s[f].key) /\ f - 1 \in 0..n
    BY <1>1, <2>1
  <2>3. ASSUME NEW k \in 1..n, k <= f - 1 PROVE ~ Before(r.key, s[k].key)
    BY <2>1, <2>2, <2>3
  <2>4. ASSUME NEW k \in 1..n, ~ (k <= f - 1) PROVE Before(r.key, s[k].key)
    <3>1. CASE k = f
      BY <2>2, <3>1
    <3>2. CASE k # f
      <4>1. f < k
        BY <2>2, <2>4, <3>2
      <4>2. ~ Before(s[k].key, s[f].key)
        BY <1>1, <2>2, <4>1 DEF KeysOrdered
      <4>3. s[f].key = s[k].key \/ Before(s[f].key, s[k].key)
        BY <1>1, <2>2, <4>2, BeforeOrders
      <4> QED BY <1>1, <1>2, <2>2, <4>3, BeforeOrders
    <3> QED BY <3>1, <3>2
  <2>5. \A k \in 1..n : k <= f - 1 <=> ~ Before(r.key, s[k].key)
    BY <2>3, <2>4
  <2> QED BY <1>1, <2>2, <2>5 DEF n
<1> QED
  BY <1>3, <1>4

Puts(t, s, n, p, r) ==
  /\ Len(t) = n + 1
  /\ \A k \in 1..n + 1 :
       /\ k <= p => t[k] = s[k]
       /\ k = p + 1 => t[k] = r
       /\ k > p + 1 => t[k] = s[k - 1]

LEMMA InsertedAt ==
  ASSUME NEW R, NEW n \in Nat, NEW s \in Seq(R), Len(s) = n, NEW r \in R, NEW p \in 0..n
  PROVE  InsertAt(s, p + 1, r) \in Seq(R) /\ Puts(InsertAt(s, p + 1, r), s, n, p, r)
<1> DEFINE a == SubSeq(s, 1, p)
           b == SubSeq(s, p + 1, n)
           c == a \o <<r>>
<1>1. n \in Nat /\ p \in Nat /\ p <= n /\ DOMAIN s = 1..n
  OBVIOUS
<1>2. a \in Seq(R) /\ Len(a) = p /\ \A k \in 1..p : a[k] = s[k]
  BY <1>1
<1>3. b \in Seq(R) /\ Len(b) = n - p /\ \A k \in 1..n-p : b[k] = s[p + k]
  <2>2. b = [k \in 1..(n - (p + 1) + 1) |-> s[p + 1 + k - 1]]
    OBVIOUS
  <2> HIDE DEF b
  <2>3. ASSUME NEW k \in 1..n-p PROVE b[k] = s[p + k]
    <3>1. k \in 1..(n - (p + 1) + 1) /\ p + 1 + k - 1 = p + k
      BY <1>1
    <3>2. b[k] = s[p + 1 + k - 1]
      BY <2>2, <3>1
    <3> QED BY <3>1, <3>2
  <2>4. \A k \in 1..n-p : p + k \in 1..n
    BY <1>1
  <2>5. \A k \in 1..n-p : b[k] \in R
    BY <1>1, <2>3, <2>4
  <2>6. n - (p + 1) + 1 = n - p /\ n - p \in Nat
    BY <1>1
  <2>7. b \in [1..n-p -> R]
    BY <2>2, <2>5, <2>6
  <2>8. b \in Seq(R)
    BY <2>6, <2>7
  <2>9. Len(b) = n - p
    <3>1. DOMAIN b = 1..n-p
      BY <2>7
    <3> QED BY <2>6, <2>8, <3>1
  <2> QED BY <2>3, <2>8, <2>9
<1>4. InsertAt(s, p + 1, r) = c \o b
  <2>1. (p + 1) - 1 = p
    BY <1>1
  <2> QED BY <2>1 DEF InsertAt
<1> HIDE DEF a, b
<1>5. c \in Seq(R) /\ Len(c) = p + 1 /\ (\A k \in 1..p : c[k] = s[k]) /\ c[p + 1] = r
  BY <1>1, <1>2
<1> HIDE DEF c
<1>6. c \o b \in Seq(R) /\ Len(c \o b) = n + 1
  <2>1. Len(c \o b) = Len(c) + Len(b) /\ c \o b \in Seq(R)
    BY <1>3, <1>5, JoinedList
  <2>2. (p + 1) + (n - p) = n + 1
    BY <1>1
  <2> QED BY <1>3, <1>5, <2>1, <2>2
<1>7. ASSUME NEW k \in 1..n + 1
      PROVE  /\ k <= p => (c \o b)[k] = s[k]
             /\ k = p + 1 => (c \o b)[k] = r
             /\ k > p + 1 => (c \o b)[k] = s[k - 1]
  <2>1. CASE k <= p + 1
    <3>1. (c \o b)[k] = c[k]
      BY <1>1, <1>3, <1>5, <2>1
    <3> QED BY <1>1, <1>5, <2>1, <3>1
  <2>2. CASE k > p + 1
    <3> DEFINE j == k - (p + 1)
    <3>1. j \in 1..n-p /\ p + j = k - 1 /\ ~ (k <= p) /\ k # p + 1
      BY <1>1, <2>2
    <3>2. (c \o b)[k] = b[j]
      BY <1>1, <1>3, <1>5, <2>2
    <3> HIDE DEF j
    <3> QED BY <1>3, <3>1, <3>2
  <2>3. k <= p + 1 \/ k > p + 1
    BY <1>1
  <2> QED BY <2>1, <2>2, <2>3
<1> QED
  BY <1>4, <1>6, <1>7 DEF Puts

LEMMA InsertedFacts ==
  ASSUME NEW R, Keyed(R), NEW s \in Seq(R), KeysOrdered(s), NEW r \in R
  PROVE  /\ Inserted(s, r) \in Seq(R) /\ ToSet(Inserted(s, r)) = ToSet(s) \cup {r}
         /\ KeysOrdered(Inserted(s, r))
         /\ KeysOnce(s) /\ (\A k \in DOMAIN s : s[k].key # r.key) => KeysOnce(Inserted(s, r))
<1> DEFINE n == Len(s)
           t == Inserted(s, r)
           earlier == {k \in DOMAIN s : ~ Before(r.key, s[k].key)}
           p == CHOOSE p \in 0..n : earlier = 1..p
<1>1. n \in Nat /\ DOMAIN s = 1..n /\ \A k \in 1..n : s[k] \in R
  OBVIOUS
<1>2. p \in 0..n /\ \A k \in DOMAIN s : k <= p <=> ~ Before(r.key, s[k].key)
  <2>1. PICK q \in 0..n : \A k \in DOMAIN s : k <= q <=> ~ Before(r.key, s[k].key)
    BY InsertionPoint
  <2>2. earlier = 1..q
    BY <1>1, <2>1
  <2>3. p \in 0..n /\ earlier = 1..p
    BY <2>2
  <2> HIDE DEF p
  <2> QED BY <1>1, <2>3
<1>3. t = InsertAt(s, p + 1, r)
  BY DEF Inserted
<1> HIDE DEF p
<1>0. p \in 0..Len(s) /\ Len(s) = n
  BY <1>2
<1> HIDE DEF t, n
<1>4. t \in Seq(R) /\ Puts(t, s, n, p, r)
  BY <1>0, <1>1, <1>3, InsertedAt
<1>5. DOMAIN t = 1..n + 1 /\ p \in Nat /\ p <= n
  BY <1>0, <1>1, <1>4 DEF Puts
<1>6. \A k \in 1..n + 1 : /\ k <= p => k \in 1..n /\ t[k] = s[k]
                          /\ k = p + 1 => t[k] = r
                          /\ k > p + 1 => k - 1 \in 1..n /\ t[k] = s[k - 1]
  <2> SUFFICES ASSUME NEW k \in 1..n + 1
               PROVE  /\ k <= p => k \in 1..n /\ t[k] = s[k]
                      /\ k = p + 1 => t[k] = r
                      /\ k > p + 1 => k - 1 \in 1..n /\ t[k] = s[k - 1]
    OBVIOUS
  <2>1. /\ k <= p => k \in 1..n
        /\ k > p + 1 => k - 1 \in 1..n
    BY <1>1, <1>5
  <2>2. \A j \in 1..n + 1 : /\ j <= p => t[j] = s[j]
                            /\ j = p + 1 => t[j] = r
                            /\ j > p + 1 => t[j] = s[j - 1]
    BY <1>4 DEF Puts
  <2> QED BY <2>1, <2>2
<1>7. \A k \in 1..n : /\ k <= p => k \in 1..n + 1 /\ t[k] = s[k]
                      /\ k > p => k + 1 \in 1..n + 1 /\ t[k + 1] = s[k]
  <2> SUFFICES ASSUME NEW k \in 1..n
               PROVE  /\ k <= p => k \in 1..n + 1 /\ t[k] = s[k]
                      /\ k > p => k + 1 \in 1..n + 1 /\ t[k + 1] = s[k]
    OBVIOUS
  <2>1. k \in 1..n + 1 /\ k + 1 \in 1..n + 1 /\ (k + 1) - 1 = k
    BY <1>1
  <2>2. k > p => k + 1 > p + 1
    BY <1>5
  <2> QED BY <1>6, <2>1, <2>2
<1>8. p + 1 \in 1..n + 1 /\ t[p + 1] = r
  BY <1>1, <1>5, <1>6
<1>9. ToSet(t) = ToSet(s) \cup {r}
  <2>1. \A x \in ToSet(t) : x \in ToSet(s) \/ x = r
    <3> SUFFICES ASSUME NEW k \in 1..n + 1 PROVE t[k] \in ToSet(s) \/ t[k] = r
      BY <1>5 DEF ToSet
    <3>1. k <= p \/ k = p + 1 \/ k > p + 1
      BY <1>1, <1>5
    <3> QED BY <1>1, <1>6, <3>1 DEF ToSet
  <2>2. \A x \in ToSet(s) : x \in ToSet(t)
    <3> SUFFICES ASSUME NEW k \in 1..n PROVE s[k] \in ToSet(t)
      BY <1>1 DEF ToSet
    <3>1. k <= p \/ k > p
      BY <1>1, <1>5
    <3> QED BY <1>5, <1>7, <3>1 DEF ToSet
  <2>3. r \in ToSet(t)
    BY <1>5, <1>8 DEF ToSet
  <2> QED BY <2>1, <2>2, <2>3
<1>10. KeysOrdered(t)
  <2> SUFFICES ASSUME NEW i \in 1..n + 1, NEW k \in 1..n + 1, i < k
               PROVE  ~ Before(t[k].key, t[i].key)
    BY <1>5 DEF KeysOrdered
  <2>0. \A j \in 1..n : s[j].key \in Seq(Nat)
    BY <1>1 DEF Keyed
  <2>1. CASE k <= p
    <3>1. i <= p
      BY <1>5, <2>1
    <3> QED BY <1>1, <1>6, <2>1, <3>1 DEF KeysOrdered
  <2>2. CASE k = p + 1
    <3>1. i <= p /\ i \in 1..n
      BY <1>1, <1>5, <2>2
    <3> QED BY <1>1, <1>2, <1>6, <2>2, <3>1
  <2>3. CASE k > p + 1
    <3>1. k - 1 \in 1..n /\ t[k] = s[k - 1] /\ ~ (k - 1 <= p)
      BY <1>5, <1>6, <2>3
    <3>2. CASE i <= p
      <4>1. i \in 1..n /\ t[i] = s[i] /\ i < k - 1
        BY <1>5, <1>6, <2>3, <3>2
      <4> QED BY <1>1, <3>1, <4>1 DEF KeysOrdered
    <3>3. CASE i = p + 1
      <4>1. Before(r.key, s[k - 1].key) /\ t[i] = r
        BY <1>1, <1>2, <1>6, <3>1, <3>3
      <4>2. r.key \in Seq(Nat) /\ s[k - 1].key \in Seq(Nat)
        BY <2>0, <3>1 DEF Keyed
      <4>3. ~ Before(s[k - 1].key, r.key)
        BY <4>1, <4>2, BeforeOrders
      <4> QED BY <3>1, <4>1, <4>3
    <3>4. CASE i > p + 1
      <4>1. i - 1 \in 1..n /\ t[i] = s[i - 1] /\ i - 1 < k - 1
        BY <1>6, <3>4
      <4> QED BY <1>1, <3>1, <4>1 DEF KeysOrdered
    <3> QED BY <1>5, <3>2, <3>3, <3>4
  <2> QED BY <1>5, <2>1, <2>2, <2>3
<1>11. ASSUME KeysOnce(s), \A k \in DOMAIN s : s[k].key # r.key PROVE KeysOnce(t)
  <2> SUFFICES ASSUME NEW i \in 1..n + 1, NEW k \in 1..n + 1, t[k].key = t[i].key PROVE i = k
    BY <1>5 DEF KeysOnce
  <2>1. ASSUME NEW j \in 1..n + 1
        PROVE  \/ j <= p /\ j \in 1..n /\ t[j] = s[j]
               \/ j = p + 1 /\ t[j] = r
               \/ j > p + 1 /\ j - 1 \in 1..n /\ t[j] = s[j - 1]
    <3>1. j <= p \/ j = p + 1 \/ j > p + 1
      BY <1>5
    <3> QED BY <1>6, <3>1
  <2>2. \A j, l \in 1..n : s[j].key = s[l].key => j = l
    BY <1>1, <1>11 DEF KeysOnce
  <2>3. \A j \in 1..n : s[j].key # r.key
    BY <1>1, <1>11
  <2>4. CASE i <= p /\ i \in 1..n /\ t[i] = s[i]
    <3>1. k <= p => i = k
      BY <1>5, <2>1, <2>2, <2>4
    <3>2. k # p + 1
      BY <1>5, <2>1, <2>3, <2>4
    <3>3. ~ (k > p + 1)
      <4> SUFFICES ASSUME k > p + 1 PROVE FALSE
        OBVIOUS
      <4>1. k - 1 \in 1..n /\ t[k] = s[k - 1] /\ k - 1 # i
        BY <1>5, <1>6, <2>4
      <4> QED BY <2>2, <2>4, <4>1
    <3> QED BY <1>5, <3>1, <3>2, <3>3
  <2>5. CASE i = p + 1 /\ t[i] = r
    BY <1>5, <2>1, <2>3, <2>5
  <2>6. CASE i > p + 1 /\ i - 1 \in 1..n /\ t[i] = s[i - 1]
    <3>1. ~ (k <= p)
      <4> SUFFICES ASSUME k <= p PROVE FALSE
        OBVIOUS
      <4>1. k \in 1..n /\ t[k] = s[k] /\ i - 1 # k
        BY <1>5, <1>6, <2>6
      <4> QED BY <2>2, <2>6, <4>1
    <3>2. k # p + 1
      BY <1>5, <1>6, <2>3, <2>6
    <3>3. k > p + 1 => i = k
      <4> SUFFICES ASSUME k > p + 1 PROVE i = k
        OBVIOUS
      <4>1. k - 1 \in 1..n /\ t[k] = s[k - 1]
        BY <1>6
      <4>2. i - 1 = k - 1
        BY <2>2, <2>6, <4>1
      <4> QED BY <4>2
    <3> QED BY <1>5, <3>1, <3>2, <3>3
  <2> QED BY <2>1, <2>4, <2>5, <2>6
<1> QED
  BY <1>4, <1>9, <1>10, <1>11 DEF t

LEMMA KeyOrderSteps ==
  ASSUME NEW list, Len(list) \in Nat
  PROVE  \E f : /\ f[0] = <<>> /\ InKeyOrder(list) = f[Len(list)]
                /\ \A n \in 1..Len(list) : f[n] = Inserted(f[n - 1], list[n])
<1> DEFINE IsSort(f) == f = [n \in 0..Len(list) |-> IF n = 0 THEN <<>> ELSE Inserted(f[n - 1], list[n])]
           sorted == CHOOSE f : IsSort(f)
           G == {k \in 0..Len(list) :
                   \E f : f = [n \in 0..k |-> IF n = 0 THEN <<>> ELSE Inserted(f[n - 1], list[n])]}
<1>0. Len(list) \in Nat
  OBVIOUS
<1>1. 0 \in G
  <2> DEFINE f == [n \in 0..0 |-> <<>>]
  <2>1. f = [n \in 0..0 |-> IF n = 0 THEN <<>> ELSE Inserted(f[n - 1], list[n])]
    OBVIOUS
  <2> HIDE DEF f
  <2> QED BY <1>0, <2>1
<1>2. ASSUME NEW k \in 1..Len(list), k - 1 \in G PROVE k \in G
  <2>1. PICK f : f = [n \in 0..k-1 |-> IF n = 0 THEN <<>> ELSE Inserted(f[n - 1], list[n])]
    BY <1>2
  <2> DEFINE h == [i \in 0..k |-> IF i < k THEN f[i] ELSE Inserted(f[i - 1], list[i])]
  <2>2. \A i \in 0..k-1 : f[i] = IF i = 0 THEN <<>> ELSE Inserted(f[i - 1], list[i])
    BY <2>1
  <2>3. ASSUME NEW i \in 0..k PROVE h[i] = IF i = 0 THEN <<>> ELSE Inserted(h[i - 1], list[i])
    <3>1. CASE i < k
      <4>1. i \in 0..k-1 /\ (i # 0 => i - 1 \in 0..k /\ i - 1 < k)
        BY <3>1
      <4> QED BY <2>2, <3>1, <4>1
    <3>2. CASE i = k
      BY <3>2
    <3> QED BY <3>1, <3>2
  <2> HIDE DEF h
  <2>4. h = [n \in 0..k |-> IF n = 0 THEN <<>> ELSE Inserted(h[n - 1], list[n])]
    BY <2>3 DEF h
  <2>5. k \in 0..Len(list)
    OBVIOUS
  <2> QED BY <2>4, <2>5
<1>3. Len(list) \in G
  BY <1>0, <1>1, <1>2, Upto
<1>4. IsSort(sorted)
  <2>1. \E f : IsSort(f)
    BY <1>3
  <2> QED BY <2>1
<1>5. InKeyOrder(list) = sorted[Len(list)]
  BY DEF InKeyOrder
<1> HIDE DEF sorted
<1>6. sorted[0] = <<>> /\ \A n \in 1..Len(list) : sorted[n] = Inserted(sorted[n - 1], list[n])
  BY <1>0, <1>4
<1> QED
  BY <1>5, <1>6

(* InKeyOrder keeps what a list has, and puts it in the order of the keys. *)
LEMMA KeyOrderFacts ==
  ASSUME NEW R, Keyed(R), NEW list \in Seq(R)
  PROVE  /\ InKeyOrder(list) \in Seq(R) /\ ToSet(InKeyOrder(list)) = ToSet(list)
         /\ KeysOrdered(InKeyOrder(list))
         /\ KeysOnce(list) => KeysOnce(InKeyOrder(list))
<1>1. Len(list) \in Nat /\ DOMAIN list = 1..Len(list) /\ \A k \in 1..Len(list) : list[k] \in R
  OBVIOUS
<1>2. PICK f : /\ f[0] = <<>> /\ InKeyOrder(list) = f[Len(list)]
               /\ \A n \in 1..Len(list) : f[n] = Inserted(f[n - 1], list[n])
  BY <1>1, KeyOrderSteps
<1> DEFINE Sorted(n) == /\ f[n] \in Seq(R) /\ ToSet(f[n]) = {list[k] : k \in 1..n}
                        /\ KeysOrdered(f[n])
                        /\ KeysOnce(list) => KeysOnce(f[n])
           G == {n \in 0..Len(list) : Sorted(n)}
<1>3. Sorted(0)
  <2>1. <<>> \in Seq(R) /\ ToSet(<<>>) = {} /\ {list[k] : k \in 1..0} = {}
    BY DEF ToSet
  <2>2. KeysOrdered(<<>>) /\ KeysOnce(<<>>)
    BY DEF KeysOrdered, KeysOnce
  <2> QED BY <1>2, <2>1, <2>2
<1>4. ASSUME NEW n \in 1..Len(list), Sorted(n - 1) PROVE Sorted(n)
  <2> DEFINE s == f[n - 1]
             t == Inserted(s, list[n])
  <2>1. s \in Seq(R) /\ KeysOrdered(s) /\ ToSet(s) = {list[k] : k \in 1..n-1}
    BY <1>4
  <2>2. list[n] \in R /\ f[n] = t
    BY <1>1, <1>2
  <2>3. KeysOnce(list) => KeysOnce(s)
    BY <1>4
  <2>4. ASSUME KeysOnce(list), NEW k \in DOMAIN s PROVE s[k].key # list[n].key
    <3>1. PICK j \in 1..n-1 : s[k] = list[j]
      <4>1. s[k] \in ToSet(s)
        BY DEF ToSet
      <4> HIDE DEF s
      <4> QED BY <2>1, <4>1
    <3>2. j \in DOMAIN list /\ n \in DOMAIN list /\ j # n
      BY <1>1
    <3> QED BY <2>4, <3>1, <3>2 DEF KeysOnce
  <2> HIDE DEF s
  <2>5. /\ t \in Seq(R) /\ ToSet(t) = ToSet(s) \cup {list[n]} /\ KeysOrdered(t)
        /\ KeysOnce(s) /\ (\A k \in DOMAIN s : s[k].key # list[n].key) => KeysOnce(t)
    <3> DEFINE r == list[n]
    <3>1. r \in R /\ t = Inserted(s, r)
      BY <2>2
    <3> HIDE DEF r, t
    <3>2. /\ t \in Seq(R) /\ ToSet(t) = ToSet(s) \cup {r} /\ KeysOrdered(t)
          /\ KeysOnce(s) /\ (\A k \in DOMAIN s : s[k].key # r.key) => KeysOnce(t)
      <4>1. s \in Seq(R) /\ KeysOrdered(s) /\ r \in R /\ Keyed(R)
        BY <2>1, <3>1
      <4>2. /\ Inserted(s, r) \in Seq(R) /\ ToSet(Inserted(s, r)) = ToSet(s) \cup {r}
            /\ KeysOrdered(Inserted(s, r))
            /\ KeysOnce(s) /\ (\A k \in DOMAIN s : s[k].key # r.key) => KeysOnce(Inserted(s, r))
        BY ONLY <4>1, InsertedFacts
      <4> QED BY <3>1, <4>2
    <3> QED BY <3>2 DEF r
  <2>6. KeysOnce(list) => KeysOnce(t)
    BY <2>3, <2>4, <2>5
  <2> HIDE DEF t
  <2>7. ToSet(t) = {list[k] : k \in 1..n}
    <3>1. 1..n = (1..n-1) \cup {n}
      BY <1>1
    <3> QED BY <2>1, <2>5, <3>1
  <2> QED BY <2>2, <2>5, <2>6, <2>7
<1> HIDE DEF Sorted
<1>5. 0 \in G /\ \A n \in 1..Len(list) : n - 1 \in G => n \in G
  BY <1>1, <1>3, <1>4
<1>6. Len(list) \in G
  BY <1>1, <1>5, Upto
<1>7. ToSet(list) = {list[k] : k \in 1..Len(list)}
  BY <1>1 DEF ToSet
<1> QED
  BY <1>2, <1>6, <1>7 DEF Sorted

LEMMA DeduplicatedSteps ==
  ASSUME NEW list, Len(list) \in Nat
  PROVE  \E f : /\ f[0] = <<>> /\ Deduplicated(list) = f[Len(list)]
                /\ \A n \in 1..Len(list) :
                     f[n] = IF n > 1 /\ list[n - 1].key = list[n].key THEN f[n - 1]
                            ELSE Append(f[n - 1], list[n])
<1> DEFINE next(n, s) == IF n > 1 /\ list[n - 1].key = list[n].key THEN s ELSE Append(s, list[n])
           IsKept(f) == f = [n \in 0..Len(list) |-> IF n = 0 THEN <<>> ELSE next(n, f[n - 1])]
           kept == CHOOSE f : IsKept(f)
           G == {k \in 0..Len(list) :
                   \E f : f = [n \in 0..k |-> IF n = 0 THEN <<>> ELSE next(n, f[n - 1])]}
<1>5. Deduplicated(list) = kept[Len(list)]
  <2> DEFINE Written(f) == f = [n \in 0..Len(list) |->
                IF n = 0 THEN <<>>
                ELSE IF n > 1 /\ list[n - 1].key = list[n].key THEN f[n - 1]
                ELSE Append(f[n - 1], list[n])]
  <2>1. Deduplicated(list) = (CHOOSE f : Written(f))[Len(list)]
    BY DEF Deduplicated
  <2>2. \A f : Written(f) <=> IsKept(f)
    OBVIOUS
  <2> HIDE DEF Written, IsKept
  <2>3. (CHOOSE f : Written(f)) = kept
    BY <2>2
  <2> QED BY <2>1, <2>3
<1> HIDE DEF next
<1>1. 0 \in G
  <2> DEFINE f == [n \in 0..0 |-> <<>>]
  <2>1. f = [n \in 0..0 |-> IF n = 0 THEN <<>> ELSE next(n, f[n - 1])]
    OBVIOUS
  <2> HIDE DEF f
  <2> QED BY <2>1
<1>2. ASSUME NEW k \in 1..Len(list), k - 1 \in G PROVE k \in G
  <2>1. PICK f : f = [n \in 0..k-1 |-> IF n = 0 THEN <<>> ELSE next(n, f[n - 1])]
    BY <1>2
  <2> DEFINE h == [i \in 0..k |-> IF i < k THEN f[i] ELSE next(i, f[i - 1])]
  <2>2. \A i \in 0..k-1 : f[i] = IF i = 0 THEN <<>> ELSE next(i, f[i - 1])
    BY <2>1
  <2>3. ASSUME NEW i \in 0..k PROVE h[i] = IF i = 0 THEN <<>> ELSE next(i, h[i - 1])
    <3>1. CASE i < k
      <4>1. i \in 0..k-1 /\ (i # 0 => i - 1 \in 0..k /\ i - 1 < k)
        BY <3>1
      <4> QED BY <2>2, <3>1, <4>1
    <3>2. CASE i = k
      BY <3>2
    <3> QED BY <3>1, <3>2
  <2> HIDE DEF h
  <2>4. h = [n \in 0..k |-> IF n = 0 THEN <<>> ELSE next(n, h[n - 1])]
    BY <2>3 DEF h
  <2>5. k \in 0..Len(list)
    OBVIOUS
  <2> QED BY <2>4, <2>5
<1>3. Len(list) \in G
  BY <1>1, <1>2, Upto
<1>4. IsKept(kept)
  <2>1. \E f : IsKept(f)
    BY <1>3
  <2> QED BY <2>1
<1> HIDE DEF kept
<1>6. kept[0] = <<>> /\ \A n \in 1..Len(list) : kept[n] = next(n, kept[n - 1])
  BY <1>4
<1> QED
  BY <1>5, <1>6 DEF next

(* Deduplicated leaves one record for each key of a sorted list.           *)
LEMMA DeduplicatedFacts ==
  ASSUME NEW R, Keyed(R), NEW list \in Seq(R), KeysOrdered(list)
  PROVE  /\ Deduplicated(list) \in Seq(R) /\ KeysRise(Deduplicated(list))
         /\ ToSet(Deduplicated(list)) \subseteq ToSet(list)
         /\ \A r \in ToSet(list) : \E s \in ToSet(Deduplicated(list)) : s.key = r.key
<1>1. Len(list) \in Nat /\ DOMAIN list = 1..Len(list) /\ \A k \in 1..Len(list) : list[k] \in R
  OBVIOUS
<1>2. PICK f : /\ f[0] = <<>> /\ Deduplicated(list) = f[Len(list)]
               /\ \A n \in 1..Len(list) :
                    f[n] = IF n > 1 /\ list[n - 1].key = list[n].key THEN f[n - 1]
                           ELSE Append(f[n - 1], list[n])
  BY <1>1, DeduplicatedSteps
<1> DEFINE Kept(n) == /\ f[n] \in Seq(R) /\ KeysRise(f[n])
                      /\ \A i \in DOMAIN f[n] : \E k \in 1..n : f[n][i] = list[k]
                      /\ \A k \in 1..n : \E i \in DOMAIN f[n] : f[n][i].key = list[k].key
           G == {n \in 0..Len(list) : Kept(n)}
<1>3. Kept(0)
  <2>1. <<>> \in Seq(R) /\ KeysRise(<<>>) /\ DOMAIN <<>> = {}
    BY DEF KeysRise
  <2> QED BY <1>2, <2>1
<1>4. ASSUME NEW n \in 1..Len(list), Kept(n - 1) PROVE Kept(n)
  <2> DEFINE s == f[n - 1]
             r == list[n]
  <2>1. /\ s \in Seq(R) /\ KeysRise(s)
        /\ \A i \in DOMAIN s : \E k \in 1..n-1 : s[i] = list[k]
        /\ \A k \in 1..n-1 : \E i \in DOMAIN s : s[i].key = list[k].key
    BY <1>4
  <2>2. f[n] = IF n > 1 /\ list[n - 1].key = r.key THEN s ELSE Append(s, r)
    BY <1>2
  <2>3. r \in R /\ n \in Nat /\ \A k \in 1..n : k \in 1..n-1 \/ k = n
    BY <1>1
  <2>4. \A k \in 1..n-1 : k \in 1..n
    OBVIOUS
  <2>5. list[n] = r
    OBVIOUS
  <2> HIDE DEF s, r
  <2>6. CASE n > 1 /\ list[n - 1].key = r.key
    <3>1. f[n] = s
      BY <2>2, <2>6
    <3>2. n - 1 \in 1..n-1
      BY <2>3, <2>6
    <3>3. \E i \in DOMAIN s : s[i].key = r.key
      BY <2>1, <2>6, <3>2
    <3>4. \A k \in 1..n : \E i \in DOMAIN s : s[i].key = list[k].key
      BY <2>1, <2>3, <2>5, <3>3
    <3>5. \A i \in DOMAIN s : \E k \in 1..n : s[i] = list[k]
      BY <2>1, <2>4
    <3> QED BY <2>1, <3>1, <3>4, <3>5
  <2>7. CASE ~ (n > 1 /\ list[n - 1].key = r.key)
    <3> DEFINE t == Append(s, r)
    <3>1. f[n] = t
      BY <2>2, <2>7
    <3>2. /\ t \in Seq(R) /\ DOMAIN t = 1..Len(s)+1 /\ DOMAIN s = 1..Len(s) /\ Len(s) \in Nat
          /\ \A i \in 1..Len(s) : t[i] = s[i]
          /\ t[Len(s) + 1] = r
      BY <2>1, <2>3
    <3> HIDE DEF t
    <3>3. ASSUME NEW k \in 1..n-1 PROVE Before(list[k].key, r.key)
      <4>1. n > 1 /\ n - 1 \in 1..n-1 /\ n - 1 \in DOMAIN list /\ n \in DOMAIN list /\ k \in DOMAIN list
        BY <1>1, <2>3
      <4>2. list[n - 1].key # r.key /\ ~ Before(r.key, list[n - 1].key)
        BY <2>5, <2>7, <4>1 DEF KeysOrdered
      <4>3. list[n - 1].key \in Seq(Nat) /\ r.key \in Seq(Nat) /\ list[k].key \in Seq(Nat)
        BY <1>1, <2>3, <4>1 DEF Keyed
      <4>4. Before(list[n - 1].key, r.key)
        BY <4>2, <4>3, BeforeOrders
      <4>5. CASE k = n - 1
        BY <4>4, <4>5
      <4>6. CASE k # n - 1
        <5>1. k < n - 1
          BY <4>6
        <5>2. ~ Before(list[n - 1].key, list[k].key)
          BY <4>1, <5>1 DEF KeysOrdered
        <5>3. list[k].key = list[n - 1].key \/ Before(list[k].key, list[n - 1].key)
          BY <4>3, <5>2, BeforeOrders
        <5> QED BY <4>3, <4>4, <5>3, BeforeOrders
      <4> QED BY <4>5, <4>6
    <3>4. KeysRise(t)
      <4> SUFFICES ASSUME NEW i \in 1..Len(s)+1, NEW k \in 1..Len(s)+1, i < k
                   PROVE  Before(t[i].key, t[k].key)
        BY <3>2 DEF KeysRise
      <4>1. i \in 1..Len(s) /\ t[i] = s[i]
        BY <3>2
      <4>2. CASE k \in 1..Len(s)
        BY <2>1, <3>2, <4>1, <4>2 DEF KeysRise
      <4>3. CASE k = Len(s) + 1
        <5>1. PICK j \in 1..n-1 : s[i] = list[j]
          BY <2>1, <3>2, <4>1
        <5> QED BY <3>2, <3>3, <4>1, <4>3, <5>1
      <4> QED BY <3>2, <4>2, <4>3
    <3>5. ASSUME NEW i \in DOMAIN t PROVE \E k \in 1..n : t[i] = list[k]
      <4>1. CASE i \in 1..Len(s)
        BY <2>1, <2>4, <3>2, <4>1
      <4>2. CASE i = Len(s) + 1
        <5>1. n \in 1..n
          BY <2>3
        <5> QED BY <2>5, <3>2, <4>2, <5>1
      <4> QED BY <3>2, <4>1, <4>2
    <3>6. ASSUME NEW k \in 1..n PROVE \E i \in DOMAIN t : t[i].key = list[k].key
      <4>1. CASE k \in 1..n-1
        <5>1. PICK i \in DOMAIN s : s[i].key = list[k].key
          BY <2>1, <4>1
        <5>2. i \in DOMAIN t /\ t[i] = s[i]
          BY <3>2
        <5> QED BY <5>1, <5>2
      <4>2. CASE k = n
        <5>1. Len(s) + 1 \in DOMAIN t
          BY <3>2
        <5> QED BY <2>5, <3>2, <4>2, <5>1
      <4> QED BY <2>3, <4>1, <4>2
    <3> QED BY <3>1, <3>2, <3>4, <3>5, <3>6
  <2> QED BY <2>6, <2>7
<1> HIDE DEF Kept
<1>5. 0 \in G /\ \A n \in 1..Len(list) : n - 1 \in G => n \in G
  BY <1>1, <1>3, <1>4
<1>6. Kept(Len(list))
  BY <1>1, <1>5, Upto
<1> DEFINE d == Deduplicated(list)
<1>7. /\ d \in Seq(R) /\ KeysRise(d)
      /\ \A i \in DOMAIN d : \E k \in 1..Len(list) : d[i] = list[k]
      /\ \A k \in 1..Len(list) : \E i \in DOMAIN d : d[i].key = list[k].key
  BY <1>2, <1>6 DEF Kept
<1> HIDE DEF d
<1>8. ToSet(d) \subseteq ToSet(list)
  BY <1>1, <1>7 DEF ToSet
<1>9. \A r \in ToSet(list) : \E s \in ToSet(d) : s.key = r.key
  BY <1>1, <1>7 DEF ToSet
<1> QED
  BY <1>7, <1>8, <1>9 DEF d

-----------------------------------------------------------------------------
(***************************************************************************)
(* Keys and their digests.                                                 *)
(***************************************************************************)

LEMMA Codes ==
  /\ IdentityDomain["module"] = 1 /\ IdentityDomain["definition"] = 2 /\ IdentityDomain["type"] = 3
  /\ IdentityDomain["pool"] = 4 /\ IdentityDomain["specialization"] = 5
  /\ IdentityDomain["generated"] = 6 /\ IdentityDomain["source_site"] = 7 /\ IdentityDomain["test"] = 8
  /\ IdentityOrigin["project"] = 1 /\ IdentityOrigin["authenticated"] = 2
  /\ IdentityOrigin["generated"] = 3
BY DEF IdentityDomain, IdentityOrigin

LEMMA Kinds ==
  /\ \A k \in DOMAIN KindName : KindName[k] \in Nat
  /\ \A k, l \in DOMAIN KindName : KindName[k] = KindName[l] => k = l
BY DEF KindName

LEMMA JoinedNumbers ==
  ASSUME NEW a \in Seq(Nat), NEW b \in Seq(Nat)
  PROVE  /\ a \o b \in Seq(Nat) /\ Len(a \o b) = Len(a) + Len(b)
         /\ \A i \in 1..Len(a) : (a \o b)[i] = a[i]
         /\ \A i \in 1..Len(b) : (a \o b)[Len(a) + i] = b[i]
<1>1. Len(a) \in Nat /\ Len(b) \in Nat
  OBVIOUS
<1>2. ASSUME NEW i \in 1..Len(a) PROVE (a \o b)[i] = a[i]
  BY <1>1
<1>3. ASSUME NEW i \in 1..Len(b) PROVE (a \o b)[Len(a) + i] = b[i]
  BY <1>1
<1> QED
  BY <1>2, <1>3

LEMMA PrefixedParts ==
  ASSUME NEW n \in Nat, NEW parts, parts = [i \in 1..n |-> parts[i]],
         \A i \in 1..n : parts[i] \in Seq(Nat)
  PROVE  /\ Prefixed(parts) \in Seq(Nat)
         /\ n = 0 => Prefixed(parts) = <<>>
         /\ n > 0 => Prefixed(parts) = Prefixed([i \in 1..n-1 |-> parts[i]])
                                       \o (<<Len(parts[n])>> \o parts[n])
<1> DEFINE s == [i \in DOMAIN parts |-> <<Len(parts[i])>> \o parts[i]]
<1>1. DOMAIN parts = 1..n
  OBVIOUS
<1>2. s = [i \in 1..n |-> s[i]] /\ \A i \in 1..n : s[i] = <<Len(parts[i])>> \o parts[i]
  BY <1>1
<1>3. ASSUME NEW i \in 1..n PROVE s[i] \in Seq(Nat) /\ s[i] \in Seq(ToSet(s[i]))
  <2>1. s[i] \in Seq(Nat)
    BY <1>2
  <2> HIDE DEF s
  <2> QED BY <2>1, OwnSequence
<1>4. Prefixed(parts) = FlattenSeq(s)
  BY DEF Prefixed
<1>5. n > 0 => Prefixed([i \in 1..n-1 |-> parts[i]]) = FlattenSeq([i \in 1..n-1 |-> s[i]])
  <2> SUFFICES ASSUME n > 0
               PROVE  Prefixed([i \in 1..n-1 |-> parts[i]]) = FlattenSeq([i \in 1..n-1 |-> s[i]])
    OBVIOUS
  <2> DEFINE p == [i \in 1..n-1 |-> parts[i]]
  <2>1. DOMAIN p = 1..n-1 /\ \A i \in 1..n-1 : p[i] = parts[i] /\ i \in 1..n
    OBVIOUS
  <2>2. Prefixed(p) = FlattenSeq([i \in DOMAIN p |-> <<Len(p[i])>> \o p[i]])
    BY DEF Prefixed
  <2> HIDE DEF p
  <2>3. [i \in DOMAIN p |-> <<Len(p[i])>> \o p[i]] = [i \in 1..n-1 |-> s[i]]
    BY <1>1, <2>1
  <2> HIDE DEF s
  <2> QED BY <2>2, <2>3 DEF p
<1> HIDE DEF s
<1>6. FlattenSeq(s) \in Seq(Nat)
  BY <1>2, <1>3, FlattenedList
<1>7. /\ n = 0 => FlattenSeq(s) = <<>>
      /\ n > 0 => FlattenSeq(s) = FlattenSeq([i \in 1..n-1 |-> s[i]]) \o s[n]
  BY <1>2, <1>3, FlattenLast
<1>8. n > 0 => s[n] = <<Len(parts[n])>> \o parts[n]
  <2>1. n > 0 => n \in 1..n
    OBVIOUS
  <2> QED BY <1>2, <2>1
<1> QED
  BY <1>4, <1>5, <1>6, <1>7, <1>8

(* The domain, the origin and the prefixed parts of a key.                 *)
Heads(key, domain, origin, b) ==
  /\ key \in Seq(Nat) /\ Len(key) = 4 + Len(b) /\ key[2] = domain /\ key[4] = origin
  /\ \A i \in 5..4 + Len(b) : key[i] = b[i - 4]

LEMMA KeyBegins ==
  ASSUME NEW domain, IdentityDomain[domain] \in Nat, NEW origin, IdentityOrigin[origin] \in Nat,
         NEW parts, NEW b \in Seq(Nat), b = Prefixed(parts),
         NEW key, key = KeyOf(domain, origin, parts)
  PROVE  Heads(key, IdentityDomain[domain], IdentityOrigin[origin], b)
<1> DEFINE h == <<1, IdentityDomain[domain], 1, IdentityOrigin[origin]>>
<1>1. /\ h \in Seq(Nat) /\ Len(h) = 4 /\ h[2] = IdentityDomain[domain]
      /\ h[4] = IdentityOrigin[origin]
  OBVIOUS
<1>2. key = h \o b
  BY DEF KeyOf
<1> HIDE DEF h
<1>3. /\ h \o b \in Seq(Nat) /\ Len(h \o b) = Len(h) + Len(b)
      /\ \A i \in 1..Len(h) : (h \o b)[i] = h[i]
      /\ \A i \in 1..Len(b) : (h \o b)[Len(h) + i] = b[i]
  BY <1>1, JoinedNumbers
<1>4. Len(h) = 4 /\ 2 \in 1..Len(h) /\ 4 \in 1..Len(h)
  BY <1>1
<1>5. key[2] = h[2] /\ key[4] = h[4]
  BY <1>2, <1>3, <1>4
<1>6. \A i \in 5..4 + Len(b) : key[i] = b[i - 4]
  <2> SUFFICES ASSUME NEW i \in 5..4 + Len(b) PROVE key[i] = b[i - 4]
    OBVIOUS
  <2>1. i - 4 \in 1..Len(b) /\ Len(h) + (i - 4) = i
    BY <1>1
  <2>2. (h \o b)[Len(h) + (i - 4)] = b[i - 4]
    BY <1>3, <2>1
  <2> QED BY <1>2, <2>1, <2>2
<1> QED
  BY <1>1, <1>2, <1>3, <1>5, <1>6 DEF Heads

LEMMA Prefixed1 ==
  ASSUME NEW x \in Nat
  PROVE  /\ Prefixed(<<<<x>>>>) \in Seq(Nat) /\ Len(Prefixed(<<<<x>>>>)) = 2
         /\ Prefixed(<<<<x>>>>)[2] = x
<1> DEFINE p == <<<<x>>>>
           q == [i \in 1..1-1 |-> p[i]]
<1>1. p = [i \in 1..1 |-> p[i]] /\ p[1] = <<x>> /\ \A i \in 1..1 : p[i] \in Seq(Nat)
  OBVIOUS
<1>2. q = [i \in 1..0 |-> q[i]] /\ \A i \in 1..0 : q[i] \in Seq(Nat)
  OBVIOUS
<1> HIDE DEF p
<1>3. Prefixed(p) \in Seq(Nat) /\ Prefixed(p) = Prefixed(q) \o (<<Len(p[1])>> \o p[1])
  <2> DEFINE n == 1
  <2>1. /\ n \in Nat /\ n > 0 /\ n = 1 /\ p = [i \in 1..n |-> p[i]] /\ \A i \in 1..n : p[i] \in Seq(Nat)
        /\ q = [i \in 1..n-1 |-> p[i]]
    BY <1>1
  <2> HIDE DEF n, q
  <2>2. Prefixed(p) \in Seq(Nat) /\ Prefixed(p) = Prefixed(q) \o (<<Len(p[n])>> \o p[n])
    BY <2>1, PrefixedParts
  <2> QED BY <2>1, <2>2
<1> HIDE DEF q
<1>4. Prefixed(q) = <<>>
  BY <1>2, PrefixedParts
<1>5. Prefixed(p) = <<>> \o (<<1>> \o <<x>>)
  BY <1>1, <1>3, <1>4
<1>6. Len(Prefixed(p)) = 2 /\ Prefixed(p)[2] = x
  BY <1>5
<1> QED
  BY <1>3, <1>6 DEF p

LEMMA Prefixed2 ==
  ASSUME NEW x \in Nat, NEW y \in Nat
  PROVE  /\ Prefixed(<<<<x>>, <<y>>>>) \in Seq(Nat) /\ Len(Prefixed(<<<<x>>, <<y>>>>)) = 4
         /\ Prefixed(<<<<x>>, <<y>>>>)[2] = x /\ Prefixed(<<<<x>>, <<y>>>>)[4] = y
<1> DEFINE p == <<<<x>>, <<y>>>>
           q == [i \in 1..2-1 |-> p[i]]
           b == Prefixed(<<<<x>>>>)
<1>1. p = [i \in 1..2 |-> p[i]] /\ p[2] = <<y>> /\ \A i \in 1..2 : p[i] \in Seq(Nat)
  OBVIOUS
<1>2. q = <<<<x>>>>
  OBVIOUS
<1> HIDE DEF p, q
<1>3. Prefixed(p) \in Seq(Nat) /\ Prefixed(p) = Prefixed(q) \o (<<Len(p[2])>> \o p[2])
  <2> DEFINE n == 2
  <2>1. /\ n \in Nat /\ n > 0 /\ n = 2 /\ p = [i \in 1..n |-> p[i]] /\ \A i \in 1..n : p[i] \in Seq(Nat)
        /\ q = [i \in 1..n-1 |-> p[i]]
    BY <1>1 DEF q
  <2> HIDE DEF n
  <2>2. Prefixed(p) \in Seq(Nat) /\ Prefixed(p) = Prefixed(q) \o (<<Len(p[n])>> \o p[n])
    BY <2>1, PrefixedParts
  <2> QED BY <2>1, <2>2
<1>4. b \in Seq(Nat) /\ Len(b) = 2 /\ b[2] = x
  BY Prefixed1
<1> HIDE DEF b
<1>5. Prefixed(p) = b \o (<<1>> \o <<y>>)
  BY <1>1, <1>2, <1>3 DEF b
<1>6. Len(Prefixed(p)) = 4 /\ Prefixed(p)[2] = x /\ Prefixed(p)[4] = y
  <2> DEFINE l == <<1>> \o <<y>>
  <2>1. l \in Seq(Nat) /\ Len(l) = 2 /\ l[2] = y
    OBVIOUS
  <2> HIDE DEF l
  <2>2. /\ Len(b \o l) = Len(b) + Len(l)
        /\ \A i \in 1..Len(b) : (b \o l)[i] = b[i]
        /\ \A i \in 1..Len(l) : (b \o l)[Len(b) + i] = l[i]
    BY <1>4, <2>1, JoinedNumbers
  <2>3. Len(b \o l) = 4 /\ (\A i \in 1..2 : (b \o l)[i] = b[i]) /\ (b \o l)[4] = l[2]
    BY <1>4, <2>1, <2>2
  <2> QED BY <1>4, <1>5, <2>1, <2>2, <2>3 DEF l
<1> QED
  BY <1>3, <1>6 DEF p

LEMMA Prefixed3 ==
  ASSUME NEW x \in Nat, NEW y \in Nat, NEW z \in Nat
  PROVE  /\ Prefixed(<<<<x>>, <<y>>, <<z>>>>) \in Seq(Nat)
         /\ Len(Prefixed(<<<<x>>, <<y>>, <<z>>>>)) = 6
         /\ Prefixed(<<<<x>>, <<y>>, <<z>>>>)[2] = x /\ Prefixed(<<<<x>>, <<y>>, <<z>>>>)[4] = y
         /\ Prefixed(<<<<x>>, <<y>>, <<z>>>>)[6] = z
<1> DEFINE p == <<<<x>>, <<y>>, <<z>>>>
           q == [i \in 1..3-1 |-> p[i]]
           b == Prefixed(<<<<x>>, <<y>>>>)
<1>1. p = [i \in 1..3 |-> p[i]] /\ p[3] = <<z>> /\ \A i \in 1..3 : p[i] \in Seq(Nat)
  OBVIOUS
<1>2. q = <<<<x>>, <<y>>>>
  OBVIOUS
<1> HIDE DEF p, q
<1>3. Prefixed(p) \in Seq(Nat) /\ Prefixed(p) = Prefixed(q) \o (<<Len(p[3])>> \o p[3])
  <2> DEFINE n == 3
  <2>1. /\ n \in Nat /\ n > 0 /\ n = 3 /\ p = [i \in 1..n |-> p[i]] /\ \A i \in 1..n : p[i] \in Seq(Nat)
        /\ q = [i \in 1..n-1 |-> p[i]]
    BY <1>1 DEF q
  <2> HIDE DEF n
  <2>2. Prefixed(p) \in Seq(Nat) /\ Prefixed(p) = Prefixed(q) \o (<<Len(p[n])>> \o p[n])
    BY <2>1, PrefixedParts
  <2> QED BY <2>1, <2>2
<1>4. b \in Seq(Nat) /\ Len(b) = 4 /\ b[2] = x /\ b[4] = y
  BY Prefixed2
<1> HIDE DEF b
<1>5. Prefixed(p) = b \o (<<1>> \o <<z>>)
  BY <1>1, <1>2, <1>3 DEF b
<1>6. Len(Prefixed(p)) = 6 /\ Prefixed(p)[2] = x /\ Prefixed(p)[4] = y /\ Prefixed(p)[6] = z
  <2> DEFINE l == <<1>> \o <<z>>
  <2>1. l \in Seq(Nat) /\ Len(l) = 2 /\ l[2] = z
    OBVIOUS
  <2> HIDE DEF l
  <2>2. /\ Len(b \o l) = Len(b) + Len(l)
        /\ \A i \in 1..Len(b) : (b \o l)[i] = b[i]
        /\ \A i \in 1..Len(l) : (b \o l)[Len(b) + i] = l[i]
    BY <1>4, <2>1, JoinedNumbers
  <2>3. Len(b \o l) = 6 /\ (\A i \in 1..4 : (b \o l)[i] = b[i]) /\ (b \o l)[6] = l[2]
    <3>1. Len(b) = 4 /\ 2 \in 1..Len(l) /\ Len(b) + 2 = 6 /\ Len(b) + Len(l) = 6
      BY <1>4, <2>1
    <3>2. (b \o l)[Len(b) + 2] = l[2]
      BY <2>2, <3>1
    <3>3. \A i \in 1..4 : (b \o l)[i] = b[i]
      BY <2>2, <3>1
    <3> QED BY <2>2, <3>1, <3>2, <3>3
  <2> QED BY <1>4, <1>5, <2>1, <2>2, <2>3 DEF l
<1> QED
  BY <1>3, <1>6 DEF p

LEMMA Key1 ==
  ASSUME NEW domain, IdentityDomain[domain] \in Nat, NEW origin, IdentityOrigin[origin] \in Nat,
         NEW x \in Nat, NEW key, key = KeyOf(domain, origin, <<<<x>>>>)
  PROVE  /\ key \in Seq(Nat) /\ Len(key) = 6
         /\ key[2] = IdentityDomain[domain] /\ key[4] = IdentityOrigin[origin]
         /\ key[6] = x
<1> DEFINE parts == <<<<x>>>>
           b == Prefixed(parts)
<1>1. b \in Seq(Nat) /\ Len(b) = 2 /\ b[2] = x
  BY Prefixed1
<1>2. key = KeyOf(domain, origin, parts)
  OBVIOUS
<1> HIDE DEF parts
<1>0. IdentityDomain[domain] \in Nat /\ IdentityOrigin[origin] \in Nat
  OBVIOUS
<1>3. b = Prefixed(parts) /\ b \in Seq(Nat)
  BY <1>1
<1> HIDE DEF b
<1>4. Heads(key, IdentityDomain[domain], IdentityOrigin[origin], b)
  BY ONLY <1>0, <1>2, <1>3, KeyBegins
<1>5. key[6] = x
  BY <1>1, <1>4 DEF Heads
<1> QED
  BY <1>1, <1>4, <1>5 DEF Heads

LEMMA Key2 ==
  ASSUME NEW domain, IdentityDomain[domain] \in Nat, NEW origin, IdentityOrigin[origin] \in Nat,
         NEW x \in Nat, NEW y \in Nat, NEW key, key = KeyOf(domain, origin, <<<<x>>, <<y>>>>)
  PROVE  /\ key \in Seq(Nat) /\ Len(key) = 8
         /\ key[2] = IdentityDomain[domain] /\ key[4] = IdentityOrigin[origin]
         /\ key[6] = x /\ key[8] = y
<1> DEFINE parts == <<<<x>>, <<y>>>>
           b == Prefixed(parts)
<1>1. b \in Seq(Nat) /\ Len(b) = 4 /\ b[2] = x /\ b[4] = y
  BY Prefixed2
<1>2. key = KeyOf(domain, origin, parts)
  OBVIOUS
<1> HIDE DEF parts
<1>0. IdentityDomain[domain] \in Nat /\ IdentityOrigin[origin] \in Nat
  OBVIOUS
<1>3. b = Prefixed(parts) /\ b \in Seq(Nat)
  BY <1>1
<1> HIDE DEF b
<1>4. Heads(key, IdentityDomain[domain], IdentityOrigin[origin], b)
  BY ONLY <1>0, <1>2, <1>3, KeyBegins
<1>5. key[6] = x /\ key[8] = y
  BY <1>1, <1>4 DEF Heads
<1> QED
  BY <1>1, <1>4, <1>5 DEF Heads

Three(key, domain, origin, x, y, z) ==
  /\ key \in Seq(Nat) /\ Len(key) = 10 /\ key[2] = domain /\ key[4] = origin
  /\ key[6] = x /\ key[8] = y /\ key[10] = z

LEMMA Key3 ==
  ASSUME NEW domain, IdentityDomain[domain] \in Nat, NEW origin, IdentityOrigin[origin] \in Nat,
         NEW x \in Nat, NEW y \in Nat, NEW z \in Nat, NEW key, key = KeyOf(domain, origin, <<<<x>>, <<y>>, <<z>>>>)
  PROVE  Three(key, IdentityDomain[domain], IdentityOrigin[origin], x, y, z)
<1> DEFINE parts == <<<<x>>, <<y>>, <<z>>>>
           b == Prefixed(parts)
<1>1. b \in Seq(Nat) /\ Len(b) = 6 /\ b[2] = x /\ b[4] = y /\ b[6] = z
  BY Prefixed3
<1>2. key = KeyOf(domain, origin, parts)
  OBVIOUS
<1> HIDE DEF parts
<1>0. IdentityDomain[domain] \in Nat /\ IdentityOrigin[origin] \in Nat
  OBVIOUS
<1>3. b = Prefixed(parts) /\ b \in Seq(Nat)
  BY <1>1
<1> HIDE DEF b
<1>4. Heads(key, IdentityDomain[domain], IdentityOrigin[origin], b)
  BY ONLY <1>0, <1>2, <1>3, KeyBegins
<1>5. key[6] = x /\ key[8] = y /\ key[10] = z
  BY <1>1, <1>4 DEF Heads
<1> QED
  BY <1>1, <1>4, <1>5 DEF Heads, Three

LEMMA Remainder ==
  ASSUME NEW a \in Nat, NEW m \in Nat \ {0}
  PROVE  a % m \in Nat
OBVIOUS

(* A digest is a number, so it can be part of a key.                       *)
LEMMA DigestIsNumber ==
  ASSUME revision \in Revisions, NEW key \in Seq(Nat)
  PROVE  Digest(key) \in Nat
<1> DEFINE Hashes(f, k) == f = [i \in 0..k |->
                              IF i = 0 THEN 7 ELSE (31 * f[i - 1] + key[i] + 1) % revision.hasher]
           n == Len(key)
           hash == CHOOSE f : Hashes(f, n)
           G == {k \in 0..n : \E f \in [0..k -> Nat] : Hashes(f, k)}
<1>1. n \in Nat /\ revision.hasher \in Nat \ {0} /\ \A i \in 1..n : key[i] \in Nat
  BY RevisionAssumption
<1>2. Digest(key) = hash[n]
  BY DEF Digest
<1> HIDE DEF n
<1>3. 0 \in G
  <2> DEFINE f == [i \in 0..0 |-> 7]
  <2>1. f \in [0..0 -> Nat] /\ Hashes(f, 0)
    OBVIOUS
  <2> HIDE DEF f, Hashes
  <2> QED BY <1>1, <2>1
<1>4. ASSUME NEW k \in 1..n, k - 1 \in G PROVE k \in G
  <2>1. PICK f \in [0..k-1 -> Nat] : Hashes(f, k - 1)
    BY <1>4
  <2> DEFINE x == (31 * f[k - 1] + key[k] + 1) % revision.hasher
             h == [i \in 0..k |-> IF i < k THEN f[i] ELSE x]
  <2>2. \A i \in 0..k-1 : f[i] = IF i = 0 THEN 7 ELSE (31 * f[i - 1] + key[i] + 1) % revision.hasher
    BY <2>1
  <2>3. x \in Nat
    <3>1. f[k - 1] \in Nat /\ key[k] \in Nat
      BY <1>1
    <3>2. 31 * f[k - 1] + key[k] + 1 \in Nat
      BY <3>1
    <3> QED BY <1>1, <3>2, Remainder
  <2>4. x = (31 * f[k - 1] + key[k] + 1) % revision.hasher
    OBVIOUS
  <2> HIDE DEF x
  <2>5. h \in [0..k -> Nat]
    <3>1. \A i \in 0..k : i < k => i \in 0..k-1
      OBVIOUS
    <3> QED BY <2>3, <3>1
  <2>6. ASSUME NEW i \in 0..k
        PROVE  h[i] = IF i = 0 THEN 7 ELSE (31 * h[i - 1] + key[i] + 1) % revision.hasher
    <3>1. CASE i < k
      <4>1. i \in 0..k-1 /\ (i # 0 => i - 1 \in 0..k /\ i - 1 < k) /\ h[i] = f[i]
        BY <3>1
      <4>2. i # 0 => h[i - 1] = f[i - 1]
        BY <4>1
      <4> QED BY <2>2, <4>1, <4>2
    <3>2. CASE i = k
      <4>1. h[k] = x /\ h[k - 1] = f[k - 1] /\ k # 0
        OBVIOUS
      <4> QED BY <2>4, <3>2, <4>1
    <3> QED BY <3>1, <3>2
  <2>7. h = [i \in 0..k |-> h[i]]
    OBVIOUS
  <2> HIDE DEF h
  <2>8. Hashes(h, k)
    BY <2>6, <2>7
  <2> HIDE DEF Hashes
  <2>9. k \in 0..n
    BY <1>1
  <2> QED BY <2>5, <2>8, <2>9
<1>5. PICK f \in [0..n -> Nat] : Hashes(f, n)
  <2> HIDE DEF Hashes
  <2>1. n \in G
    BY <1>1, <1>3, <1>4, Upto
  <2> QED BY <2>1
<1>6. Hashes(hash, n)
  <2> HIDE DEF Hashes
  <2> QED BY <1>5
<1> DEFINE H == {k \in 0..n : hash[k] \in Nat}
<1>7. \A i \in 0..n : hash[i] = IF i = 0 THEN 7 ELSE (31 * hash[i - 1] + key[i] + 1) % revision.hasher
  <2> HIDE DEF hash
  <2> QED BY <1>6
<1> HIDE DEF hash
<1>8. 0 \in H
  BY <1>1, <1>7
<1>9. ASSUME NEW k \in 1..n, k - 1 \in H PROVE k \in H
  <2>1. hash[k - 1] \in Nat /\ key[k] \in Nat /\ k \in 0..n /\ k # 0
    BY <1>1, <1>9
  <2>2. hash[k] = (31 * hash[k - 1] + key[k] + 1) % revision.hasher
    BY <1>7, <2>1
  <2>3. 31 * hash[k - 1] + key[k] + 1 \in Nat
    BY <2>1
  <2>4. hash[k] \in Nat
    BY <1>1, <2>2, <2>3, Remainder
  <2> QED BY <2>1, <2>4
<1>10. n \in H
  BY <1>1, <1>8, <1>9, Upto
<1> QED
  BY <1>2, <1>10

LEMMA SameDigest ==
  ASSUME UNCHANGED revision
  PROVE  \A key : Digest(key)' = Digest(key)
<1> DEFINE D(r, key) == LET hash[i \in 0..Len(key)] ==
                              IF i = 0 THEN 7 ELSE (31 * hash[i - 1] + key[i] + 1) % r.hasher
                        IN hash[Len(key)]
<1>1. ASSUME NEW key PROVE Digest(key) = D(revision, key) /\ Digest(key)' = D(revision', key)
  BY DEF Digest
<1> HIDE DEF D
<1> QED
  BY <1>1

-----------------------------------------------------------------------------
(***************************************************************************)
(* What a revision declares.                                               *)
(***************************************************************************)

LEMMA Sources ==
  ASSUME revision \in Revisions
  PROVE  /\ revision.modules \in Seq(ModuleSource) /\ Len(revision.modules) \in Nat
         /\ \A i \in 1..Len(revision.modules) : revision.modules[i] \in ModuleSource
         /\ \A m, n \in ToSet(revision.modules) : m.path = n.path => m = n
         /\ ToSet(revision.modules) \subseteq ModuleSource
<1> DEFINE L == revision.modules
<1>1. L \in Seq(ModuleSource) /\ \A m, n \in DOMAIN L : L[m].path = L[n].path => m = n
  BY RevisionAssumption
<1> HIDE DEF L
<1>2. Len(L) \in Nat /\ DOMAIN L = 1..Len(L) /\ \A i \in 1..Len(L) : L[i] \in ModuleSource
  BY <1>1
<1>3. \A m, n \in ToSet(L) : m.path = n.path => m = n
  BY <1>1 DEF ToSet
<1>4. ToSet(L) \subseteq ModuleSource
  BY <1>2 DEF ToSet
<1> QED
  BY <1>1, <1>2, <1>3, <1>4 DEF L

LEMMA ModuleFields ==
  ASSUME NEW m \in ModuleSource
  PROVE  /\ m.path \in Nat /\ m.origin \in {"project", "authenticated"}
         /\ IdentityOrigin[m.origin] \in {1, 2}
         /\ m.declarations \in Seq(DeclarationSource)
         /\ \A d \in ToSet(m.declarations) : d \in DeclarationSource
<1>1. /\ m.path \in Nat /\ m.origin \in {"project", "authenticated"}
      /\ m.declarations \in Seq(DeclarationSource)
  BY DEF ModuleSource
<1>2. IdentityOrigin[m.origin] \in {1, 2}
  BY <1>1, Codes
<1> DEFINE q == m.declarations
<1> HIDE DEF q
<1>3. q \in Seq(DeclarationSource) => \A d \in ToSet(q) : d \in DeclarationSource
  BY DEF ToSet
<1> QED
  BY <1>1, <1>2, <1>3 DEF q

LEMMA DeclarationFields ==
  ASSUME NEW d \in DeclarationSource
  PROVE  /\ d.valid \in BOOLEAN /\ d.kind \in DOMAIN KindName /\ d.kind \notin NestedKinds
         /\ KindName[d.kind] \in Nat /\ d.name \in Nat /\ d.start \in Nat
         /\ d.nested \in Seq(NestedSource)
         /\ \A x \in ToSet(d.nested) : /\ x \in NestedSource /\ x.what \in NestedKinds
                                       /\ KindName[x.what] \in Nat /\ x.name \in Nat
<1>1. /\ d.valid \in BOOLEAN /\ d.kind \in DOMAIN KindName /\ d.kind \notin NestedKinds
      /\ d.name \in Nat /\ d.start \in Nat /\ d.nested \in Seq(NestedSource)
  BY DEF DeclarationSource
<1>2. KindName[d.kind] \in Nat
  BY <1>1, Kinds
<1> DEFINE q == d.nested
<1> HIDE DEF q
<1>3. q \in Seq(NestedSource) => \A x \in ToSet(q) : x \in NestedSource
  BY DEF ToSet
<1>4. \A x \in NestedSource : x.what \in NestedKinds /\ x.name \in Nat
  BY DEF NestedSource
<1>5. \A k \in NestedKinds : KindName[k] \in Nat
  BY DEF KindName, NestedKinds
<1> QED
  BY <1>1, <1>2, <1>3, <1>4, <1>5 DEF q

SiteKey(m, d) == KeyOf("source_site", m.origin, <<<<Digest(DefinitionKey(m, d))>>, <<d.start>>>>)

OwnKey(m, d, domain) == KeyOf(domain, m.origin, <<<<Digest(DefinitionKey(m, d))>>>>)

TestKey(m, d, x) ==
  KeyOf("test", m.origin, <<<<Digest(DefinitionKey(m, d))>>, <<Digest(NestedKey(m, d, x))>>>>)

VariantKey(m, d, x) == KeyOf("generated", m.origin, <<<<Digest(NestedKey(m, d, x))>>>>)

(* The entries of what is nested in a declaration, and of a declaration.   *)
IsNested(e, m, d, x) ==
  \/ e = Entry(m, d, "definition", x.what, x.name, NestedKey(m, d, x))
  \/ x.what = "test" /\ e = Entry(m, d, "test", x.what, x.name, TestKey(m, d, x))
  \/ x.what = "variant" /\ e = Entry(m, d, "generated", x.what, x.name, VariantKey(m, d, x))

IsOwn(e, m, d) ==
  \/ e = Entry(m, d, "definition", "", 0, DefinitionKey(m, d))
  \/ e = Entry(m, d, "source_site", "", d.start, SiteKey(m, d))
  \/ d.kind \in Nominals /\ e = Entry(m, d, "type", "", 0, OwnKey(m, d, "type"))
  \/ d.kind = "pool" /\ e = Entry(m, d, "pool", "", 0, OwnKey(m, d, "pool"))

IsEntry(e, m, d) == IsOwn(e, m, d) \/ \E x \in ToSet(d.nested) : IsNested(e, m, d, x)

LEMMA Single == ASSUME NEW x PROVE ToSet(<<x>>) = {x} /\ \A T : x \in T => <<x>> \in Seq(T)
<1>1. DOMAIN <<x>> = {1} /\ <<x>>[1] = x
  OBVIOUS
<1> QED
  BY <1>1 DEF ToSet

LEMMA Widened ==
  ASSUME NEW S, NEW T, NEW q \in Seq(S), ToSet(q) \subseteq T
  PROVE  q \in Seq(T)
<1>1. q \in [1..Len(q) -> T] /\ Len(q) \in Nat
  BY DEF ToSet
<1> QED
  BY <1>1

LEMMA NestedAre ==
  ASSUME NEW m, NEW d, NEW x, x.what \in NestedKinds
  PROVE  \E T : /\ NestedEntries(m, d, x) \in Seq(T)
                /\ \A e : e \in ToSet(NestedEntries(m, d, x)) <=> IsNested(e, m, d, x)
<1> DEFINE a == Entry(m, d, "definition", x.what, x.name, NestedKey(m, d, x))
           t == Entry(m, d, "test", x.what, x.name, TestKey(m, d, x))
           v == Entry(m, d, "generated", x.what, x.name, VariantKey(m, d, x))
           T == {a, t, v}
           rest == CASE x.what = "test" -> <<t>>
                     [] x.what = "variant" -> <<v>>
                     [] x.what = "associated_function" -> <<>>
<1>1. NestedEntries(m, d, x) = <<a>> \o rest
  BY DEF NestedEntries, TestKey, VariantKey
<1>2. \A e : IsNested(e, m, d, x) <=> \/ e = a
                                      \/ x.what = "test" /\ e = t
                                      \/ x.what = "variant" /\ e = v
  BY DEF IsNested
<1> HIDE DEF a, t, v
<1>3. x.what = "test" \/ x.what = "variant" \/ x.what = "associated_function"
  BY DEF NestedKinds
<1>4. <<a>> \in Seq(T) /\ ToSet(<<a>>) = {a}
  BY Single
<1>5. rest \in Seq(T) /\ \A e : e \in ToSet(rest) <=> \/ x.what = "test" /\ e = t
                                                      \/ x.what = "variant" /\ e = v
  <2>1. CASE x.what = "test"
    <3>1. rest = <<t>>
      BY <2>1
    <3>2. <<t>> \in Seq(T) /\ ToSet(<<t>>) = {t}
      BY Single
    <3> QED BY <2>1, <3>1, <3>2
  <2>2. CASE x.what = "variant"
    <3>1. rest = <<v>>
      BY <2>2
    <3>2. <<v>> \in Seq(T) /\ ToSet(<<v>>) = {v}
      BY Single
    <3> QED BY <2>2, <3>1, <3>2
  <2>3. CASE x.what = "associated_function"
    <3>1. rest = <<>>
      BY <2>3
    <3>2. <<>> \in Seq(T) /\ ToSet(<<>>) = {}
      BY DEF ToSet
    <3> QED BY <2>3, <3>1, <3>2
  <2> QED BY <1>3, <2>1, <2>2, <2>3
<1> HIDE DEF rest, T
<1> DEFINE w == <<a>>
<1>6. w \in Seq(T) /\ ToSet(w) = {a}
  BY <1>4
<1> HIDE DEF w
<1>7. w \o rest \in Seq(T) /\ ToSet(w \o rest) = ToSet(w) \cup ToSet(rest)
  BY <1>5, <1>6, JoinedList
<1>8. NestedEntries(m, d, x) = w \o rest
  BY <1>1 DEF w
<1>9. \A e : e \in ToSet(w \o rest) <=> IsNested(e, m, d, x)
  BY <1>2, <1>5, <1>6, <1>7
<1> QED
  BY <1>7, <1>8, <1>9

LEMMA EntriesAre ==
  ASSUME NEW m, NEW d \in DeclarationSource
  PROVE  \E T : /\ Entries(m, d) \in Seq(T)
                /\ \A e : e \in ToSet(Entries(m, d)) <=> IsEntry(e, m, d)
<1> DEFINE a == Entry(m, d, "definition", "", 0, DefinitionKey(m, d))
           s == Entry(m, d, "source_site", "", d.start, SiteKey(m, d))
           t == Entry(m, d, "type", "", 0, OwnKey(m, d, "type"))
           p == Entry(m, d, "pool", "", 0, OwnKey(m, d, "pool"))
           n == Len(d.nested)
           part == [i \in DOMAIN d.nested |-> NestedEntries(m, d, d.nested[i])]
           N == UNION {ToSet(part[i]) : i \in 1..n}
           T == {a, s, t, p} \cup N
           middle == CASE d.kind \in Nominals -> <<t>>
                       [] d.kind = "pool"     -> <<p>>
                       [] OTHER               -> <<>>
           last == FlattenSeq(part)
<1>1. Entries(m, d) = <<a, s>> \o middle \o last
  BY DEF Entries, SiteKey, OwnKey
<1>2. \A e : IsOwn(e, m, d) <=> \/ e = a \/ e = s
                                \/ d.kind \in Nominals /\ e = t
                                \/ d.kind = "pool" /\ e = p
  BY DEF IsOwn
<1>3. n \in Nat /\ DOMAIN d.nested = 1..n /\ \A i \in 1..n : d.nested[i].what \in NestedKinds
  <2>1. d.nested \in Seq(NestedSource)
    BY DeclarationFields
  <2>2. \A x \in NestedSource : x.what \in NestedKinds
    BY DEF NestedSource
  <2> QED BY <2>1, <2>2
<1>4. part = [i \in 1..n |-> part[i]] /\ \A i \in 1..n : part[i] = NestedEntries(m, d, d.nested[i])
  BY <1>3
<1>5. \A i \in 1..n : \E S : /\ part[i] \in Seq(S)
                             /\ \A e : e \in ToSet(part[i]) <=> IsNested(e, m, d, d.nested[i])
  BY <1>3, <1>4, NestedAre
<1>6. \A x : x \in ToSet(d.nested) <=> \E i \in 1..n : x = d.nested[i]
  BY <1>3 DEF ToSet
<1> HIDE DEF a, s, t, p, n, part
<1>7. ASSUME NEW i \in 1..n PROVE part[i] \in Seq(T)
  <2>1. PICK S : part[i] \in Seq(S)
    BY <1>5
  <2>2. ToSet(part[i]) \subseteq T
    OBVIOUS
  <2> HIDE DEF T
  <2> QED BY <2>1, <2>2, Widened
<1>8. last \in Seq(T) /\ ToSet(last) = N
  <2> HIDE DEF T
  <2> QED BY <1>3, <1>4, <1>7, FlattenedList
<1>9. \A e : e \in N <=> \E x \in ToSet(d.nested) : IsNested(e, m, d, x)
  <2>1. \A e : e \in N <=> \E i \in 1..n : e \in ToSet(part[i])
    OBVIOUS
  <2>2. \A i \in 1..n : \A e : e \in ToSet(part[i]) <=> IsNested(e, m, d, d.nested[i])
    BY <1>5
  <2> HIDE DEF N
  <2>3. ASSUME NEW e, e \in N PROVE \E x \in ToSet(d.nested) : IsNested(e, m, d, x)
    BY <1>6, <2>1, <2>2, <2>3
  <2>4. ASSUME NEW e, NEW x \in ToSet(d.nested), IsNested(e, m, d, x) PROVE e \in N
    BY <1>6, <2>1, <2>2, <2>4
  <2> QED BY <2>3, <2>4
<1>10. middle \in Seq(T) /\ \A e : e \in ToSet(middle) <=> \/ d.kind \in Nominals /\ e = t
                                                           \/ d.kind = "pool" /\ e = p
  <2>0. t \in T /\ p \in T /\ ~ ("pool" \in Nominals)
    BY DEF Nominals
  <2> HIDE DEF T, N
  <2>1. CASE d.kind \in Nominals
    <3>1. middle = <<t>>
      BY <2>0, <2>1
    <3>2. <<t>> \in Seq(T) /\ ToSet(<<t>>) = {t}
      BY <2>0, Single
    <3> QED BY <2>0, <2>1, <3>1, <3>2
  <2>2. CASE d.kind = "pool"
    <3>1. middle = <<p>>
      BY <2>0, <2>2
    <3>2. <<p>> \in Seq(T) /\ ToSet(<<p>>) = {p}
      BY <2>0, Single
    <3> QED BY <2>0, <2>2, <3>1, <3>2
  <2>3. CASE ~ (d.kind \in Nominals) /\ ~ (d.kind = "pool")
    <3>1. middle = <<>>
      BY <2>3
    <3>2. <<>> \in Seq(T) /\ ToSet(<<>>) = {}
      BY DEF ToSet
    <3> QED BY <2>3, <3>1, <3>2
  <2> QED BY <2>1, <2>2, <2>3
<1> DEFINE first == <<a, s>>
<1>11. first \in Seq(T) /\ ToSet(first) = {a, s}
  <2>1. a \in T /\ s \in T
    OBVIOUS
  <2> HIDE DEF T
  <2>2. DOMAIN first = {1, 2} /\ first[1] = a /\ first[2] = s
    OBVIOUS
  <2> QED BY <2>1, <2>2 DEF ToSet
<1>12. Entries(m, d) = (first \o middle) \o last
  BY <1>1
<1> HIDE DEF T, N, middle, last, first
<1> DEFINE front == first \o middle
<1>13. front \in Seq(T) /\ ToSet(front) = ToSet(first) \cup ToSet(middle)
  BY <1>10, <1>11, JoinedList
<1>14. Entries(m, d) = front \o last
  BY <1>12
<1> HIDE DEF front
<1>15. front \o last \in Seq(T) /\ ToSet(front \o last) = ToSet(front) \cup ToSet(last)
  BY <1>8, <1>13, JoinedList
<1>16. \A e : e \in ToSet(front \o last) <=> IsEntry(e, m, d)
  BY <1>2, <1>8, <1>9, <1>10, <1>11, <1>13, <1>15 DEF IsEntry
<1> QED
  BY <1>14, <1>15, <1>16

(* A declaration of a revision.                                            *)
Declares(m, d) == /\ m \in ToSet(revision.modules) /\ d \in ToSet(m.declarations) /\ d.valid

LEMMA DeclaredAre ==
  ASSUME revision \in Revisions
  PROVE  \A e : e \in Declared <=>
           \/ \E m \in ToSet(revision.modules) : e = ModuleEntry(m)
           \/ \E m, d : Declares(m, d) /\ IsEntry(e, m, d)
<1>1. ASSUME NEW m \in ToSet(revision.modules), NEW d \in ToSet(m.declarations), NEW e
      PROVE  e \in ToSet(Entries(m, d)) <=> IsEntry(e, m, d)
  <2>1. d \in DeclarationSource
    BY Sources, ModuleFields
  <2> QED BY <2>1, EntriesAre
<1>2. \A m \in ToSet(revision.modules) : \A e :
        e \in DeclaredIn(m) <=> \/ e = ModuleEntry(m)
                                \/ \E d : Declares(m, d) /\ IsEntry(e, m, d)
  BY <1>1 DEF DeclaredIn, Declares
<1> QED
  BY <1>2 DEF Declared, Declares

(* What a key of a declaration starts with.                                *)
Begins(key, m, domain) == key \in Seq(Nat) /\ key[2] = domain /\ key[4] = IdentityOrigin[m.origin]

LEMMA ModuleKeyIs ==
  ASSUME revision \in Revisions, NEW m \in ModuleSource
  PROVE  /\ Begins(ModuleKey(m), m, 1) /\ ModuleKey(m)[6] = m.path
         /\ Digest(ModuleKey(m)) \in Nat
<1> DEFINE key == ModuleKey(m)
<1>1. IdentityDomain["module"] = 1 /\ IdentityOrigin[m.origin] \in Nat /\ m.path \in Nat
  BY Codes, ModuleFields
<1>2. key = KeyOf("module", m.origin, <<<<m.path>>>>)
  BY DEF ModuleKey
<1> HIDE DEF key
<1>3. /\ key \in Seq(Nat) /\ key[2] = IdentityDomain["module"]
      /\ key[4] = IdentityOrigin[m.origin] /\ key[6] = m.path
  BY <1>1, <1>2, Key1
<1>4. Digest(key) \in Nat
  BY <1>3, DigestIsNumber
<1> QED
  BY <1>1, <1>3, <1>4 DEF key, Begins

LEMMA DefinitionKeyIs ==
  ASSUME revision \in Revisions, NEW m \in ModuleSource, NEW d \in DeclarationSource
  PROVE  /\ Begins(DefinitionKey(m, d), m, 2) /\ Len(DefinitionKey(m, d)) = 10
         /\ DefinitionKey(m, d)[6] = Digest(ModuleKey(m))
         /\ DefinitionKey(m, d)[8] = KindName[d.kind] /\ DefinitionKey(m, d)[10] = d.name
         /\ Digest(DefinitionKey(m, d)) \in Nat
<1> DEFINE key == DefinitionKey(m, d)
           owner == Digest(ModuleKey(m))
           kind == KindName[d.kind]
           name == d.name
<1>1. /\ IdentityDomain["definition"] = 2 /\ IdentityOrigin[m.origin] \in Nat
      /\ owner \in Nat /\ kind \in Nat /\ name \in Nat
  BY Codes, ModuleFields, DeclarationFields, ModuleKeyIs
<1>2. key = KeyOf("definition", m.origin, <<<<owner>>, <<kind>>, <<name>>>>)
  BY DEF DefinitionKey
<1> HIDE DEF key, owner, kind, name
<1>3. Three(key, IdentityDomain["definition"], IdentityOrigin[m.origin], owner, kind, name)
  BY <1>1, <1>2, Key3
<1>4. Digest(key) \in Nat
  BY <1>3, DigestIsNumber DEF Three
<1> QED
  BY <1>1, <1>3, <1>4 DEF key, owner, kind, name, Begins, Three

LEMMA NestedKeyIs ==
  ASSUME revision \in Revisions, NEW m \in ModuleSource, NEW d \in DeclarationSource,
         NEW x \in ToSet(d.nested)
  PROVE  /\ Begins(NestedKey(m, d, x), m, 2) /\ Len(NestedKey(m, d, x)) = 10
         /\ NestedKey(m, d, x)[6] = Digest(DefinitionKey(m, d))
         /\ NestedKey(m, d, x)[8] = KindName[x.what] /\ NestedKey(m, d, x)[10] = x.name
         /\ Digest(NestedKey(m, d, x)) \in Nat
<1> DEFINE key == NestedKey(m, d, x)
           owner == Digest(DefinitionKey(m, d))
           kind == KindName[x.what]
           name == x.name
<1>1. /\ IdentityDomain["definition"] = 2 /\ IdentityOrigin[m.origin] \in Nat
      /\ owner \in Nat /\ kind \in Nat /\ name \in Nat
  BY Codes, ModuleFields, DeclarationFields, DefinitionKeyIs
<1>2. key = KeyOf("definition", m.origin, <<<<owner>>, <<kind>>, <<name>>>>)
  BY DEF NestedKey
<1> HIDE DEF key, owner, kind, name
<1>3. Three(key, IdentityDomain["definition"], IdentityOrigin[m.origin], owner, kind, name)
  BY <1>1, <1>2, Key3
<1>4. Digest(key) \in Nat
  BY <1>3, DigestIsNumber DEF Three
<1> QED
  BY <1>1, <1>3, <1>4 DEF key, owner, kind, name, Begins, Three

LEMMA OtherKeysAre ==
  ASSUME revision \in Revisions, NEW m \in ModuleSource, NEW d \in DeclarationSource
  PROVE  /\ /\ Begins(SiteKey(m, d), m, 7) /\ SiteKey(m, d)[6] = Digest(DefinitionKey(m, d))
            /\ SiteKey(m, d)[8] = d.start
         /\ Begins(OwnKey(m, d, "type"), m, 3)
         /\ OwnKey(m, d, "type")[6] = Digest(DefinitionKey(m, d))
         /\ Begins(OwnKey(m, d, "pool"), m, 4)
         /\ OwnKey(m, d, "pool")[6] = Digest(DefinitionKey(m, d))
         /\ \A x \in ToSet(d.nested) :
              /\ Begins(TestKey(m, d, x), m, 8)
              /\ TestKey(m, d, x)[6] = Digest(DefinitionKey(m, d))
              /\ TestKey(m, d, x)[8] = Digest(NestedKey(m, d, x))
              /\ Begins(VariantKey(m, d, x), m, 6)
              /\ VariantKey(m, d, x)[6] = Digest(NestedKey(m, d, x))
<1> DEFINE owner == Digest(DefinitionKey(m, d))
           start_ == d.start
<1>1. IdentityOrigin[m.origin] \in Nat /\ owner \in Nat /\ start_ \in Nat
  BY ModuleFields, DeclarationFields, DefinitionKeyIs
<1>2. SiteKey(m, d) = KeyOf("source_site", m.origin, <<<<owner>>, <<start_>>>>)
  BY DEF SiteKey
<1>3. \A domain : OwnKey(m, d, domain) = KeyOf(domain, m.origin, <<<<owner>>>>)
  BY DEF OwnKey
<1>4. \A x : TestKey(m, d, x) = KeyOf("test", m.origin, <<<<owner>>, <<Digest(NestedKey(m, d, x))>>>>)
  BY DEF TestKey
<1>5. owner = Digest(DefinitionKey(m, d)) /\ start_ = d.start
  OBVIOUS
<1> HIDE DEF owner, start_
<1>6. Begins(SiteKey(m, d), m, 7) /\ SiteKey(m, d)[6] = owner /\ SiteKey(m, d)[8] = start_
  <2> DEFINE key == SiteKey(m, d)
  <2>1. IdentityDomain["source_site"] = 7
    BY Codes
  <2>2. key = KeyOf("source_site", m.origin, <<<<owner>>, <<start_>>>>)
    BY <1>2
  <2> HIDE DEF key
  <2>3. /\ key \in Seq(Nat) /\ key[2] = IdentityDomain["source_site"]
        /\ key[4] = IdentityOrigin[m.origin] /\ key[6] = owner /\ key[8] = start_
    BY <1>1, <2>1, <2>2, Key2
  <2> QED BY <2>1, <2>3 DEF key, Begins
<1>7. ASSUME NEW domain \in {"type", "pool"}
      PROVE  Begins(OwnKey(m, d, domain), m, IdentityDomain[domain]) /\ OwnKey(m, d, domain)[6] = owner
  <2> DEFINE key == OwnKey(m, d, domain)
  <2>1. IdentityDomain[domain] \in Nat
    BY Codes
  <2>2. key = KeyOf(domain, m.origin, <<<<owner>>>>)
    BY <1>3
  <2> HIDE DEF key
  <2>3. /\ key \in Seq(Nat) /\ key[2] = IdentityDomain[domain]
        /\ key[4] = IdentityOrigin[m.origin] /\ key[6] = owner
    BY <1>1, <2>1, <2>2, Key1
  <2> QED BY <2>1, <2>3 DEF key, Begins
<1>8. ASSUME NEW x \in ToSet(d.nested)
      PROVE  /\ Begins(TestKey(m, d, x), m, 8) /\ TestKey(m, d, x)[6] = owner
             /\ TestKey(m, d, x)[8] = Digest(NestedKey(m, d, x))
             /\ Begins(VariantKey(m, d, x), m, 6)
             /\ VariantKey(m, d, x)[6] = Digest(NestedKey(m, d, x))
  <2> DEFINE id == Digest(NestedKey(m, d, x))
             key == TestKey(m, d, x)
             other == VariantKey(m, d, x)
  <2>1. IdentityDomain["test"] = 8 /\ IdentityDomain["generated"] = 6 /\ id \in Nat
    BY Codes, NestedKeyIs
  <2>2. key = KeyOf("test", m.origin, <<<<owner>>, <<id>>>>)
    BY <1>4
  <2>3. other = KeyOf("generated", m.origin, <<<<id>>>>)
    BY DEF VariantKey
  <2> HIDE DEF key, other, id
  <2>4. /\ key \in Seq(Nat) /\ key[2] = IdentityDomain["test"]
        /\ key[4] = IdentityOrigin[m.origin] /\ key[6] = owner /\ key[8] = id
    BY <1>1, <2>1, <2>2, Key2
  <2>5. /\ other \in Seq(Nat) /\ other[2] = IdentityDomain["generated"]
        /\ other[4] = IdentityOrigin[m.origin] /\ other[6] = id
    BY <1>1, <2>1, <2>3, Key1
  <2> QED BY <2>1, <2>4, <2>5 DEF key, other, id, Begins
<1>9. IdentityDomain["type"] = 3 /\ IdentityDomain["pool"] = 4
  BY Codes
<1> QED
  BY <1>5, <1>6, <1>7, <1>8, <1>9

-----------------------------------------------------------------------------
(***************************************************************************)
(* A place has one key; and if no two keys share a digest, a key has one   *)
(* place.                                                                  *)
(***************************************************************************)

OneKey(E) == \A e, f \in E : e.record.digest = f.record.digest => e.record.key = f.record.key

LEMMA EntryIs ==
  ASSUME NEW m, NEW d, NEW domain, NEW what, NEW name, NEW key,
         NEW e, e = Entry(m, d, domain, what, name, key)
  PROVE  /\ e.place = <<domain, <<m.path, d.kind, d.name>>, what, name>>
         /\ e.record.key = key /\ e.record.digest = Digest(key) /\ e.record.domain = domain
         /\ e.record.fingerprint = <<m.path, d.start>>
BY DEF Entry, PlaceOf, Record

LEMMA ModuleEntryIs ==
  ASSUME NEW m, NEW e, e = ModuleEntry(m)
  PROVE  /\ e.place = <<"module", <<m.path>>, "", 0>>
         /\ e.record.key = ModuleKey(m) /\ e.record.digest = Digest(ModuleKey(m))
         /\ e.record.domain = "module" /\ e.record.fingerprint = <<m.path>>
BY DEF ModuleEntry, Record

LEMMA DeclaresTypes ==
  ASSUME revision \in Revisions, NEW m, NEW d, Declares(m, d)
  PROVE  m \in ModuleSource /\ d \in DeclarationSource
BY Sources, ModuleFields DEF Declares

LEMMA KindsNested ==
  /\ \A k \in NestedKinds : KindName[k] \in {10, 11, 12}
  /\ \A k \in DOMAIN KindName : k \notin NestedKinds => KindName[k] \notin {10, 11, 12}
  /\ NestedKinds \subseteq DOMAIN KindName
BY DEF KindName, NestedKinds

LEMMA SameModule ==
  ASSUME revision \in Revisions, OneKey(Declared),
         NEW m \in ToSet(revision.modules), NEW n \in ToSet(revision.modules),
         Digest(ModuleKey(m)) = Digest(ModuleKey(n))
  PROVE  m = n
<1>1. ModuleEntry(m) \in Declared /\ ModuleEntry(n) \in Declared
  BY DeclaredAre
<1>2. ModuleEntry(m).record.key = ModuleEntry(n).record.key
  BY <1>1, ModuleEntryIs DEF OneKey
<1>3. ModuleKey(m) = ModuleKey(n)
  BY <1>2, ModuleEntryIs
<1>4. m \in ModuleSource /\ n \in ModuleSource
  BY Sources
<1>5. m.path = n.path
  BY <1>3, <1>4, ModuleKeyIs
<1> QED
  BY <1>5, Sources

LEMMA SameDeclaration ==
  ASSUME revision \in Revisions, OneKey(Declared),
         NEW m, NEW d, Declares(m, d), NEW n, NEW f, Declares(n, f),
         Digest(DefinitionKey(m, d)) = Digest(DefinitionKey(n, f))
  PROVE  m = n /\ d.kind = f.kind /\ d.name = f.name
<1> DEFINE e == Entry(m, d, "definition", "", 0, DefinitionKey(m, d))
           g == Entry(n, f, "definition", "", 0, DefinitionKey(n, f))
<1>1. IsEntry(e, m, d) /\ IsEntry(g, n, f)
  BY DEF IsEntry, IsOwn
<1>2. /\ e.record.key = DefinitionKey(m, d) /\ e.record.digest = Digest(DefinitionKey(m, d))
      /\ g.record.key = DefinitionKey(n, f) /\ g.record.digest = Digest(DefinitionKey(n, f))
  BY DEF Entry, Record
<1> HIDE DEF e, g
<1>3. e \in Declared /\ g \in Declared
  BY <1>1, DeclaredAre
<1>4. DefinitionKey(m, d) = DefinitionKey(n, f)
  BY <1>2, <1>3 DEF OneKey
<1>5. /\ m \in ModuleSource /\ n \in ModuleSource /\ d \in DeclarationSource
      /\ f \in DeclarationSource
  BY DeclaresTypes
<1>6. /\ Digest(ModuleKey(m)) = Digest(ModuleKey(n)) /\ KindName[d.kind] = KindName[f.kind]
      /\ d.name = f.name
  <2>1. /\ DefinitionKey(m, d)[6] = Digest(ModuleKey(m)) /\ DefinitionKey(m, d)[8] = KindName[d.kind]
        /\ DefinitionKey(m, d)[10] = d.name
    BY <1>5, DefinitionKeyIs
  <2>2. /\ DefinitionKey(n, f)[6] = Digest(ModuleKey(n)) /\ DefinitionKey(n, f)[8] = KindName[f.kind]
        /\ DefinitionKey(n, f)[10] = f.name
    BY <1>5, DefinitionKeyIs
  <2> QED BY <1>4, <2>1, <2>2
<1>7. m = n
  BY <1>6, SameModule DEF Declares
<1>8. d.kind = f.kind
  BY <1>5, <1>6, DeclarationFields, Kinds
<1> QED
  BY <1>6, <1>7, <1>8

LEMMA SameNested ==
  ASSUME revision \in Revisions, OneKey(Declared),
         NEW m, NEW d, Declares(m, d), NEW n, NEW f, Declares(n, f),
         NEW x \in ToSet(d.nested), NEW y \in ToSet(f.nested),
         \/ NestedKey(m, d, x) = NestedKey(n, f, y)
         \/ Digest(NestedKey(m, d, x)) = Digest(NestedKey(n, f, y))
  PROVE  m = n /\ d.kind = f.kind /\ d.name = f.name /\ x.what = y.what /\ x.name = y.name
<1> DEFINE e == Entry(m, d, "definition", x.what, x.name, NestedKey(m, d, x))
           g == Entry(n, f, "definition", y.what, y.name, NestedKey(n, f, y))
<1>1. IsEntry(e, m, d) /\ IsEntry(g, n, f)
  BY DEF IsEntry, IsNested
<1>2. /\ e.record.key = NestedKey(m, d, x) /\ e.record.digest = Digest(NestedKey(m, d, x))
      /\ g.record.key = NestedKey(n, f, y) /\ g.record.digest = Digest(NestedKey(n, f, y))
  BY EntryIs
<1> HIDE DEF e, g
<1>3. e \in Declared /\ g \in Declared
  BY <1>1, DeclaredAre
<1>4. NestedKey(m, d, x) = NestedKey(n, f, y)
  BY <1>2, <1>3 DEF OneKey
<1>5. /\ m \in ModuleSource /\ n \in ModuleSource /\ d \in DeclarationSource
      /\ f \in DeclarationSource
  BY DeclaresTypes
<1>6. /\ Digest(DefinitionKey(m, d)) = Digest(DefinitionKey(n, f))
      /\ KindName[x.what] = KindName[y.what] /\ x.name = y.name
  <2>1. /\ NestedKey(m, d, x)[6] = Digest(DefinitionKey(m, d))
        /\ NestedKey(m, d, x)[8] = KindName[x.what] /\ NestedKey(m, d, x)[10] = x.name
    BY <1>5, NestedKeyIs
  <2>2. /\ NestedKey(n, f, y)[6] = Digest(DefinitionKey(n, f))
        /\ NestedKey(n, f, y)[8] = KindName[y.what] /\ NestedKey(n, f, y)[10] = y.name
    BY <1>5, NestedKeyIs
  <2> QED BY <1>4, <2>1, <2>2
<1>7. x.what \in DOMAIN KindName /\ y.what \in DOMAIN KindName
  BY <1>5, DeclarationFields, KindsNested
<1>8. x.what = y.what
  BY <1>6, <1>7, Kinds
<1>9. m = n /\ d.kind = f.kind /\ d.name = f.name
  BY <1>6, SameDeclaration
<1> QED
  BY <1>6, <1>8, <1>9

(* An entry is that of a module, of a declaration itself or of what is     *)
(* nested in it.                                                           *)
OfModule(e, m) == m \in ToSet(revision.modules) /\ e = ModuleEntry(m)

OfOwn(e, m, d, domain, name, key) ==
  Declares(m, d) /\ e = Entry(m, d, domain, "", name, key)

OfNested(e, m, d, x, domain, key) ==
  Declares(m, d) /\ x \in ToSet(d.nested) /\ e = Entry(m, d, domain, x.what, x.name, key)

EntryCase(e, n) ==
  CASE n = 1 -> \E m : OfModule(e, m)
    [] n = 2 -> \E m, d : OfOwn(e, m, d, "definition", 0, DefinitionKey(m, d))
    [] n = 7 -> \E m, d : OfOwn(e, m, d, "source_site", d.start, SiteKey(m, d))
    [] n = 3 -> \E m, d : OfOwn(e, m, d, "type", 0, OwnKey(m, d, "type"))
    [] n = 4 -> \E m, d : OfOwn(e, m, d, "pool", 0, OwnKey(m, d, "pool"))
    [] n = 9 -> \E m, d, x : OfNested(e, m, d, x, "definition", NestedKey(m, d, x))
    [] n = 8 -> \E m, d, x : OfNested(e, m, d, x, "test", TestKey(m, d, x))
    [] n = 6 -> \E m, d, x : OfNested(e, m, d, x, "generated", VariantKey(m, d, x))

Domains == {1, 2, 3, 4, 6, 7, 8, 9}

LEMMA EntryCases ==
  ASSUME revision \in Revisions, NEW e \in Declared
  PROVE  \E n \in Domains : EntryCase(e, n)
<1>1. CASE \E m \in ToSet(revision.modules) : e = ModuleEntry(m)
  <2>1. EntryCase(e, 1)
    BY <1>1 DEF EntryCase, OfModule
  <2> QED BY <2>1 DEF Domains
<1>2. CASE \E m, d : Declares(m, d) /\ IsEntry(e, m, d)
  <2>1. PICK m, d : Declares(m, d) /\ IsEntry(e, m, d)
    BY <1>2
  <2>2. CASE e = Entry(m, d, "definition", "", 0, DefinitionKey(m, d))
    <3>1. OfOwn(e, m, d, "definition", 0, DefinitionKey(m, d))
      BY <2>1, <2>2 DEF OfOwn
    <3>2. EntryCase(e, 2)
      BY <3>1 DEF EntryCase
    <3> QED BY <3>2 DEF Domains
  <2>3. CASE e = Entry(m, d, "source_site", "", d.start, SiteKey(m, d))
    <3>1. OfOwn(e, m, d, "source_site", d.start, SiteKey(m, d))
      BY <2>1, <2>3 DEF OfOwn
    <3>2. EntryCase(e, 7)
      BY <3>1 DEF EntryCase
    <3> QED BY <3>2 DEF Domains
  <2>4. CASE e = Entry(m, d, "type", "", 0, OwnKey(m, d, "type"))
    <3>1. OfOwn(e, m, d, "type", 0, OwnKey(m, d, "type"))
      BY <2>1, <2>4 DEF OfOwn
    <3>2. EntryCase(e, 3)
      BY <3>1 DEF EntryCase
    <3> QED BY <3>2 DEF Domains
  <2>5. CASE e = Entry(m, d, "pool", "", 0, OwnKey(m, d, "pool"))
    <3>1. OfOwn(e, m, d, "pool", 0, OwnKey(m, d, "pool"))
      BY <2>1, <2>5 DEF OfOwn
    <3>2. EntryCase(e, 4)
      BY <3>1 DEF EntryCase
    <3> QED BY <3>2 DEF Domains
  <2>6. CASE \E x \in ToSet(d.nested) : IsNested(e, m, d, x)
    <3>1. PICK x \in ToSet(d.nested) : IsNested(e, m, d, x)
      BY <2>6
    <3>2. CASE e = Entry(m, d, "definition", x.what, x.name, NestedKey(m, d, x))
      <4>1. EntryCase(e, 9)
        BY <2>1, <3>2 DEF EntryCase, OfNested
      <4> QED BY <4>1 DEF Domains
    <3>3. CASE e = Entry(m, d, "test", x.what, x.name, TestKey(m, d, x))
      <4>1. EntryCase(e, 8)
        BY <2>1, <3>3 DEF EntryCase, OfNested
      <4> QED BY <4>1 DEF Domains
    <3>4. CASE e = Entry(m, d, "generated", x.what, x.name, VariantKey(m, d, x))
      <4>1. EntryCase(e, 6)
        BY <2>1, <3>4 DEF EntryCase, OfNested
      <4> QED BY <4>1 DEF Domains
    <3> QED BY <3>1, <3>2, <3>3, <3>4 DEF IsNested
  <2> QED BY <2>1, <2>2, <2>3, <2>4, <2>5, <2>6 DEF IsEntry, IsOwn
<1> QED
  BY <1>1, <1>2, DeclaredAre

(* What a case says of the place and of the key.                           *)
IsOf(e, m, d, domain, what, name, key) ==
  /\ m \in ModuleSource /\ d \in DeclarationSource
  /\ e.place = <<e.place[1], e.place[2], e.place[3], e.place[4]>>
  /\ e.place[1] = domain /\ e.place[2] = PlaceOf(m, d) /\ e.place[3] = what /\ e.place[4] = name
  /\ e.record.key = key /\ e.record.digest = Digest(key) /\ e.record.domain = domain
  /\ e.record.fingerprint = <<m.path, d.start>>

LEMMA EntryIsOf ==
  ASSUME NEW m \in ModuleSource, NEW d \in DeclarationSource, NEW domain, NEW what, NEW name,
         NEW key, NEW e, e = Entry(m, d, domain, what, name, key)
  PROVE  IsOf(e, m, d, domain, what, name, key)
<1>1. /\ e.place = <<domain, PlaceOf(m, d), what, name>> /\ e.record.key = key
      /\ e.record.digest = Digest(key) /\ e.record.domain = domain
      /\ e.record.fingerprint = <<m.path, d.start>>
  BY DEF Entry, Record
<1> QED
  BY <1>1 DEF IsOf

LEMMA OwnCase ==
  ASSUME revision \in Revisions, NEW m, NEW d, NEW domain, NEW name, NEW key,
         NEW e, OfOwn(e, m, d, domain, name, key)
  PROVE  IsOf(e, m, d, domain, "", name, key)
<1>1. Declares(m, d) /\ e = Entry(m, d, domain, "", name, key)
  BY DEF OfOwn
<1>2. m \in ModuleSource /\ d \in DeclarationSource
  BY <1>1, DeclaresTypes
<1> QED
  BY <1>1, <1>2, EntryIsOf

LEMMA NestedCase ==
  ASSUME revision \in Revisions, NEW m, NEW d, NEW x, NEW domain, NEW key,
         NEW e, OfNested(e, m, d, x, domain, key)
  PROVE  /\ IsOf(e, m, d, domain, x.what, x.name, key)
         /\ x \in ToSet(d.nested) /\ x.what \in NestedKinds /\ x.what # ""
<1>1. Declares(m, d) /\ x \in ToSet(d.nested) /\ e = Entry(m, d, domain, x.what, x.name, key)
  BY DEF OfNested
<1>2. m \in ModuleSource /\ d \in DeclarationSource
  BY <1>1, DeclaresTypes
<1>3. x.what \in NestedKinds
  BY <1>1, <1>2, DeclarationFields
<1>4. x.what # ""
  BY <1>3 DEF NestedKinds
<1> QED
  BY <1>1, <1>2, <1>3, <1>4, EntryIsOf

(* The case of an entry, by its place and by its key.                      *)
NameOf(n) == CASE n = 1 -> "module" [] n = 2 -> "definition" [] n = 9 -> "definition"
               [] n = 3 -> "type" [] n = 4 -> "pool" [] n = 6 -> "generated"
               [] n = 7 -> "source_site" [] n = 8 -> "test"

Shape(e, name, code) ==
  /\ e.place[1] = name
  /\ e.record.domain = name /\ e.record.digest = Digest(e.record.key)
  /\ e.record.key \in Seq(Nat) /\ e.record.key[4] \in {1, 2} /\ e.record.key[2] = code

LEMMA ShapeOf ==
  ASSUME revision \in Revisions, NEW e, NEW m, NEW d, NEW domain, NEW what, NEW name, NEW key,
         NEW code, IsOf(e, m, d, domain, what, name, key), Begins(key, m, code)
  PROVE  Shape(e, domain, code) /\ e.place[3] = what
<1>1. /\ m \in ModuleSource /\ e.place[1] = domain /\ e.place[3] = what
      /\ e.record.key = key /\ e.record.digest = Digest(key) /\ e.record.domain = domain
  BY DEF IsOf
<1>2. key \in Seq(Nat) /\ key[2] = code /\ key[4] \in {1, 2}
  BY <1>1, ModuleFields DEF Begins
<1> QED
  BY <1>1, <1>2 DEF Shape

CodeOf(n) == IF n = 9 THEN 2 ELSE n

Nesting == {6, 8, 9}

LEMMA Names ==
  /\ NameOf(1) = "module" /\ NameOf(2) = "definition" /\ NameOf(9) = "definition"
  /\ NameOf(3) = "type" /\ NameOf(4) = "pool" /\ NameOf(6) = "generated"
  /\ NameOf(7) = "source_site" /\ NameOf(8) = "test"
BY DEF NameOf

NestedCode(k) == k \in {10, 11, 12}

LEMMA CaseIs ==
  ASSUME revision \in Revisions, NEW e, NEW n \in Domains, EntryCase(e, n)
  PROVE  /\ Shape(e, NameOf(n), CodeOf(n)) /\ (n \in Nesting <=> e.place[3] # "")
         /\ n = 2 => ~ NestedCode(e.record.key[8])
         /\ n = 9 => NestedCode(e.record.key[8])
<1> DEFINE Goal == /\ Shape(e, NameOf(n), CodeOf(n)) /\ (n \in Nesting <=> e.place[3] # "")
                   /\ n = 2 => ~ NestedCode(e.record.key[8])
                   /\ n = 9 => NestedCode(e.record.key[8])
<1>1. ASSUME n = 1 PROVE Goal
  <2>1. PICK m : OfModule(e, m)
    BY <1>1 DEF EntryCase
  <2>2. m \in ModuleSource
    BY <2>1, Sources DEF OfModule
  <2>3. /\ e.place = <<"module", <<m.path>>, "", 0>> /\ e.record.key = ModuleKey(m)
        /\ e.record.digest = Digest(ModuleKey(m)) /\ e.record.domain = "module"
    BY <2>1 DEF OfModule, ModuleEntry, Record
  <2>4. ModuleKey(m) \in Seq(Nat) /\ ModuleKey(m)[2] = 1 /\ ModuleKey(m)[4] \in {1, 2}
    BY <2>2, ModuleFields, ModuleKeyIs DEF Begins
  <2>5. e.place[1] = "module" /\ e.place[3] = ""
    <3> DEFINE p == <<m.path>>
               z == 0
    <3>1. e.place = <<"module", p, "", z>>
      BY <2>3
    <3> HIDE DEF p, z
    <3> DEFINE a == "module"
               b == ""
    <3>2. e.place = <<a, p, b, z>>
      BY <3>1
    <3> HIDE DEF a, b
    <3>3. e.place[1] = a /\ e.place[3] = b
      BY <3>2
    <3> QED BY <3>3 DEF a, b
  <2>6. Shape(e, "module", 1)
    BY <2>3, <2>4, <2>5 DEF Shape
  <2> QED BY <1>1, <2>5, <2>6, Names DEF CodeOf, Nesting
<1>2. ASSUME n = 2 PROVE Goal
  <2>1. PICK m, d : OfOwn(e, m, d, "definition", 0, DefinitionKey(m, d))
    BY <1>2 DEF EntryCase
  <2>2. IsOf(e, m, d, "definition", "", 0, DefinitionKey(m, d))
    BY <2>1, OwnCase
  <2>3. Begins(DefinitionKey(m, d), m, 2)
    BY <2>2, DefinitionKeyIs DEF IsOf
  <2>4. Shape(e, "definition", 2) /\ e.place[3] = ""
    BY <2>2, <2>3, ShapeOf
  <2>5. ~ NestedCode(e.record.key[8])
    BY <2>2, DefinitionKeyIs, DeclarationFields, KindsNested DEF IsOf, NestedCode
  <2>6. NameOf(n) = "definition" /\ CodeOf(n) = 2 /\ n \notin Nesting /\ n # 9
    BY <1>2, Names DEF CodeOf, Nesting
  <2> QED BY <2>4, <2>5, <2>6
<1>3. ASSUME n = 7 PROVE Goal
  <2>1. PICK m, d : OfOwn(e, m, d, "source_site", d.start, SiteKey(m, d))
    BY <1>3 DEF EntryCase
  <2>2. IsOf(e, m, d, "source_site", "", d.start, SiteKey(m, d))
    BY <2>1, OwnCase
  <2>3. Begins(SiteKey(m, d), m, 7)
    BY <2>2, OtherKeysAre DEF IsOf
  <2>4. Shape(e, "source_site", 7) /\ e.place[3] = ""
    BY <2>2, <2>3, ShapeOf
  <2> QED BY <1>3, <2>4, Names DEF CodeOf, Nesting
<1>4. ASSUME n = 3 PROVE Goal
  <2>1. PICK m, d : OfOwn(e, m, d, "type", 0, OwnKey(m, d, "type"))
    BY <1>4 DEF EntryCase
  <2>2. IsOf(e, m, d, "type", "", 0, OwnKey(m, d, "type"))
    BY <2>1, OwnCase
  <2>3. Begins(OwnKey(m, d, "type"), m, 3)
    BY <2>2, OtherKeysAre DEF IsOf
  <2>4. Shape(e, "type", 3) /\ e.place[3] = ""
    BY <2>2, <2>3, ShapeOf
  <2> QED BY <1>4, <2>4, Names DEF CodeOf, Nesting
<1>5. ASSUME n = 4 PROVE Goal
  <2>1. PICK m, d : OfOwn(e, m, d, "pool", 0, OwnKey(m, d, "pool"))
    BY <1>5 DEF EntryCase
  <2>2. IsOf(e, m, d, "pool", "", 0, OwnKey(m, d, "pool"))
    BY <2>1, OwnCase
  <2>3. Begins(OwnKey(m, d, "pool"), m, 4)
    BY <2>2, OtherKeysAre DEF IsOf
  <2>4. Shape(e, "pool", 4) /\ e.place[3] = ""
    BY <2>2, <2>3, ShapeOf
  <2> QED BY <1>5, <2>4, Names DEF CodeOf, Nesting
<1>6. ASSUME n = 9 PROVE Goal
  <2>1. PICK m, d, x : OfNested(e, m, d, x, "definition", NestedKey(m, d, x))
    BY <1>6 DEF EntryCase
  <2>2. /\ IsOf(e, m, d, "definition", x.what, x.name, NestedKey(m, d, x))
        /\ x \in ToSet(d.nested) /\ x.what \in NestedKinds /\ x.what # ""
    BY <2>1, NestedCase
  <2>3. Begins(NestedKey(m, d, x), m, 2)
    BY <2>2, NestedKeyIs DEF IsOf
  <2>4. Shape(e, "definition", 2) /\ e.place[3] = x.what
    BY <2>2, <2>3, ShapeOf
  <2>5. NestedCode(e.record.key[8])
    <3>1. KindName[x.what] \in {10, 11, 12}
      BY <2>2, KindsNested
    <3> QED BY <2>2, <3>1, NestedKeyIs DEF IsOf, NestedCode
  <2>6. NameOf(n) = "definition" /\ CodeOf(n) = 2 /\ n \in Nesting /\ n # 2
    BY <1>6, Names DEF CodeOf, Nesting
  <2> QED BY <2>2, <2>4, <2>5, <2>6
<1>7. ASSUME n = 8 PROVE Goal
  <2>1. PICK m, d, x : OfNested(e, m, d, x, "test", TestKey(m, d, x))
    BY <1>7 DEF EntryCase
  <2>2. /\ IsOf(e, m, d, "test", x.what, x.name, TestKey(m, d, x))
        /\ x \in ToSet(d.nested) /\ x.what \in NestedKinds /\ x.what # ""
    BY <2>1, NestedCase
  <2>3. Begins(TestKey(m, d, x), m, 8)
    BY <2>2, OtherKeysAre DEF IsOf
  <2>4. Shape(e, "test", 8) /\ e.place[3] = x.what
    BY <2>2, <2>3, ShapeOf
  <2> QED BY <1>7, <2>2, <2>4, Names DEF CodeOf, Nesting
<1>8. ASSUME n = 6 PROVE Goal
  <2>1. PICK m, d, x : OfNested(e, m, d, x, "generated", VariantKey(m, d, x))
    BY <1>8 DEF EntryCase
  <2>2. /\ IsOf(e, m, d, "generated", x.what, x.name, VariantKey(m, d, x))
        /\ x \in ToSet(d.nested) /\ x.what \in NestedKinds /\ x.what # ""
    BY <2>1, NestedCase
  <2>3. Begins(VariantKey(m, d, x), m, 6)
    BY <2>2, OtherKeysAre DEF IsOf
  <2>4. Shape(e, "generated", 6) /\ e.place[3] = x.what
    BY <2>2, <2>3, ShapeOf
  <2> QED BY <1>8, <2>2, <2>4, Names DEF CodeOf, Nesting
<1> HIDE DEF Goal
<1> QED
  <2>1. Goal
    BY <1>1, <1>2, <1>3, <1>4, <1>5, <1>6, <1>7, <1>8 DEF Domains
  <2> QED BY <2>1 DEF Goal

LEMMA NamesDiffer ==
  ASSUME NEW n \in Domains, NEW k \in Domains, NameOf(n) = NameOf(k),
         n \in Nesting <=> k \in Nesting
  PROVE  n = k
BY Names DEF Domains, Nesting

LEMMA CasesDiffer ==
  ASSUME revision \in Revisions, NEW e, NEW f, NEW n \in Domains, NEW k \in Domains,
         EntryCase(e, n), EntryCase(f, k),
         e.place = f.place \/ e.record.key = f.record.key
  PROVE  n = k
<1>1. /\ Shape(e, NameOf(n), CodeOf(n)) /\ (n \in Nesting <=> e.place[3] # "")
      /\ n = 2 => ~ NestedCode(e.record.key[8])
      /\ n = 9 => NestedCode(e.record.key[8])
  BY CaseIs
<1>2. /\ Shape(f, NameOf(k), CodeOf(k)) /\ (k \in Nesting <=> f.place[3] # "")
      /\ k = 2 => ~ NestedCode(f.record.key[8])
      /\ k = 9 => NestedCode(f.record.key[8])
  BY CaseIs
<1>3. CASE e.place = f.place
  <2>1. NameOf(n) = NameOf(k) /\ (n \in Nesting <=> k \in Nesting)
    BY <1>1, <1>2, <1>3 DEF Shape
  <2> QED BY <2>1, NamesDiffer
<1>4. CASE e.record.key = f.record.key
  <2>1. CodeOf(n) = CodeOf(k)
    BY <1>1, <1>2, <1>4 DEF Shape
  <2>2. ~ (n = 2 /\ k = 9) /\ ~ (n = 9 /\ k = 2)
    BY <1>1, <1>2, <1>4
  <2> QED BY <2>1, <2>2 DEF CodeOf, Domains
<1> QED
  BY <1>3, <1>4

(* What the keys of a declaration depend on.                               *)
LEMMA KeysDepend ==
  ASSUME NEW m, NEW d, NEW f, d.kind = f.kind, d.name = f.name
  PROVE  /\ DefinitionKey(m, d) = DefinitionKey(m, f)
         /\ \A domain : OwnKey(m, d, domain) = OwnKey(m, f, domain)
         /\ d.start = f.start => SiteKey(m, d) = SiteKey(m, f)
         /\ \A x, y : x.what = y.what /\ x.name = y.name =>
              /\ NestedKey(m, d, x) = NestedKey(m, f, y)
              /\ TestKey(m, d, x) = TestKey(m, f, y)
              /\ VariantKey(m, d, x) = VariantKey(m, f, y)
<1>1. DefinitionKey(m, d) = DefinitionKey(m, f)
  BY DEF DefinitionKey
<1>2. \A domain : OwnKey(m, d, domain) = OwnKey(m, f, domain)
  BY <1>1 DEF OwnKey
<1>3. d.start = f.start => SiteKey(m, d) = SiteKey(m, f)
  BY <1>1 DEF SiteKey
<1>4. ASSUME NEW x, NEW y, x.what = y.what, x.name = y.name
      PROVE  NestedKey(m, d, x) = NestedKey(m, f, y)
  BY <1>1, <1>4 DEF NestedKey
<1>5. ASSUME NEW x, NEW y, x.what = y.what, x.name = y.name
      PROVE  TestKey(m, d, x) = TestKey(m, f, y) /\ VariantKey(m, d, x) = VariantKey(m, f, y)
  BY <1>1, <1>4, <1>5 DEF TestKey, VariantKey
<1> QED
  BY <1>1, <1>2, <1>3, <1>4, <1>5

LEMMA OwnersSame ==
  ASSUME revision \in Revisions, NEW m, NEW d, Declares(m, d), NEW n, NEW f, Declares(n, f),
         m.path = n.path
  PROVE  m = n
BY Sources DEF Declares

OwnerIs(e, m, d) == e.place[2] = PlaceOf(m, d)

NameIs(e, name) == e.place[4] = name

LEMMA OwnerOf ==
  ASSUME NEW e, NEW m, NEW d, NEW domain, NEW what, NEW name, NEW key,
         IsOf(e, m, d, domain, what, name, key)
  PROVE  OwnerIs(e, m, d) /\ NameIs(e, name) /\ e.record.key = key
BY DEF IsOf, OwnerIs, NameIs

LEMMA PlaceOwner ==
  ASSUME NEW e, NEW g, e.place = g.place, NEW m, NEW d, NEW n, NEW f,
         OwnerIs(e, m, d), OwnerIs(g, n, f)
  PROVE  m.path = n.path /\ d.kind = f.kind /\ d.name = f.name
BY DEF OwnerIs, PlaceOf

LEMMA PlaceParts ==
  ASSUME NEW e, NEW g, e.place = g.place,
         NEW m, NEW d, NEW domain, NEW what, NEW name, NEW key,
         IsOf(e, m, d, domain, what, name, key),
         NEW n, NEW f, NEW other, NEW whose, NEW called, NEW code,
         IsOf(g, n, f, other, whose, called, code)
  PROVE  m.path = n.path /\ d.kind = f.kind /\ d.name = f.name /\ what = whose /\ name = called
<1>1. PlaceOf(m, d) = PlaceOf(n, f) /\ what = whose /\ name = called
  BY DEF IsOf
<1> QED
  BY <1>1 DEF PlaceOf

(* Two entries at one place have one key.                                  *)
LEMMA KeyAtPlace ==
  ASSUME revision \in Revisions, NEW e \in Declared, NEW g \in Declared, e.place = g.place
  PROVE  e.record.key = g.record.key
<1>1. PICK n \in Domains : EntryCase(e, n)
  BY EntryCases
<1>2. EntryCase(g, n)
  <2>1. PICK k \in Domains : EntryCase(g, k)
    BY EntryCases
  <2> QED BY <1>1, <2>1, CasesDiffer
<1>3. CASE n = 1
  <2>1. PICK m : OfModule(e, m)
    BY <1>1, <1>3 DEF EntryCase
  <2>2. PICK p : OfModule(g, p)
    BY <1>2, <1>3 DEF EntryCase
  <2>3. m.path = p.path
    <3>1. <<"module", <<m.path>>, "", 0>> = <<"module", <<p.path>>, "", 0>>
      BY <2>1, <2>2 DEF OfModule, ModuleEntry
    <3> QED BY <3>1
  <2>4. m = p
    BY <2>1, <2>2, <2>3, Sources DEF OfModule
  <2> QED BY <2>1, <2>2, <2>4 DEF OfModule
<1>4. CASE n = 2
  <2>1. PICK m, d : OfOwn(e, m, d, "definition", 0, DefinitionKey(m, d))
    BY <1>1, <1>4 DEF EntryCase
  <2>2. PICK p, f : OfOwn(g, p, f, "definition", 0, DefinitionKey(p, f))
    BY <1>2, <1>4 DEF EntryCase
  <2>3. /\ IsOf(e, m, d, "definition", "", 0, DefinitionKey(m, d))
        /\ IsOf(g, p, f, "definition", "", 0, DefinitionKey(p, f))
    BY <2>1, <2>2, OwnCase
  <2>0. /\ OwnerIs(e, m, d) /\ OwnerIs(g, p, f)
        /\ e.record.key = DefinitionKey(m, d) /\ g.record.key = DefinitionKey(p, f)
    BY <2>3, OwnerOf
  <2>4. m.path = p.path /\ d.kind = f.kind /\ d.name = f.name
    BY <2>0, PlaceOwner
  <2>5. m = p
    BY <2>1, <2>2, <2>4, OwnersSame DEF OfOwn
  <2> QED BY <2>0, <2>4, <2>5, KeysDepend
<1>5. CASE n = 7
  <2>1. PICK m, d : OfOwn(e, m, d, "source_site", d.start, SiteKey(m, d))
    BY <1>1, <1>5 DEF EntryCase
  <2>2. PICK p, f : OfOwn(g, p, f, "source_site", f.start, SiteKey(p, f))
    BY <1>2, <1>5 DEF EntryCase
  <2>3. /\ IsOf(e, m, d, "source_site", "", d.start, SiteKey(m, d))
        /\ IsOf(g, p, f, "source_site", "", f.start, SiteKey(p, f))
    BY <2>1, <2>2, OwnCase
  <2>0. /\ OwnerIs(e, m, d) /\ OwnerIs(g, p, f) /\ NameIs(e, d.start) /\ NameIs(g, f.start)
        /\ e.record.key = SiteKey(m, d) /\ g.record.key = SiteKey(p, f)
    BY <2>3, OwnerOf
  <2>4. m.path = p.path /\ d.kind = f.kind /\ d.name = f.name /\ d.start = f.start
    BY <2>0, PlaceOwner DEF NameIs
  <2>5. m = p
    BY <2>1, <2>2, <2>4, OwnersSame DEF OfOwn
  <2> QED BY <2>0, <2>4, <2>5, KeysDepend
<1>6. CASE n = 3
  <2>1. PICK m, d : OfOwn(e, m, d, "type", 0, OwnKey(m, d, "type"))
    BY <1>1, <1>6 DEF EntryCase
  <2>2. PICK p, f : OfOwn(g, p, f, "type", 0, OwnKey(p, f, "type"))
    BY <1>2, <1>6 DEF EntryCase
  <2>3. /\ IsOf(e, m, d, "type", "", 0, OwnKey(m, d, "type"))
        /\ IsOf(g, p, f, "type", "", 0, OwnKey(p, f, "type"))
    BY <2>1, <2>2, OwnCase
  <2>0. /\ OwnerIs(e, m, d) /\ OwnerIs(g, p, f)
        /\ e.record.key = OwnKey(m, d, "type") /\ g.record.key = OwnKey(p, f, "type")
    BY <2>3, OwnerOf
  <2>4. m.path = p.path /\ d.kind = f.kind /\ d.name = f.name
    BY <2>0, PlaceOwner
  <2>5. m = p
    BY <2>1, <2>2, <2>4, OwnersSame DEF OfOwn
  <2> QED BY <2>0, <2>4, <2>5, KeysDepend
<1>7. CASE n = 4
  <2>1. PICK m, d : OfOwn(e, m, d, "pool", 0, OwnKey(m, d, "pool"))
    BY <1>1, <1>7 DEF EntryCase
  <2>2. PICK p, f : OfOwn(g, p, f, "pool", 0, OwnKey(p, f, "pool"))
    BY <1>2, <1>7 DEF EntryCase
  <2>3. /\ IsOf(e, m, d, "pool", "", 0, OwnKey(m, d, "pool"))
        /\ IsOf(g, p, f, "pool", "", 0, OwnKey(p, f, "pool"))
    BY <2>1, <2>2, OwnCase
  <2>0. /\ OwnerIs(e, m, d) /\ OwnerIs(g, p, f)
        /\ e.record.key = OwnKey(m, d, "pool") /\ g.record.key = OwnKey(p, f, "pool")
    BY <2>3, OwnerOf
  <2>4. m.path = p.path /\ d.kind = f.kind /\ d.name = f.name
    BY <2>0, PlaceOwner
  <2>5. m = p
    BY <2>1, <2>2, <2>4, OwnersSame DEF OfOwn
  <2> QED BY <2>0, <2>4, <2>5, KeysDepend
<1>8. CASE n = 9
  <2>1. PICK m, d, x : OfNested(e, m, d, x, "definition", NestedKey(m, d, x))
    BY <1>1, <1>8 DEF EntryCase
  <2>2. PICK p, f, y : OfNested(g, p, f, y, "definition", NestedKey(p, f, y))
    BY <1>2, <1>8 DEF EntryCase
  <2>3. /\ IsOf(e, m, d, "definition", x.what, x.name, NestedKey(m, d, x))
        /\ IsOf(g, p, f, "definition", y.what, y.name, NestedKey(p, f, y))
    BY <2>1, <2>2, NestedCase
  <2>4. /\ m.path = p.path /\ d.kind = f.kind /\ d.name = f.name /\ x.what = y.what
        /\ x.name = y.name
    BY <2>3, PlaceParts
  <2>5. m = p
    BY <2>1, <2>2, <2>4, OwnersSame DEF OfNested
  <2> QED BY <2>3, <2>4, <2>5, KeysDepend DEF IsOf
<1>9. CASE n = 8
  <2>1. PICK m, d, x : OfNested(e, m, d, x, "test", TestKey(m, d, x))
    BY <1>1, <1>9 DEF EntryCase
  <2>2. PICK p, f, y : OfNested(g, p, f, y, "test", TestKey(p, f, y))
    BY <1>2, <1>9 DEF EntryCase
  <2>3. /\ IsOf(e, m, d, "test", x.what, x.name, TestKey(m, d, x))
        /\ IsOf(g, p, f, "test", y.what, y.name, TestKey(p, f, y))
    BY <2>1, <2>2, NestedCase
  <2>4. /\ m.path = p.path /\ d.kind = f.kind /\ d.name = f.name /\ x.what = y.what
        /\ x.name = y.name
    BY <2>3, PlaceParts
  <2>5. m = p
    BY <2>1, <2>2, <2>4, OwnersSame DEF OfNested
  <2> QED BY <2>3, <2>4, <2>5, KeysDepend DEF IsOf
<1>10. CASE n = 6
  <2>1. PICK m, d, x : OfNested(e, m, d, x, "generated", VariantKey(m, d, x))
    BY <1>1, <1>10 DEF EntryCase
  <2>2. PICK p, f, y : OfNested(g, p, f, y, "generated", VariantKey(p, f, y))
    BY <1>2, <1>10 DEF EntryCase
  <2>3. /\ IsOf(e, m, d, "generated", x.what, x.name, VariantKey(m, d, x))
        /\ IsOf(g, p, f, "generated", y.what, y.name, VariantKey(p, f, y))
    BY <2>1, <2>2, NestedCase
  <2>4. /\ m.path = p.path /\ d.kind = f.kind /\ d.name = f.name /\ x.what = y.what
        /\ x.name = y.name
    BY <2>3, PlaceParts
  <2>5. m = p
    BY <2>1, <2>2, <2>4, OwnersSame DEF OfNested
  <2>6. VariantKey(m, d, x) = VariantKey(m, f, y)
    BY <2>4, KeysDepend
  <2> QED BY <2>3, <2>5, <2>6 DEF IsOf
<1> QED
  BY <1>1, <1>3, <1>4, <1>5, <1>6, <1>7, <1>8, <1>9, <1>10 DEF Domains

(* The four parts of a place.                                              *)
Fourfold(p) == p = <<p[1], p[2], p[3], p[4]>>

LEMMA SamePlace ==
  ASSUME NEW e, NEW g, Fourfold(e.place), Fourfold(g.place),
         NEW m, NEW d, NEW n, NEW f, OwnerIs(e, m, d), OwnerIs(g, n, f),
         m = n, d.kind = f.kind, d.name = f.name,
         e.place[1] = g.place[1], e.place[3] = g.place[3], e.place[4] = g.place[4]
  PROVE  e.place = g.place
<1>1. e.place[2] = g.place[2]
  BY DEF OwnerIs, PlaceOf
<1> QED
  BY <1>1 DEF Fourfold

LEMMA PlaceIs ==
  ASSUME NEW e, NEW m, NEW d, NEW domain, NEW what, NEW name, NEW key,
         IsOf(e, m, d, domain, what, name, key)
  PROVE  /\ Fourfold(e.place) /\ OwnerIs(e, m, d) /\ e.record.key = key
         /\ e.place[1] = domain /\ e.place[3] = what /\ e.place[4] = name
         /\ m \in ModuleSource /\ d \in DeclarationSource
BY DEF IsOf, OwnerIs, Fourfold

LEMMA OwnPlaces ==
  ASSUME NEW e, NEW g, NEW m, NEW d, NEW n, NEW f, NEW domain, NEW what, NEW name, NEW called,
         NEW key, NEW code,
         IsOf(e, m, d, domain, what, name, key), IsOf(g, n, f, domain, what, called, code),
         m = n, d.kind = f.kind, d.name = f.name, name = called
  PROVE  e.place = g.place
<1>1. /\ Fourfold(e.place) /\ OwnerIs(e, m, d)
      /\ e.place[1] = domain /\ e.place[3] = what /\ e.place[4] = name
  BY PlaceIs
<1>2. /\ Fourfold(g.place) /\ OwnerIs(g, n, f)
      /\ g.place[1] = domain /\ g.place[3] = what /\ g.place[4] = called
  BY PlaceIs
<1> QED
  BY <1>1, <1>2, SamePlace

LEMMA OwnFacts ==
  ASSUME revision \in Revisions, NEW m, NEW d, NEW domain, NEW name, NEW key,
         NEW e, OfOwn(e, m, d, domain, name, key)
  PROVE  e.record.key = key /\ Declares(m, d) /\ m \in ModuleSource /\ d \in DeclarationSource
<1>1. Declares(m, d)
  BY DEF OfOwn
<1>2. m \in ModuleSource /\ d \in DeclarationSource
  BY <1>1, DeclaresTypes
<1>3. e.record.key = key
  <2> DEFINE blank == ""
  <2> HIDE DEF blank
  <2>1. IsOf(e, m, d, domain, blank, name, key)
    BY OwnCase DEF blank
  <2> QED BY <2>1, OwnerOf
<1> QED BY <1>1, <1>2, <1>3

(* Where digests do not clash, two entries with one key have one place.    *)
LEMMA PlaceAtKey ==
  ASSUME revision \in Revisions, OneKey(Declared), NEW e \in Declared, NEW g \in Declared,
         e.record.key = g.record.key
  PROVE  e.place = g.place
<1>1. PICK n \in Domains : EntryCase(e, n)
  BY EntryCases
<1>2. EntryCase(g, n)
  <2>1. PICK k \in Domains : EntryCase(g, k)
    BY EntryCases
  <2> QED BY <1>1, <2>1, CasesDiffer
<1>3. CASE n = 1
  <2>1. PICK m : OfModule(e, m)
    BY <1>1, <1>3 DEF EntryCase
  <2>2. PICK p : OfModule(g, p)
    BY <1>2, <1>3 DEF EntryCase
  <2>3. ModuleKey(m) = ModuleKey(p)
    BY <2>1, <2>2 DEF OfModule, ModuleEntry, Record
  <2>4. m = p
    BY <2>1, <2>2, <2>3, SameModule DEF OfModule
  <2> QED BY <2>1, <2>2, <2>4 DEF OfModule
<1>4. CASE n = 2
  <2>1. PICK m, d : OfOwn(e, m, d, "definition", 0, DefinitionKey(m, d))
    BY <1>1, <1>4 DEF EntryCase
  <2>2. PICK p, f : OfOwn(g, p, f, "definition", 0, DefinitionKey(p, f))
    BY <1>2, <1>4 DEF EntryCase
  <2>3. IsOf(e, m, d, "definition", "", 0, DefinitionKey(m, d))
    BY <2>1, OwnCase
  <2>4. IsOf(g, p, f, "definition", "", 0, DefinitionKey(p, f))
    BY <2>2, OwnCase
  <2>5. DefinitionKey(m, d) = DefinitionKey(p, f)
    <3>1. e.record.key = DefinitionKey(m, d)
      BY <2>1, OwnFacts
    <3>2. g.record.key = DefinitionKey(p, f)
      BY <2>2, OwnFacts
    <3> QED BY <3>1, <3>2
  <2>6. m = p /\ d.kind = f.kind /\ d.name = f.name
    <3>1. Declares(m, d) /\ Declares(p, f)
      BY <2>1, <2>2, OwnFacts
    <3> QED BY <3>1, <2>5, SameDeclaration
  <2> QED BY <2>3, <2>4, <2>6, OwnPlaces
<1>5. CASE n = 7
  <2>1. PICK m, d : OfOwn(e, m, d, "source_site", d.start, SiteKey(m, d))
    BY <1>1, <1>5 DEF EntryCase
  <2>2. PICK p, f : OfOwn(g, p, f, "source_site", f.start, SiteKey(p, f))
    BY <1>2, <1>5 DEF EntryCase
  <2>3. IsOf(e, m, d, "source_site", "", d.start, SiteKey(m, d))
    BY <2>1, OwnCase
  <2>4. IsOf(g, p, f, "source_site", "", f.start, SiteKey(p, f))
    BY <2>2, OwnCase
  <2>5. SiteKey(m, d) = SiteKey(p, f)
    <3>1. e.record.key = SiteKey(m, d)
      BY <2>1, OwnFacts
    <3>2. g.record.key = SiteKey(p, f)
      BY <2>2, OwnFacts
    <3> QED BY <3>1, <3>2
  <2>6. /\ m \in ModuleSource /\ d \in DeclarationSource
        /\ p \in ModuleSource /\ f \in DeclarationSource
    BY <2>1, <2>2, OwnFacts
  <2>7. d.start = f.start /\ Digest(DefinitionKey(m, d)) = Digest(DefinitionKey(p, f))
    <3>1. SiteKey(m, d)[6] = Digest(DefinitionKey(m, d)) /\ SiteKey(m, d)[8] = d.start
      BY <2>6, OtherKeysAre
    <3>2. SiteKey(p, f)[6] = Digest(DefinitionKey(p, f)) /\ SiteKey(p, f)[8] = f.start
      BY <2>6, OtherKeysAre
    <3> QED BY <2>5, <3>1, <3>2
  <2>8. m = p /\ d.kind = f.kind /\ d.name = f.name
    <3>1. Declares(m, d) /\ Declares(p, f)
      BY <2>1, <2>2, OwnFacts
    <3> QED BY <3>1, <2>7, SameDeclaration
  <2> QED BY <2>3, <2>4, <2>7, <2>8, OwnPlaces
<1>6. CASE n = 3
  <2>1. PICK m, d : OfOwn(e, m, d, "type", 0, OwnKey(m, d, "type"))
    BY <1>1, <1>6 DEF EntryCase
  <2>2. PICK p, f : OfOwn(g, p, f, "type", 0, OwnKey(p, f, "type"))
    BY <1>2, <1>6 DEF EntryCase
  <2>3. IsOf(e, m, d, "type", "", 0, OwnKey(m, d, "type"))
    BY <2>1, OwnCase
  <2>4. IsOf(g, p, f, "type", "", 0, OwnKey(p, f, "type"))
    BY <2>2, OwnCase
  <2>5. OwnKey(m, d, "type") = OwnKey(p, f, "type")
    <3>1. e.record.key = OwnKey(m, d, "type")
      BY <2>1, OwnFacts
    <3>2. g.record.key = OwnKey(p, f, "type")
      BY <2>2, OwnFacts
    <3> QED BY <3>1, <3>2
  <2>6. /\ m \in ModuleSource /\ d \in DeclarationSource
        /\ p \in ModuleSource /\ f \in DeclarationSource
    BY <2>1, <2>2, OwnFacts
  <2>7. Digest(DefinitionKey(m, d)) = Digest(DefinitionKey(p, f))
    <3>1. OwnKey(m, d, "type")[6] = Digest(DefinitionKey(m, d))
      BY <2>6, OtherKeysAre
    <3>2. OwnKey(p, f, "type")[6] = Digest(DefinitionKey(p, f))
      BY <2>6, OtherKeysAre
    <3> QED BY <2>5, <3>1, <3>2
  <2>8. m = p /\ d.kind = f.kind /\ d.name = f.name
    <3>1. Declares(m, d) /\ Declares(p, f)
      BY <2>1, <2>2, OwnFacts
    <3> QED BY <3>1, <2>7, SameDeclaration
  <2> QED BY <2>3, <2>4, <2>8, OwnPlaces
<1>7. CASE n = 4
  <2>1. PICK m, d : OfOwn(e, m, d, "pool", 0, OwnKey(m, d, "pool"))
    BY <1>1, <1>7 DEF EntryCase
  <2>2. PICK p, f : OfOwn(g, p, f, "pool", 0, OwnKey(p, f, "pool"))
    BY <1>2, <1>7 DEF EntryCase
  <2>3. IsOf(e, m, d, "pool", "", 0, OwnKey(m, d, "pool"))
    BY <2>1, OwnCase
  <2>4. IsOf(g, p, f, "pool", "", 0, OwnKey(p, f, "pool"))
    BY <2>2, OwnCase
  <2>5. OwnKey(m, d, "pool") = OwnKey(p, f, "pool")
    <3>1. e.record.key = OwnKey(m, d, "pool")
      BY <2>1, OwnFacts
    <3>2. g.record.key = OwnKey(p, f, "pool")
      BY <2>2, OwnFacts
    <3> QED BY <3>1, <3>2
  <2>6. /\ m \in ModuleSource /\ d \in DeclarationSource
        /\ p \in ModuleSource /\ f \in DeclarationSource
    BY <2>1, <2>2, OwnFacts
  <2>7. Digest(DefinitionKey(m, d)) = Digest(DefinitionKey(p, f))
    <3>1. OwnKey(m, d, "pool")[6] = Digest(DefinitionKey(m, d))
      BY <2>6, OtherKeysAre
    <3>2. OwnKey(p, f, "pool")[6] = Digest(DefinitionKey(p, f))
      BY <2>6, OtherKeysAre
    <3> QED BY <2>5, <3>1, <3>2
  <2>8. m = p /\ d.kind = f.kind /\ d.name = f.name
    <3>1. Declares(m, d) /\ Declares(p, f)
      BY <2>1, <2>2, OwnFacts
    <3> QED BY <3>1, <2>7, SameDeclaration
  <2> QED BY <2>3, <2>4, <2>8, OwnPlaces
<1>8. CASE n = 9
  <2>1. PICK m, d, x : OfNested(e, m, d, x, "definition", NestedKey(m, d, x))
    BY <1>1, <1>8 DEF EntryCase
  <2>2. PICK p, f, y : OfNested(g, p, f, y, "definition", NestedKey(p, f, y))
    BY <1>2, <1>8 DEF EntryCase
  <2>3. IsOf(e, m, d, "definition", x.what, x.name, NestedKey(m, d, x)) /\ x \in ToSet(d.nested)
    BY <2>1, NestedCase
  <2>4. IsOf(g, p, f, "definition", y.what, y.name, NestedKey(p, f, y)) /\ y \in ToSet(f.nested)
    BY <2>2, NestedCase
  <2>5. NestedKey(m, d, x) = NestedKey(p, f, y)
    BY <2>3, <2>4, OwnerOf
  <2>6. m = p /\ d.kind = f.kind /\ d.name = f.name /\ x.what = y.what /\ x.name = y.name
    BY <2>1, <2>2, <2>3, <2>4, <2>5, SameNested DEF OfNested
  <2> QED BY <2>3, <2>4, <2>6, OwnPlaces
<1>9. CASE n = 8
  <2>1. PICK m, d, x : OfNested(e, m, d, x, "test", TestKey(m, d, x))
    BY <1>1, <1>9 DEF EntryCase
  <2>2. PICK p, f, y : OfNested(g, p, f, y, "test", TestKey(p, f, y))
    BY <1>2, <1>9 DEF EntryCase
  <2>3. IsOf(e, m, d, "test", x.what, x.name, TestKey(m, d, x)) /\ x \in ToSet(d.nested)
    BY <2>1, NestedCase
  <2>4. IsOf(g, p, f, "test", y.what, y.name, TestKey(p, f, y)) /\ y \in ToSet(f.nested)
    BY <2>2, NestedCase
  <2>5. TestKey(m, d, x) = TestKey(p, f, y)
    BY <2>3, <2>4, OwnerOf
  <2>6. /\ m \in ModuleSource /\ d \in DeclarationSource
        /\ p \in ModuleSource /\ f \in DeclarationSource
    BY <2>3, <2>4 DEF IsOf
  <2>7. Digest(NestedKey(m, d, x)) = Digest(NestedKey(p, f, y))
    <3>1. TestKey(m, d, x)[8] = Digest(NestedKey(m, d, x))
      BY <2>3, <2>6, OtherKeysAre
    <3>2. TestKey(p, f, y)[8] = Digest(NestedKey(p, f, y))
      BY <2>4, <2>6, OtherKeysAre
    <3> QED BY <2>5, <3>1, <3>2
  <2>8. m = p /\ d.kind = f.kind /\ d.name = f.name /\ x.what = y.what /\ x.name = y.name
    BY <2>1, <2>2, <2>3, <2>4, <2>7, SameNested DEF OfNested
  <2> QED BY <2>3, <2>4, <2>8, OwnPlaces
<1>10. CASE n = 6
  <2>1. PICK m, d, x : OfNested(e, m, d, x, "generated", VariantKey(m, d, x))
    BY <1>1, <1>10 DEF EntryCase
  <2>2. PICK p, f, y : OfNested(g, p, f, y, "generated", VariantKey(p, f, y))
    BY <1>2, <1>10 DEF EntryCase
  <2>3. IsOf(e, m, d, "generated", x.what, x.name, VariantKey(m, d, x)) /\ x \in ToSet(d.nested)
    BY <2>1, NestedCase
  <2>4. IsOf(g, p, f, "generated", y.what, y.name, VariantKey(p, f, y)) /\ y \in ToSet(f.nested)
    BY <2>2, NestedCase
  <2>5. VariantKey(m, d, x) = VariantKey(p, f, y)
    BY <2>3, <2>4, OwnerOf
  <2>6. /\ m \in ModuleSource /\ d \in DeclarationSource
        /\ p \in ModuleSource /\ f \in DeclarationSource
    BY <2>3, <2>4 DEF IsOf
  <2>7. Digest(NestedKey(m, d, x)) = Digest(NestedKey(p, f, y))
    <3>1. VariantKey(m, d, x)[6] = Digest(NestedKey(m, d, x))
      BY <2>3, <2>6, OtherKeysAre
    <3>2. VariantKey(p, f, y)[6] = Digest(NestedKey(p, f, y))
      BY <2>4, <2>6, OtherKeysAre
    <3> QED BY <2>5, <3>1, <3>2
  <2>8. m = p /\ d.kind = f.kind /\ d.name = f.name /\ x.what = y.what /\ x.name = y.name
    BY <2>1, <2>2, <2>3, <2>4, <2>7, SameNested DEF OfNested
  <2> QED BY <2>3, <2>4, <2>8, OwnPlaces
<1> QED
  BY <1>1, <1>3, <1>4, <1>5, <1>6, <1>7, <1>8, <1>9, <1>10 DEF Domains

(* A record has four fields.                                               *)
RecordIs(r) == r = [domain |-> r.domain, key |-> r.key, digest |-> r.digest,
                    fingerprint |-> r.fingerprint]

LEMMA RecordFormed ==
  ASSUME NEW domain, NEW key, NEW fingerprint, NEW r, r = Record(domain, key, fingerprint)
  PROVE  /\ RecordIs(r) /\ r.domain = domain /\ r.key = key /\ r.digest = Digest(key)
         /\ r.fingerprint = fingerprint
BY DEF Record, RecordIs

LEMMA RecordsSame ==
  ASSUME NEW r, NEW s, RecordIs(r), RecordIs(s), r.domain = s.domain, r.key = s.key,
         r.digest = s.digest, r.fingerprint = s.fingerprint
  PROVE  r = s
BY DEF RecordIs

LEMMA DeclaredFormed ==
  ASSUME revision \in Revisions, NEW e \in Declared
  PROVE  RecordIs(e.record) /\ e.record.digest = Digest(e.record.key)
<1>1. CASE \E m \in ToSet(revision.modules) : e = ModuleEntry(m)
  <2>1. PICK m : e = ModuleEntry(m)
    BY <1>1
  <2>2. e.record = Record("module", ModuleKey(m), <<m.path>>)
    BY <2>1 DEF ModuleEntry
  <2>3. RecordIs(e.record) /\ e.record.key = ModuleKey(m) /\ e.record.digest = Digest(ModuleKey(m))
    BY ONLY <2>2, RecordFormed
  <2> QED BY <2>3
<1>2. CASE \E m, d : Declares(m, d) /\ IsEntry(e, m, d)
  <2>1. PICK m, d : IsEntry(e, m, d)
    BY <1>2
  <2>2. \E domain, what, name, key : e = Entry(m, d, domain, what, name, key)
    BY <2>1 DEF IsEntry, IsOwn, IsNested
  <2> QED BY <2>2, RecordFormed DEF Entry
<1> QED BY <1>1, <1>2, DeclaredAre

LEMMA NamedOnce ==
  ASSUME revision \in Revisions, ~ Malformed, NEW m, NEW d, NEW f,
         Declares(m, d), Declares(m, f), d.name = f.name
  PROVE  d = f
<1>1. PICK i \in DOMAIN revision.modules : m = revision.modules[i]
  BY Sources DEF Declares, ToSet
<1>2. PICK j \in DOMAIN m.declarations : d = m.declarations[j]
  BY DEF Declares, ToSet
<1>3. PICK k \in DOMAIN m.declarations : f = m.declarations[k]
  BY DEF Declares, ToSet
<1> QED BY <1>1, <1>2, <1>3 DEF Malformed

LEMMA FingerprintOf ==
  ASSUME NEW e, NEW m, NEW d, NEW domain, NEW what, NEW name, NEW key,
         IsOf(e, m, d, domain, what, name, key)
  PROVE  e.record.fingerprint = <<m.path, d.start>>
BY DEF IsOf

LEMMA OwnedCase ==
  ASSUME revision \in Revisions, NEW e, NEW n \in Domains \ {1}, EntryCase(e, n)
  PROVE  \E m, d : Declares(m, d) /\ OwnerIs(e, m, d) /\ e.record.fingerprint = <<m.path, d.start>>
<1>1. ASSUME NEW m, NEW d, NEW domain, NEW name, NEW key, OfOwn(e, m, d, domain, name, key)
      PROVE  Declares(m, d) /\ OwnerIs(e, m, d) /\ e.record.fingerprint = <<m.path, d.start>>
  <2> DEFINE blank == ""
  <2> HIDE DEF blank
  <2>1. IsOf(e, m, d, domain, blank, name, key)
    BY <1>1, OwnCase DEF blank
  <2> QED BY <1>1, <2>1, OwnerOf, FingerprintOf DEF OfOwn
<1>2. ASSUME NEW m, NEW d, NEW x, NEW domain, NEW key, OfNested(e, m, d, x, domain, key)
      PROVE  Declares(m, d) /\ OwnerIs(e, m, d) /\ e.record.fingerprint = <<m.path, d.start>>
  <2>1. IsOf(e, m, d, domain, x.what, x.name, key)
    BY <1>2, NestedCase
  <2> QED BY <1>2, <2>1, OwnerOf, FingerprintOf DEF OfNested
<1>3. \/ \E m, d, domain, name, key : OfOwn(e, m, d, domain, name, key)
      \/ \E m, d, x, domain, key : OfNested(e, m, d, x, domain, key)
  <2>1. CASE n = 2 BY <2>1 DEF EntryCase
  <2>2. CASE n = 3 BY <2>2 DEF EntryCase
  <2>3. CASE n = 4 BY <2>3 DEF EntryCase
  <2>4. CASE n = 6 BY <2>4 DEF EntryCase
  <2>5. CASE n = 7 BY <2>5 DEF EntryCase
  <2>6. CASE n = 8 BY <2>6 DEF EntryCase
  <2>7. CASE n = 9 BY <2>7 DEF EntryCase
  <2> QED BY <2>1, <2>2, <2>3, <2>4, <2>5, <2>6, <2>7 DEF Domains
<1> QED BY <1>1, <1>2, <1>3

LEMMA Second == ASSUME NEW a, NEW b, NEW c, NEW d PROVE <<a, b, c, d>>[2] = b
OBVIOUS

(* A place that is not declared twice has one record.                      *)
LEMMA RecordAtPlace ==
  ASSUME revision \in Revisions, ~ Malformed, NEW e \in Declared, NEW g \in Declared,
         e.place = g.place
  PROVE  e.record = g.record
<1>1. PICK n \in Domains : EntryCase(e, n)
  BY EntryCases
<1>2. EntryCase(g, n)
  <2>1. PICK k \in Domains : EntryCase(g, k)
    BY EntryCases
  <2> QED BY <1>1, <2>1, CasesDiffer
<1>3. e.record.key = g.record.key
  BY KeyAtPlace
<1>4. e.record.digest = g.record.digest /\ RecordIs(e.record) /\ RecordIs(g.record)
  BY <1>3, DeclaredFormed
<1>5. e.record.domain = g.record.domain
  BY <1>1, <1>2, CaseIs DEF Shape
<1>6. CASE n = 1
  <2>1. PICK m : OfModule(e, m)
    BY <1>1, <1>6 DEF EntryCase
  <2>2. PICK p : OfModule(g, p)
    BY <1>2, <1>6 DEF EntryCase
  <2>3. e.record.fingerprint = <<m.path>> /\ e.place[2] = <<m.path>>
    <3>1. e = ModuleEntry(m)
      BY <2>1 DEF OfModule
    <3>2. e.record.fingerprint = <<m.path>> /\ e.place = <<"module", <<m.path>>, "", 0>>
      BY ONLY <3>1, ModuleEntryIs
    <3> DEFINE a == "module"
               b == <<m.path>>
               c == ""
    <3>3. e.place = <<a, b, c, 0>> /\ e.record.fingerprint = b
      BY <3>2
    <3> HIDE DEF a, b, c
    <3>4. e.place[2] = b
      BY ONLY <3>3, Second
    <3>5. e.record.fingerprint = b /\ e.place[2] = b
      BY <3>3, <3>4
    <3> QED BY <3>5 DEF b
  <2>4. g.record.fingerprint = <<p.path>> /\ g.place[2] = <<p.path>>
    <3>1. g = ModuleEntry(p)
      BY <2>2 DEF OfModule
    <3>2. g.record.fingerprint = <<p.path>> /\ g.place = <<"module", <<p.path>>, "", 0>>
      BY ONLY <3>1, ModuleEntryIs
    <3> DEFINE a == "module"
               b == <<p.path>>
               c == ""
    <3>3. g.place = <<a, b, c, 0>> /\ g.record.fingerprint = b
      BY <3>2
    <3> HIDE DEF a, b, c
    <3>4. g.place[2] = b
      BY ONLY <3>3, Second
    <3>5. g.record.fingerprint = b /\ g.place[2] = b
      BY <3>3, <3>4
    <3> QED BY <3>5 DEF b
  <2> QED BY <2>3, <2>4, <1>3, <1>4, <1>5, RecordsSame
<1>7. CASE n # 1
  <2>1. PICK m, d : Declares(m, d) /\ OwnerIs(e, m, d)
                    /\ e.record.fingerprint = <<m.path, d.start>>
    BY <1>1, <1>7, OwnedCase
  <2>2. PICK p, f : Declares(p, f) /\ OwnerIs(g, p, f)
                    /\ g.record.fingerprint = <<p.path, f.start>>
    BY <1>2, <1>7, OwnedCase
  <2>3. m.path = p.path /\ d.name = f.name
    BY <2>1, <2>2, PlaceOwner
  <2>4. m = p
    BY <2>1, <2>2, <2>3, OwnersSame
  <2>5. d = f
    BY <2>1, <2>2, <2>3, <2>4, NamedOnce
  <2> QED BY <2>1, <2>2, <2>4, <2>5, <1>3, <1>4, <1>5, RecordsSame
<1> QED BY <1>6, <1>7

(* Where no two keys clash, a key has one record.                          *)
LEMMA RecordAtKey ==
  ASSUME revision \in Revisions, ~ Malformed, OneKey(Declared), NEW e \in Declared,
         NEW g \in Declared, e.record.key = g.record.key
  PROVE  e.record = g.record
BY PlaceAtKey, RecordAtPlace

CatalogIs(s) == s = [full |-> s.full, records |-> s.records, ids |-> s.ids,
                     interned |-> s.interned, index |-> s.index, clash |-> s.clash]

Conflict(s, r) == r.digest \in DOMAIN s.full /\ s.full[r.digest] # r.key

Updates(g, f, x, y) == /\ DOMAIN g = DOMAIN f \cup {x} /\ g[x] = y
                       /\ \A k \in DOMAIN f : k # x => g[k] = f[k]

LEMMA WithIs ==
  ASSUME NEW f, NEW x, NEW y, NEW g, g = With(f, x, y)
  PROVE  Updates(g, f, x, y)
BY DEF With, Updates

Interns(t, s, r) ==
  /\ CatalogIs(t) /\ t.records = s.records /\ t.ids = s.ids /\ t.interned = s.interned
  /\ t.index = s.index
  /\ Conflict(s, r) => t.clash = TRUE /\ t.full = s.full
  /\ ~ Conflict(s, r) => t.clash = s.clash /\ t.full = With(s.full, r.digest, r.key)

LEMMA InternIs ==
  ASSUME NEW s, CatalogIs(s), NEW r, NEW t, t = Intern(s, r)
  PROVE  Interns(t, s, r)
<1>1. CASE Conflict(s, r)
  <2>1. t = [s EXCEPT !.clash = TRUE]
    BY <1>1 DEF Intern, Conflict
  <2> QED BY <1>1, <2>1 DEF CatalogIs, Interns
<1>2. CASE ~ Conflict(s, r)
  <2>1. t = [s EXCEPT !.full = With(s.full, r.digest, r.key)]
    BY <1>2 DEF Intern, Conflict
  <2> QED BY <1>2, <2>1 DEF CatalogIs, Interns
<1> QED BY <1>1, <1>2

Adds(t, s, e) ==
  /\ CatalogIs(t) /\ t.interned = s.interned /\ t.index = s.index
  /\ Conflict(s, e.record) => t.clash = TRUE /\ t.full = s.full /\ t.records = s.records
  /\ ~ Conflict(s, e.record) =>
       /\ t.clash = s.clash /\ t.full = With(s.full, e.record.digest, e.record.key)
       /\ t.records = Append(s.records, e.record)
       /\ t.ids = With(s.ids, e.place, e.record.digest)

LEMMA DeclareIs ==
  ASSUME NEW s, CatalogIs(s), NEW e, NEW t, t = Declare(s, e)
  PROVE  /\ s.clash => t = s
         /\ ~ s.clash => Adds(t, s, e)
<1>1. CASE s.clash
  BY <1>1 DEF Declare
<1>2. CASE ~ s.clash
  <2> DEFINE u == Intern(s, e.record)
  <2>0. u = Intern(s, e.record)
    OBVIOUS
  <2> HIDE DEF u
  <2>1. Interns(u, s, e.record)
    BY ONLY <2>0, CatalogIs(s), InternIs
  <2>2. t = IF u.clash THEN u
            ELSE [u EXCEPT !.records = Append(u.records, e.record),
                           !.ids = With(u.ids, e.place, e.record.digest)]
    BY <1>2, <2>0 DEF Declare
  <2>3. CASE Conflict(s, e.record)
    BY <1>2, <2>1, <2>2, <2>3 DEF Interns, Adds
  <2>4. CASE ~ Conflict(s, e.record)
    <3>1. t = [u EXCEPT !.records = Append(u.records, e.record),
                        !.ids = With(u.ids, e.place, e.record.digest)]
      BY <1>2, <2>1, <2>2, <2>4 DEF Interns
    <3> DEFINE list == Append(u.records, e.record)
               map == With(u.ids, e.place, e.record.digest)
    <3> HIDE DEF list, map
    <3>2. t = [u EXCEPT !.records = list, !.ids = map]
      BY <3>1 DEF list, map
    <3>3. /\ CatalogIs(t) /\ t.records = list /\ t.ids = map /\ t.full = u.full
          /\ t.interned = u.interned /\ t.index = u.index /\ t.clash = u.clash
      BY <2>1, <3>2 DEF CatalogIs, Interns
    <3> QED BY <1>2, <2>1, <2>4, <3>3 DEF list, map, Interns, Adds
  <2> QED BY <2>3, <2>4
<1> QED BY <1>1, <1>2

-----------------------------------------------------------------------------
(***************************************************************************)
(* The catalog of some entries: all of them, and nothing else.             *)
(***************************************************************************)

RecordsOf(E) == {e.record : e \in E}

Catalogued(s, E) ==
  /\ CatalogIs(s) /\ ~ s.clash
  /\ s.records \in Seq(RecordsOf(E)) /\ ToSet(s.records) = RecordsOf(E)
  /\ DOMAIN s.ids = {e.place : e \in E}
  /\ \A e \in E : s.ids[e.place] = e.record.digest
  /\ DOMAIN s.full = {e.record.digest : e \in E}
  /\ \A e \in E : s.full[e.record.digest] = e.record.key
  /\ DOMAIN s.interned = {} /\ DOMAIN s.index = {}

KeysClash(R) == \E a, b \in R : a.key # b.key /\ a.digest = b.digest

(* A catalog that failed: two keys had the same digest.                    *)
Clashing(s, R) ==
  /\ CatalogIs(s) /\ s.clash
  /\ \A r \in ToSet(s.records) : s.full[r.digest] = r.key
  /\ KeysClash(R)

PlaceDigests(D) == \A e, g \in D : e.place = g.place => e.record.digest = g.record.digest

LEMMA CataloguedOnce ==
  ASSUME NEW s, NEW E, Catalogued(s, E)
  PROVE  OneKey(E)
BY DEF Catalogued, OneKey

LEMMA CataloguedTrue ==
  ASSUME NEW s, NEW E, Catalogued(s, E)
  PROVE  \A r \in ToSet(s.records) : s.full[r.digest] = r.key
BY DEF Catalogued, RecordsOf

(* Declaring an entry catalogues it, or two keys clash.                    *)
LEMMA DeclareKeeps ==
  ASSUME NEW D, PlaceDigests(D), NEW E \in SUBSET D, NEW e \in D, NEW s, Catalogued(s, E)
  PROVE  \/ Catalogued(Declare(s, e), E \cup {e})
         \/ Clashing(Declare(s, e), RecordsOf(E \cup {e}))
<1> DEFINE t == Declare(s, e)
           F == E \cup {e}
<1>0. CatalogIs(s) /\ ~ s.clash /\ t = Declare(s, e)
  BY DEF Catalogued
<1> HIDE DEF t
<1>1. /\ CatalogIs(t) /\ t.interned = s.interned /\ t.index = s.index
      /\ Conflict(s, e.record) => t.clash = TRUE /\ t.full = s.full /\ t.records = s.records
      /\ ~ Conflict(s, e.record) =>
              /\ t.clash = s.clash /\ t.full = With(s.full, e.record.digest, e.record.key)
              /\ t.records = Append(s.records, e.record)
              /\ t.ids = With(s.ids, e.place, e.record.digest)
  <2>1. Adds(t, s, e)
    BY ONLY <1>0, DeclareIs
  <2> QED BY ONLY <2>1 DEF Adds
<1>2. CASE Conflict(s, e.record)
  <2>1. \A r \in ToSet(t.records) : t.full[r.digest] = r.key
    BY <1>1, <1>2, CataloguedTrue
  <2>2. PICK g \in E : g.record.digest = e.record.digest /\ g.record.key # e.record.key
    BY <1>2 DEF Conflict, Catalogued
  <2>3. KeysClash(RecordsOf(F))
    BY <2>2 DEF KeysClash, RecordsOf
  <2> QED BY <1>1, <1>2, <2>1, <2>3 DEF Clashing, t
<1>3. CASE ~ Conflict(s, e.record)
  <2>1. RecordsOf(F) = RecordsOf(E) \cup {e.record}
    BY DEF RecordsOf
  <2>2. t.records \in Seq(RecordsOf(F)) /\ ToSet(t.records) = RecordsOf(F)
    <3>1. s.records \in Seq(RecordsOf(F)) /\ ToSet(s.records) = RecordsOf(E)
      <4>1. s.records \in Seq(RecordsOf(E)) /\ ToSet(s.records) = RecordsOf(E)
        BY DEF Catalogued
      <4> HIDE DEF F
      <4> QED BY <4>1, <2>1, Widened
    <3>2. t.records = Append(s.records, e.record)
      BY <1>1, <1>3
    <3>3. e.record \in RecordsOf(F)
      BY <2>1
    <3> DEFINE R == RecordsOf(F)
    <3> HIDE DEF F, R
    <3>4. s.records \in Seq(R) /\ e.record \in R
      BY <3>1, <3>3 DEF R
    <3>5. t.records \in Seq(R) /\ Len(t.records) = Len(s.records) + 1 /\ Len(s.records) \in Nat
          /\ t.records[Len(s.records) + 1] = e.record
          /\ \A i \in 1..Len(s.records) : t.records[i] = s.records[i]
      BY <3>2, <3>4
    <3>6. ToSet(t.records) = ToSet(s.records) \cup {e.record}
      <4> DEFINE n == Len(s.records)
                 old == s.records
                 new == t.records
      <4>1. DOMAIN old = 1..n /\ DOMAIN new = 1..n + 1 /\ n \in Nat /\ new[n + 1] = e.record
            /\ \A i \in 1..n : new[i] = old[i]
        BY <3>4, <3>5
      <4> HIDE DEF n, old, new
      <4>2. ToSet(new) = ToSet(old) \cup {e.record}
        BY ONLY <4>1 DEF ToSet
      <4> QED BY <4>2 DEF old, new
    <3> QED BY <3>1, <3>5, <3>6, <2>1 DEF R
  <2>3. DOMAIN t.ids = {g.place : g \in F} /\ \A g \in F : t.ids[g.place] = g.record.digest
    <3>1. DOMAIN t.ids = DOMAIN s.ids \cup {e.place} /\ t.ids[e.place] = e.record.digest
          /\ \A k \in DOMAIN s.ids : k # e.place => t.ids[k] = s.ids[k]
      <4>1. t.ids = With(s.ids, e.place, e.record.digest)
        BY <1>1, <1>3
      <4>2. Updates(t.ids, s.ids, e.place, e.record.digest)
        BY ONLY <4>1, WithIs
      <4> QED BY ONLY <4>2 DEF Updates
    <3>2. DOMAIN s.ids = {g.place : g \in E} /\ \A g \in E : s.ids[g.place] = g.record.digest
      BY DEF Catalogued
    <3>3. \A g \in F : g.place = e.place => g.record.digest = e.record.digest
      BY DEF PlaceDigests
    <3> QED BY <3>1, <3>2, <3>3
  <2>4. DOMAIN t.full = {g.record.digest : g \in F}
        /\ \A g \in F : t.full[g.record.digest] = g.record.key
    <3>1. /\ DOMAIN t.full = DOMAIN s.full \cup {e.record.digest}
          /\ t.full[e.record.digest] = e.record.key
          /\ \A k \in DOMAIN s.full : k # e.record.digest => t.full[k] = s.full[k]
      <4>1. t.full = With(s.full, e.record.digest, e.record.key)
        BY <1>1, <1>3
      <4>2. Updates(t.full, s.full, e.record.digest, e.record.key)
        BY ONLY <4>1, WithIs
      <4> QED BY ONLY <4>2 DEF Updates
    <3>2. DOMAIN s.full = {g.record.digest : g \in E}
          /\ \A g \in E : s.full[g.record.digest] = g.record.key
      BY DEF Catalogued
    <3>3. \A g \in E : g.record.digest = e.record.digest => g.record.key = e.record.key
      BY <1>3, <3>2 DEF Conflict
    <3> QED BY <3>1, <3>2, <3>3
  <2>5. DOMAIN t.interned = {} /\ DOMAIN t.index = {} /\ ~ t.clash
    BY <1>0, <1>1, <1>3 DEF Catalogued
  <2>6. Catalogued(t, F)
    BY <1>1, <2>2, <2>3, <2>4, <2>5 DEF Catalogued
  <2> QED BY <2>6 DEF t
<1> QED BY <1>2, <1>3

LEMMA DeclaringSteps ==
  ASSUME NEW s, NEW list, Len(list) \in Nat
  PROVE  \E f : /\ f[0] = s /\ Declaring(s, list) = f[Len(list)]
                /\ \A n \in 1..Len(list) : f[n] = Declare(f[n - 1], list[n])
<1> DEFINE Is(f) == f = [n \in 0..Len(list) |-> IF n = 0 THEN s ELSE Declare(f[n - 1], list[n])]
           whole == CHOOSE f : Is(f)
           G == {k \in 0..Len(list) : \E f : f = [n \in 0..k |-> IF n = 0 THEN s ELSE Declare(f[n - 1], list[n])]}
<1>0. Len(list) \in Nat
  OBVIOUS
<1>1. 0 \in G
  <2> DEFINE f == [n \in 0..0 |-> s]
  <2>1. f = [n \in 0..0 |-> IF n = 0 THEN s ELSE Declare(f[n - 1], list[n])]
    OBVIOUS
  <2> HIDE DEF f
  <2> QED BY <1>0, <2>1
<1>2. ASSUME NEW k \in 1..Len(list), k - 1 \in G PROVE k \in G
  <2>1. PICK f : f = [n \in 0..k-1 |-> IF n = 0 THEN s ELSE Declare(f[n - 1], list[n])]
    BY <1>2
  <2> DEFINE h == [i \in 0..k |-> IF i < k THEN f[i] ELSE Declare(f[i - 1], list[i])]
  <2>2. \A i \in 0..k-1 : f[i] = IF i = 0 THEN s ELSE Declare(f[i - 1], list[i])
    BY <2>1
  <2>3. ASSUME NEW i \in 0..k PROVE h[i] = IF i = 0 THEN s ELSE Declare(h[i - 1], list[i])
    <3>1. CASE i < k
      <4>1. i \in 0..k-1 /\ (i # 0 => i - 1 \in 0..k /\ i - 1 < k)
        BY <3>1
      <4> QED BY <2>2, <3>1, <4>1
    <3>2. CASE i = k
      BY <3>2
    <3> QED BY <3>1, <3>2
  <2> HIDE DEF h
  <2>4. h = [n \in 0..k |-> IF n = 0 THEN s ELSE Declare(h[n - 1], list[n])]
    BY <2>3 DEF h
  <2>5. k \in 0..Len(list)
    OBVIOUS
  <2> QED BY <2>4, <2>5
<1>3. Len(list) \in G
  BY <1>0, <1>1, <1>2, Upto
<1>4. Is(whole)
  <2>1. \E f : Is(f)
    BY <1>3
  <2> QED BY <2>1
<1>5. Declaring(s, list) = whole[Len(list)]
  BY DEF Declaring
<1> HIDE DEF whole
<1>6. whole[0] = s /\ \A n \in 1..Len(list) : whole[n] = Declare(whole[n - 1], list[n])
  BY <1>0, <1>4
<1> QED
  BY <1>5, <1>6

LEMMA ClashKept ==
  ASSUME NEW s, NEW R, Clashing(s, R), NEW Q, R \subseteq Q
  PROVE  Clashing(s, Q) /\ \A e : Declare(s, e) = s
<1>1. s.clash
  BY DEF Clashing
<1>2. \A e : Declare(s, e) = s
  BY <1>1 DEF Declare
<1>3. KeysClash(Q)
  BY DEF Clashing, KeysClash
<1> QED
  BY <1>2, <1>3 DEF Clashing

LEMMA RecordsGrow == ASSUME NEW E, NEW F, E \subseteq F PROVE RecordsOf(E) \subseteq RecordsOf(F)
BY DEF RecordsOf

(* The entries of a list are catalogued one after the other.               *)
LEMMA DeclaringKeeps ==
  ASSUME NEW D, PlaceDigests(D), NEW E \in SUBSET D, NEW s, Catalogued(s, E),
         NEW T, NEW list \in Seq(T), ToSet(list) \subseteq D
  PROVE  \/ Catalogued(Declaring(s, list), E \cup ToSet(list))
         \/ Clashing(Declaring(s, list), RecordsOf(E \cup ToSet(list)))
<1>0. Len(list) \in Nat /\ DOMAIN list = 1..Len(list)
  OBVIOUS
<1>1. PICK f : /\ f[0] = s /\ Declaring(s, list) = f[Len(list)]
               /\ \A n \in 1..Len(list) : f[n] = Declare(f[n - 1], list[n])
  BY <1>0, DeclaringSteps
<1> DEFINE Upon(n) == E \cup {list[i] : i \in 1..n}
           G == {n \in 0..Len(list) : Catalogued(f[n], Upon(n)) \/ Clashing(f[n], RecordsOf(Upon(n)))}
<1>2. 0 \in G
  <2>1. Upon(0) = E
    OBVIOUS
  <2> HIDE DEF Upon
  <2>2. Catalogued(f[0], Upon(0))
    BY <1>1, <2>1
  <2>3. 0 \in 0..Len(list)
    BY <1>0
  <2> QED BY <2>2, <2>3
<1>3. ASSUME NEW k \in 1..Len(list), k - 1 \in G PROVE k \in G
  <2>1. f[k] = Declare(f[k - 1], list[k])
    BY <1>1
  <2>2. list[k] \in D /\ k \in 0..Len(list)
    BY <1>0 DEF ToSet
  <2>3. Upon(k) = Upon(k - 1) \cup {list[k]}
    <3>1. 1..k = (1..k-1) \cup {k}
      BY <1>0
    <3> QED BY <3>1
  <2>4. Upon(k - 1) \in SUBSET D
    BY <1>0 DEF ToSet
  <2>5. Catalogued(f[k - 1], Upon(k - 1)) \/ Clashing(f[k - 1], RecordsOf(Upon(k - 1)))
    BY <1>3
  <2>6. RecordsOf(Upon(k - 1)) \subseteq RecordsOf(Upon(k))
    BY <2>3, RecordsGrow
  <2> HIDE DEF Upon
  <2>7. CASE Catalogued(f[k - 1], Upon(k - 1))
    <3>1. \/ Catalogued(Declare(f[k - 1], list[k]), Upon(k - 1) \cup {list[k]})
          \/ Clashing(Declare(f[k - 1], list[k]), RecordsOf(Upon(k - 1) \cup {list[k]}))
      BY <2>2, <2>4, <2>7, DeclareKeeps
    <3>2. Catalogued(f[k], Upon(k)) \/ Clashing(f[k], RecordsOf(Upon(k)))
      BY <3>1, <2>1, <2>3
    <3> QED BY <2>2, <3>2
  <2>8. CASE Clashing(f[k - 1], RecordsOf(Upon(k - 1)))
    <3>1. f[k] = f[k - 1] /\ Clashing(f[k - 1], RecordsOf(Upon(k)))
      BY <2>1, <2>6, <2>8, ClashKept
    <3> QED BY <2>2, <3>1
  <2> QED BY <2>5, <2>7, <2>8
<1>4. Len(list) \in G
  <2> HIDE DEF G
  <2> QED BY <1>0, <1>2, <1>3, Upto
<1>5. Upon(Len(list)) = E \cup ToSet(list)
  BY <1>0 DEF ToSet
<1> QED
  BY <1>1, <1>4, <1>5

-----------------------------------------------------------------------------
(*****************************************************************************)
(* What depends on the revision alone stays while the revision does.       *)
(*****************************************************************************)

LEMMA SameRecord ==
  ASSUME UNCHANGED revision
  PROVE  \A domain, key, fingerprint :
           Record(domain, key, fingerprint)' = Record(domain, key, fingerprint)
BY SameDigest DEF Record

LEMMA SameModuleKey == \A m : ModuleKey(m)' = ModuleKey(m)
BY DEF ModuleKey, KeyOf, Prefixed

LEMMA SameDefinitionKey ==
  ASSUME UNCHANGED revision, NEW m, NEW d
  PROVE  DefinitionKey(m, d)' = DefinitionKey(m, d)
<1>1. Digest(ModuleKey(m))' = Digest(ModuleKey(m))
  BY SameDigest DEF ModuleKey, KeyOf, Prefixed
<1> QED
  BY <1>1 DEF DefinitionKey, KeyOf, Prefixed

LEMMA SameNestedKey ==
  ASSUME UNCHANGED revision, NEW m, NEW d, NEW x
  PROVE  NestedKey(m, d, x)' = NestedKey(m, d, x)
<1>1. Digest(DefinitionKey(m, d))' = Digest(DefinitionKey(m, d))
  BY SameDefinitionKey, SameDigest
<1> QED
  BY <1>1 DEF NestedKey, KeyOf, Prefixed

LEMMA SameEntry ==
  ASSUME UNCHANGED revision
  PROVE  \A m, d, domain, what, name, key :
           Entry(m, d, domain, what, name, key)' = Entry(m, d, domain, what, name, key)
BY SameRecord DEF Entry, PlaceOf

LEMMA SameNestedEntries ==
  ASSUME UNCHANGED revision, NEW m, NEW d, NEW x
  PROVE  NestedEntries(m, d, x)' = NestedEntries(m, d, x)
<1>1. Digest(DefinitionKey(m, d))' = Digest(DefinitionKey(m, d))
      /\ Digest(NestedKey(m, d, x))' = Digest(NestedKey(m, d, x))
  BY SameDefinitionKey, SameNestedKey, SameDigest
<1> QED
  BY <1>1, SameNestedKey, SameEntry DEF NestedEntries, KeyOf, Prefixed

LEMMA SameEntries ==
  ASSUME UNCHANGED revision, NEW m, NEW d
  PROVE  Entries(m, d)' = Entries(m, d)
<1>1. Digest(DefinitionKey(m, d))' = Digest(DefinitionKey(m, d))
  BY SameDefinitionKey, SameDigest
<1> QED
  BY <1>1, SameDefinitionKey, SameEntry, SameNestedEntries DEF Entries, KeyOf, Prefixed

LEMMA SameModuleEntry ==
  ASSUME UNCHANGED revision, NEW m
  PROVE  ModuleEntry(m)' = ModuleEntry(m)
BY SameModuleKey, SameRecord DEF ModuleEntry

LEMMA SameDeclared ==
  ASSUME UNCHANGED revision
  PROVE  Declared' = Declared
BY SameModuleEntry, SameEntries DEF Declared, DeclaredIn

(* The entries of the declarations before a place in a module, and those   *)
(* before a place in the revision.                                         *)
EntriesBefore(module, k) ==
  {ModuleEntry(module)}
  \cup UNION {ToSet(Entries(module, module.declarations[i])) :
              i \in {i \in 1..k-1 : module.declarations[i].valid}}

EntriesUntil(n, k) ==
  (UNION {DeclaredIn(revision.modules[i]) : i \in 1..n-1})
  \cup IF k = 0 THEN {} ELSE EntriesBefore(revision.modules[n], k)

ModulesBefore(n) == UNION {DeclaredIn(revision.modules[i]) : i \in 1..n-1}

LEMMA UntilIs ==
  ASSUME NEW n, NEW k
  PROVE  /\ k = 0 => EntriesUntil(n, k) = ModulesBefore(n)
         /\ k # 0 => EntriesUntil(n, k)
                      = ModulesBefore(n) \cup EntriesBefore(revision.modules[n], k)
<1>1. EntriesUntil(n, k) = ModulesBefore(n)
                           \cup IF k = 0 THEN {} ELSE EntriesBefore(revision.modules[n], k)
  BY DEF EntriesUntil, ModulesBefore
<1> QED
  BY <1>1

LEMMA PlacesFix ==
  ASSUME revision \in Revisions
  PROVE  PlaceDigests(Declared)
BY KeyAtPlace, DeclaredFormed DEF PlaceDigests

LEMMA DeclaredByModule ==
  ASSUME revision \in Revisions
  PROVE  Declared = UNION {DeclaredIn(revision.modules[i]) : i \in 1..Len(revision.modules)}
<1>1. Len(revision.modules) \in Nat /\ DOMAIN revision.modules = 1..Len(revision.modules)
  BY Sources
<1>2. ToSet(revision.modules) = {revision.modules[i] : i \in 1..Len(revision.modules)}
  BY <1>1 DEF ToSet
<1> QED
  BY <1>2 DEF Declared

LEMMA DeclarationsOf ==
  ASSUME revision \in Revisions, NEW n \in 1..Len(revision.modules)
  PROVE  LET m == revision.modules[n]
         IN /\ m \in ModuleSource /\ m.declarations \in Seq(DeclarationSource)
            /\ Len(m.declarations) \in Nat /\ DOMAIN m.declarations = 1..Len(m.declarations)
            /\ \A i \in 1..Len(m.declarations) : m.declarations[i] \in DeclarationSource
<1> DEFINE m == revision.modules[n]
<1>1. m \in ModuleSource
  BY Sources
<1> HIDE DEF m
<1>2. m.declarations \in Seq(DeclarationSource)
  BY <1>1, ModuleFields
<1>3. /\ Len(m.declarations) \in Nat /\ DOMAIN m.declarations = 1..Len(m.declarations)
      /\ \A i \in 1..Len(m.declarations) : m.declarations[i] \in DeclarationSource
  BY <1>2
<1> QED
  BY <1>1, <1>2, <1>3 DEF m

LEMMA BeforeAll ==
  ASSUME revision \in Revisions, NEW n \in 1..Len(revision.modules)
  PROVE  EntriesBefore(revision.modules[n], Len(revision.modules[n].declarations) + 1)
         = DeclaredIn(revision.modules[n])
<1> DEFINE m == revision.modules[n]
           q == m.declarations
<1>1. Len(q) \in Nat /\ DOMAIN q = 1..Len(q)
  BY DeclarationsOf
<1> HIDE DEF q
<1>2. ToSet(q) = {q[i] : i \in 1..Len(q)} /\ 1..(Len(q) + 1) - 1 = 1..Len(q)
  BY <1>1 DEF ToSet
<1>3. UNION {ToSet(Entries(m, d)) : d \in {d \in ToSet(q) : d.valid}}
      = UNION {ToSet(Entries(m, q[i])) : i \in {i \in 1..Len(q) : q[i].valid}}
  BY <1>2
<1> QED
  BY <1>2, <1>3 DEF EntriesBefore, DeclaredIn, q

LEMMA BeforeNext ==
  ASSUME NEW m, NEW k \in Nat \ {0}
  PROVE  EntriesBefore(m, k + 1) = EntriesBefore(m, k) \cup
           IF m.declarations[k].valid THEN ToSet(Entries(m, m.declarations[k])) ELSE {}
<1>1. 1..(k + 1) - 1 = (1..k-1) \cup {k}
  OBVIOUS
<1> QED
  BY <1>1 DEF EntriesBefore

LEMMA BeforeNone == \A m : EntriesBefore(m, 1) = {ModuleEntry(m)}
<1>1. 1..1-1 = {}
  OBVIOUS
<1> QED
  BY <1>1 DEF EntriesBefore

(* What the steps of the cataloguing add.                                  *)
LEMMA UntilModule ==
  ASSUME revision \in Revisions, NEW n \in 1..Len(revision.modules)
  PROVE  EntriesUntil(n, 1) = EntriesUntil(n, 0) \cup {ModuleEntry(revision.modules[n])}
<1>1. EntriesUntil(n, 0) = ModulesBefore(n)
  BY UntilIs
<1>2. EntriesUntil(n, 1) = ModulesBefore(n) \cup EntriesBefore(revision.modules[n], 1)
  BY UntilIs
<1> QED
  BY <1>1, <1>2, BeforeNone

LEMMA UntilDeclaration ==
  ASSUME revision \in Revisions, NEW n \in 1..Len(revision.modules), NEW k \in Nat \ {0}
  PROVE  LET m == revision.modules[n]
         IN EntriesUntil(n, k + 1) = EntriesUntil(n, k) \cup
              IF m.declarations[k].valid THEN ToSet(Entries(m, m.declarations[k])) ELSE {}
<1> DEFINE m == revision.modules[n]
           more == IF m.declarations[k].valid THEN ToSet(Entries(m, m.declarations[k])) ELSE {}
<1>1. EntriesUntil(n, k) = ModulesBefore(n) \cup EntriesBefore(m, k)
  BY UntilIs
<1>2. EntriesUntil(n, k + 1) = ModulesBefore(n) \cup EntriesBefore(m, k + 1)
  BY UntilIs
<1>3. EntriesBefore(m, k + 1) = EntriesBefore(m, k) \cup more
  BY BeforeNext
<1> HIDE DEF m, more
<1>4. EntriesUntil(n, k + 1) = EntriesUntil(n, k) \cup more
  BY <1>1, <1>2, <1>3
<1> QED
  BY <1>4 DEF m, more

LEMMA UntilEnd ==
  ASSUME revision \in Revisions, NEW n \in 1..Len(revision.modules)
  PROVE  EntriesUntil(n + 1, 0)
         = EntriesUntil(n, Len(revision.modules[n].declarations) + 1)
<1>1. Len(revision.modules[n].declarations) \in Nat
  BY DeclarationsOf
<1>2. 1..(n + 1) - 1 = (1..n-1) \cup {n} /\ Len(revision.modules[n].declarations) + 1 # 0
  BY <1>1, Sources
<1>3. ModulesBefore(n + 1) = ModulesBefore(n) \cup DeclaredIn(revision.modules[n])
  BY <1>2 DEF ModulesBefore
<1> DEFINE k == Len(revision.modules[n].declarations) + 1
           m == revision.modules[n]
<1>4. k # 0 /\ EntriesBefore(m, k) = DeclaredIn(m)
  BY <1>2, BeforeAll
<1>5. ModulesBefore(n + 1) = ModulesBefore(n) \cup DeclaredIn(m)
  BY <1>3
<1> HIDE DEF k, m
<1>6. EntriesUntil(n, k) = ModulesBefore(n) \cup EntriesBefore(m, k)
  BY <1>4, UntilIs DEF m
<1>7. EntriesUntil(n + 1, 0) = ModulesBefore(n + 1)
  BY UntilIs
<1> QED
  BY <1>4, <1>5, <1>6, <1>7 DEF k

LEMMA UntilAll ==
  ASSUME revision \in Revisions
  PROVE  EntriesUntil(Len(revision.modules) + 1, 0) = Declared
<1>1. 1..(Len(revision.modules) + 1) - 1 = 1..Len(revision.modules)
  BY Sources
<1> QED
  BY <1>1, DeclaredByModule DEF EntriesUntil

LEMMA UntilDeclared ==
  ASSUME revision \in Revisions, NEW n \in 1..Len(revision.modules),
         NEW k \in 0..Len(revision.modules[n].declarations) + 1
  PROVE  EntriesUntil(n, k) \subseteq Declared
<1> DEFINE m == revision.modules[n]
           q == m.declarations
<1>1. Len(q) \in Nat /\ DOMAIN q = 1..Len(q)
  BY DeclarationsOf
<1>2. EntriesBefore(m, k) \subseteq DeclaredIn(m)
  <2> HIDE DEF q
  <2>1. \A i \in 1..k-1 : q[i] \in ToSet(q)
    BY <1>1 DEF ToSet, q
  <2> HIDE DEF m
  <2> QED BY <2>1 DEF EntriesBefore, DeclaredIn, q
<1>3. n \in 1..Len(revision.modules) /\ \A i \in 1..n-1 : i \in 1..Len(revision.modules)
  BY Sources
<1>4. ModulesBefore(n) \subseteq Declared /\ DeclaredIn(m) \subseteq Declared
  BY <1>3, DeclaredByModule DEF ModulesBefore
<1>5. EntriesUntil(n, k) = ModulesBefore(n) \/ EntriesUntil(n, k) = ModulesBefore(n) \cup EntriesBefore(m, k)
  BY UntilIs
<1> QED
  BY <1>2, <1>4, <1>5

(* What is generated for the first demands.                                *)
TypesIn(ids, type) == {TypeRecord(ids, t) : t \in {t \in ToSet(PostOrder(type)) : ~ IsDeclared(t)}}

GeneratedFor(ids, n) ==
  {SpecializationRecord(ids, revision.demands[i]) :
     i \in {i \in 1..n : revision.demands[i].what = "specialization"}}
  \cup UNION {TypesIn(ids, revision.demands[i].type) :
              i \in {i \in 1..n : revision.demands[i].what = "type"}}

(* The identities of the declared places, and no two places share one.     *)
Identified(s) ==
  /\ CatalogIs(s) /\ OneKey(Declared)
  /\ DOMAIN s.ids = {e.place : e \in Declared}
  /\ \A e \in Declared : s.ids[e.place] = e.record.digest

Told(s) == \A r \in ToSet(s.records) : s.full[r.digest] = r.key

Specialized(X) == {r \in X : r.domain = "specialization"}

IndexOf(s) == \A i \in DOMAIN s.records : s.records[i].domain = "specialization" =>
                s.index[s.records[i].digest] = i

(* A catalog of all that was declared, and of what X has.                  *)
Lowered(s, X) ==
  /\ Identified(s) /\ ~ s.clash
  /\ s.records \in Seq(RecordsOf(Declared) \cup X)
  /\ ToSet(s.records) = RecordsOf(Declared) \cup X
  /\ KeysOnce(s.records)
  /\ DOMAIN s.full = {r.digest : r \in RecordsOf(Declared) \cup X}
  /\ \A r \in RecordsOf(Declared) \cup X : s.full[r.digest] = r.key
  /\ DOMAIN s.index = {r.digest : r \in Specialized(X)}
  /\ IndexOf(s)
  /\ \A key \in DOMAIN s.interned :
       \E t \in revision.types : /\ key = CanonicalKey(s.ids, t)
                                 /\ IsDeclared(t) \/ TypeRecord(s.ids, t) \in X

(* The final catalog.                                                      *)
Finished(s, X, bodies) ==
  /\ Identified(s) /\ Told(s) /\ IndexOf(s)
  /\ ToSet(s.records) = RecordsOf(Declared) \cup {WithBody(bodies, r) : r \in X}
  /\ s.records \in Seq(ToSet(s.records)) /\ KeysRise(s.records)

AtPlace ==
  /\ at = [module |-> at.module, declaration |-> at.declaration]
  /\ at.module \in 1..Len(revision.modules) + 1 /\ at.declaration \in Nat
  /\ at.module > Len(revision.modules) => at.declaration = 0
  /\ at.module <= Len(revision.modules) =>
       at.declaration \in 0..Len(revision.modules[at.module].declarations) + 1

Reached ==
  /\ progress = "catalog" => Catalogued(catalog, EntriesUntil(at.module, at.declaration))
  /\ progress = "lowering" => /\ at.module > Len(revision.modules) /\ ~ Malformed
                              /\ Lowered(catalog, GeneratedFor(catalog.ids, fulfilled))
  /\ progress = "final" => /\ at.module > Len(revision.modules)
                           /\ Finished(catalog, Generated(catalog.ids), Bodies(catalog.ids))
  /\ progress = "diagnosed" => Identified(catalog) /\ Told(catalog)
  /\ progress = "collision" =>
       Clashing(catalog, IF at.module <= Len(revision.modules) THEN RecordsOf(Declared)
                         ELSE RecordsOf(Declared) \cup Generated(catalog.ids))
  /\ progress = "cancelled" => Told(catalog)

(* What holds between the steps. At (module, declaration) the catalog has  *)
(* the entries before that place and nothing else; while the lowering asks *)
(* it has all declarations and what the answered demands generate. Neither *)
(* can be read off IdentitiesUnique, which speaks of the records that are  *)
(* there and, only at the end, of those that have to be.                   *)
IdentityInv ==
  /\ revision \in Revisions /\ AtPlace
  /\ fulfilled \in 0..Len(revision.demands)
  /\ progress = "catalog" => fulfilled = 0
  /\ progress \in {"catalog", "lowering", "final", "diagnosed", "collision", "cancelled"}
  /\ Reached

(* No two places share an identity.                                        *)
LEMMA PlacesDiffer ==
  ASSUME revision \in Revisions, NEW s, Identified(s)
  PROVE  \A p, q \in DOMAIN s.ids : s.ids[p] = s.ids[q] => p = q
<1> SUFFICES ASSUME NEW p \in DOMAIN s.ids, NEW q \in DOMAIN s.ids, s.ids[p] = s.ids[q]
             PROVE  p = q
  OBVIOUS
<1>1. OneKey(Declared)
  BY DEF Identified
<1>2. PICK e \in Declared : e.place = p
  BY DEF Identified
<1>3. PICK g \in Declared : g.place = q
  BY DEF Identified
<1>4. e.record.digest = g.record.digest
  BY <1>2, <1>3 DEF Identified
<1>5. e.record.key = g.record.key
  BY <1>1, <1>4 DEF OneKey
<1> QED
  BY <1>1, <1>2, <1>3, <1>5, PlaceAtKey

LEMMA BodySame ==
  ASSUME NEW bodies, NEW r, RecordIs(r)
  PROVE  /\ WithBody(bodies, r).key = r.key /\ WithBody(bodies, r).digest = r.digest
         /\ WithBody(bodies, r).domain = r.domain
         /\ r.domain # "specialization" => WithBody(bodies, r) = r
<1>1. CASE r.domain = "specialization" /\ r.digest \in DOMAIN bodies
  <2> DEFINE f == <<"body", bodies[r.digest]>>
  <2>1. WithBody(bodies, r) = [r EXCEPT !.fingerprint = f]
    BY <1>1 DEF WithBody
  <2> HIDE DEF f
  <2> QED BY <1>1, <2>1 DEF RecordIs
<1>2. CASE ~ (r.domain = "specialization" /\ r.digest \in DOMAIN bodies)
  BY <1>2 DEF WithBody
<1> QED BY <1>1, <1>2

LEMMA TypeRecordIs ==
  ASSUME NEW ids, NEW t, NEW r, r = TypeRecord(ids, t)
  PROVE  RecordIs(r) /\ r.domain = "type" /\ r.digest = Digest(r.key) /\ r.fingerprint = r.key
         /\ r.key = KeyOf("type", "generated", <<CanonicalKey(ids, t)>>)
<1> DEFINE key == KeyOf("type", "generated", <<CanonicalKey(ids, t)>>)
<1>1. r = Record("type", key, key)
  BY DEF TypeRecord
<1> HIDE DEF key
<1>2. RecordIs(r) /\ r.domain = "type" /\ r.key = key /\ r.digest = Digest(key) /\ r.fingerprint = key
  BY ONLY <1>1, RecordFormed
<1> QED BY <1>2 DEF key

LEMMA SpecializationRecordIs ==
  ASSUME NEW ids, NEW demand, NEW r, r = SpecializationRecord(ids, demand)
  PROVE  RecordIs(r) /\ r.domain = "specialization" /\ r.digest = Digest(r.key)
         /\ r.fingerprint = r.key
         /\ r.key = KeyOf("specialization", "generated",
                          <<<<Definition(ids, demand.function)>>>> \o
                            [i \in DOMAIN demand.arguments |-> CanonicalKey(ids, demand.arguments[i])])
<1> DEFINE key == KeyOf("specialization", "generated",
                        <<<<Definition(ids, demand.function)>>>> \o
                          [i \in DOMAIN demand.arguments |-> CanonicalKey(ids, demand.arguments[i])])
<1>1. r = Record("specialization", key, key)
  BY DEF SpecializationRecord
<1> HIDE DEF key
<1>2. RecordIs(r) /\ r.domain = "specialization" /\ r.key = key /\ r.digest = Digest(key)
      /\ r.fingerprint = key
  BY ONLY <1>1, RecordFormed
<1> QED BY <1>2 DEF key

LEMMA GeneratedFormed ==
  ASSUME NEW ids, NEW r \in Generated(ids)
  PROVE  RecordIs(r)
<1>1. (\E demand : r = SpecializationRecord(ids, demand)) \/ (\E t : r = TypeRecord(ids, t))
  BY DEF Generated
<1> QED BY <1>1, TypeRecordIs, SpecializationRecordIs

(* What the invariant says is what the catalog promises.                   *)
LEMMA UniqueEnough ==
  IdentityInv => IdentitiesUnique
<1> SUFFICES ASSUME IdentityInv PROVE IdentitiesUnique
  OBVIOUS
<1>0. /\ revision \in Revisions /\ AtPlace /\ Reached
      /\ progress \in {"catalog", "lowering", "final", "diagnosed", "collision", "cancelled"}
  BY DEF IdentityInv
<1>1. Told(catalog)
  <2>1. CASE progress = "catalog"
    BY <1>0, <2>1, CataloguedTrue DEF Reached, Told
  <2>2. CASE progress = "lowering"
    BY <1>0, <2>2 DEF Reached, Lowered, Told
  <2>3. CASE progress = "collision"
    BY <1>0, <2>3 DEF Reached, Clashing, Told
  <2> QED BY <1>0, <2>1, <2>2, <2>3 DEF Reached, Finished
<1>2. progress = "collision" => \E a, b \in Expected : a.key # b.key /\ a.digest = b.digest
  <2> SUFFICES ASSUME progress = "collision" PROVE KeysClash(Expected)
    BY DEF KeysClash
  <2>1. CASE at.module <= Len(revision.modules)
    <3>1. KeysClash(RecordsOf(Declared))
      BY <1>0, <2>1 DEF Reached, Clashing
    <3>2. Expected = RecordsOf(Declared)
      BY <2>1 DEF Expected, RecordsOf
    <3> QED BY <3>1, <3>2
  <2>2. CASE ~ (at.module <= Len(revision.modules))
    <3> DEFINE b == Bodies(catalog.ids)
               X == Generated(catalog.ids)
    <3>1. KeysClash(RecordsOf(Declared) \cup X)
      BY <1>0, <2>2 DEF Reached, Clashing
    <3>2. Expected = RecordsOf(Declared) \cup {WithBody(b, r) : r \in X}
      BY <2>2 DEF Expected, RecordsOf
    <3>5. \A r \in X : RecordIs(r)
      BY GeneratedFormed
    <3>6. \A r \in RecordsOf(Declared) : RecordIs(r)
      BY <1>0, DeclaredFormed DEF RecordsOf
    <3> HIDE DEF b, X
    <3>3. PICK x, y \in RecordsOf(Declared) \cup X : x.key # y.key /\ x.digest = y.digest
      BY <3>1 DEF KeysClash
    <3>4. \A r \in RecordsOf(Declared) \cup X :
            \E w \in Expected : w.key = r.key /\ w.digest = r.digest
      BY <3>2, <3>5, <3>6, BodySame
    <3> QED BY <3>3, <3>4 DEF KeysClash
  <2> QED BY <2>1, <2>2
<1>3. progress \in {"lowering", "final", "diagnosed"} => Identified(catalog)
  BY <1>0 DEF Reached, Lowered, Finished
<1>4. progress \in {"lowering", "final", "diagnosed"} =>
       /\ DOMAIN catalog.ids = {e.place : e \in Declared}
       /\ \A p, q \in DOMAIN catalog.ids : catalog.ids[p] = catalog.ids[q] => p = q
  <2> SUFFICES ASSUME progress \in {"lowering", "final", "diagnosed"}
               PROVE  /\ DOMAIN catalog.ids = {e.place : e \in Declared}
                      /\ \A p, q \in DOMAIN catalog.ids : catalog.ids[p] = catalog.ids[q] => p = q
    OBVIOUS
  <2>1. \A p, q \in DOMAIN catalog.ids : catalog.ids[p] = catalog.ids[q] => p = q
    BY <1>0, <1>3, PlacesDiffer
  <2> QED BY <1>3, <2>1 DEF Identified
<1>5. progress = "final" =>
       /\ ToSet(catalog.records) = Expected
       /\ \A i \in DOMAIN catalog.records :
            /\ i > 1 => Before(catalog.records[i - 1].key, catalog.records[i].key)
            /\ catalog.records[i].domain = "specialization" =>
                 catalog.index[catalog.records[i].digest] = i
  <2> SUFFICES ASSUME progress = "final"
               PROVE  /\ ToSet(catalog.records) = Expected
                      /\ \A i \in DOMAIN catalog.records :
                           /\ i > 1 => Before(catalog.records[i - 1].key, catalog.records[i].key)
                           /\ catalog.records[i].domain = "specialization" =>
                                catalog.index[catalog.records[i].digest] = i
    OBVIOUS
  <2>1. at.module > Len(revision.modules)
        /\ Finished(catalog, Generated(catalog.ids), Bodies(catalog.ids))
    BY <1>0 DEF Reached
  <2>2. ToSet(catalog.records) = Expected
    <3>1. ~ (at.module <= Len(revision.modules))
      BY <1>0, <2>1, Sources DEF AtPlace
    <3> QED BY <2>1, <3>1 DEF Finished, Expected, RecordsOf
  <2>3. KeysRise(catalog.records) /\ IndexOf(catalog)
        /\ catalog.records \in Seq(ToSet(catalog.records))
    BY <2>1 DEF Finished
  <2>4. \A i \in DOMAIN catalog.records :
          i > 1 => Before(catalog.records[i - 1].key, catalog.records[i].key)
    BY <2>3 DEF KeysRise
  <2> QED BY <2>2, <2>3, <2>4 DEF IndexOf
<1> QED
  BY <1>0, <1>1, <1>2, <1>4, <1>5 DEF IdentitiesUnique, Told

LEMMA DeclaredKeys ==
  ASSUME revision \in Revisions, NEW r \in RecordsOf(Declared)
  PROVE  /\ RecordIs(r) /\ r.digest = Digest(r.key)
         /\ r.key \in Seq(Nat) /\ r.key[4] \in {1, 2}
         /\ r.domain # "specialization"
<1>1. PICK e \in Declared : r = e.record
  BY DEF RecordsOf
<1>2. PICK n \in Domains : EntryCase(e, n)
  BY EntryCases
<1>3. Shape(e, NameOf(n), CodeOf(n))
  BY <1>2, CaseIs
<1>4. NameOf(n) # "specialization"
  BY Names DEF Domains
<1> QED
  BY <1>1, <1>3, <1>4, DeclaredFormed DEF Shape

LEMMA DeclaredKeyed ==
  ASSUME revision \in Revisions
  PROVE  Keyed(RecordsOf(Declared))
BY DeclaredKeys DEF Keyed

(* The catalog of all declarations, in the order of the keys.              *)
LEMMA CatalogInOrder ==
  ASSUME revision \in Revisions, NEW s, Catalogued(s, Declared),
         NEW list, list = Deduplicated(InKeyOrder(s.records))
  PROVE  /\ list \in Seq(RecordsOf(Declared)) /\ KeysOnce(list)
         /\ ToSet(list) \subseteq RecordsOf(Declared)
         /\ ~ Malformed => ToSet(list) = RecordsOf(Declared)
<1> DEFINE R == RecordsOf(Declared)
           sorted == InKeyOrder(s.records)
<1>0. Keyed(R)
  BY DeclaredKeyed
<1>1. s.records \in Seq(R) /\ ToSet(s.records) = R /\ OneKey(Declared)
  BY CataloguedOnce DEF Catalogued
<1>2. \A x, y \in R : ~ Malformed /\ x.key = y.key => x = y
  <2> SUFFICES ASSUME NEW x \in R, NEW y \in R, ~ Malformed, x.key = y.key PROVE x = y
    OBVIOUS
  <2>1. PICK e \in Declared : x = e.record
    BY DEF RecordsOf
  <2>2. PICK g \in Declared : y = g.record
    BY DEF RecordsOf
  <2> QED BY <1>1, <2>1, <2>2, RecordAtKey
<1> HIDE DEF R
<1>3. sorted \in Seq(R) /\ ToSet(sorted) = R /\ KeysOrdered(sorted)
  BY <1>0, <1>1, KeyOrderFacts
<1>4. list = Deduplicated(sorted)
  OBVIOUS
<1> HIDE DEF sorted
<1>5. /\ list \in Seq(R) /\ KeysRise(list) /\ ToSet(list) \subseteq R
      /\ \A r \in R : \E x \in ToSet(list) : x.key = r.key
  BY <1>0, <1>3, <1>4, DeduplicatedFacts
<1>6. KeysOnce(list)
  BY <1>0, <1>5, RisingOnce
<1>7. ~ Malformed => ToSet(list) = R
  BY <1>2, <1>5
<1> QED
  BY <1>5, <1>6, <1>7 DEF R

LEMMA CatalogEnds ==
  ASSUME revision \in Revisions, NEW s, Catalogued(s, Declared),
         NEW t, t = [s EXCEPT !.records = Deduplicated(InKeyOrder(s.records))]
  PROVE  /\ Identified(t) /\ Told(t) /\ ~ t.clash
         /\ ~ Malformed => Lowered(t, {})
<1> DEFINE list == Deduplicated(InKeyOrder(s.records))
           R == RecordsOf(Declared)
<1>1. /\ list \in Seq(R) /\ KeysOnce(list) /\ ToSet(list) \subseteq R
      /\ ~ Malformed => ToSet(list) = R
  BY CatalogInOrder
<1>2. t = [s EXCEPT !.records = list]
  OBVIOUS
<1> HIDE DEF list
<1>3. /\ CatalogIs(t) /\ t.records = list /\ t.ids = s.ids /\ t.full = s.full
      /\ t.interned = s.interned /\ t.index = s.index /\ t.clash = s.clash
  <2>1. CatalogIs(s)
    BY DEF Catalogued
  <2> QED BY <1>2, <2>1 DEF CatalogIs
<1>4. Identified(t)
  BY <1>3, CataloguedOnce DEF Identified, Catalogued
<1>5. \A r \in R : t.full[r.digest] = r.key
  BY <1>3 DEF Catalogued, RecordsOf
<1>6. Told(t)
  BY <1>1, <1>3, <1>5 DEF Told
<1>7. ~ t.clash
  BY <1>3 DEF Catalogued
<1>8. ASSUME ~ Malformed PROVE Lowered(t, {})
  <2>1. R \cup {} = R /\ Specialized({}) = {}
    BY DEF Specialized
  <2>2. t.records \in Seq(R) /\ ToSet(t.records) = R /\ KeysOnce(t.records)
    BY <1>1, <1>3, <1>8
  <2>3. DOMAIN t.full = {r.digest : r \in R}
    BY <1>3 DEF Catalogued, RecordsOf
  <2>4. DOMAIN t.index = {} /\ DOMAIN t.interned = {}
    BY <1>3 DEF Catalogued
  <2>5. IndexOf(t)
    <3>1. \A i \in DOMAIN t.records : t.records[i] \in R
      BY <2>2
    <3> QED BY <3>1, DeclaredKeys DEF IndexOf
  <2> HIDE DEF R
  <2>6. DOMAIN t.index = {r.digest : r \in Specialized({})}
    BY <2>1, <2>4
  <2> QED BY <1>4, <1>5, <1>7, <2>1, <2>2, <2>3, <2>4, <2>5, <2>6 DEF Lowered, R
<1> QED
  BY <1>4, <1>6, <1>7, <1>8

LEMMA SameUntil ==
  ASSUME UNCHANGED revision, NEW n, NEW k
  PROVE  EntriesUntil(n, k)' = EntriesUntil(n, k)
BY SameModuleEntry, SameEntries DEF EntriesUntil, EntriesBefore, DeclaredIn

(* A step of the cataloguing keeps the invariant if it catalogues what its *)
(* new place says, or clashes.                                             *)
LEMMA CatalogStep ==
  ASSUME IdentityInv, progress = "catalog", UNCHANGED <<revision, fulfilled>>,
         NEW n, NEW k, at' = [module |-> n, declaration |-> k],
         n \in 1..Len(revision.modules) + 1, k \in Nat,
         n > Len(revision.modules) => k = 0,
         n <= Len(revision.modules) => k \in 0..Len(revision.modules[n].declarations) + 1,
         \/ progress' = "catalog" /\ Catalogued(catalog', EntriesUntil(n, k))
         \/ /\ progress' = "collision" /\ n <= Len(revision.modules)
            /\ Clashing(catalog', RecordsOf(Declared))
         \/ progress' = "cancelled" /\ Told(catalog')
  PROVE  IdentityInv'
<1>1. /\ revision' \in Revisions /\ fulfilled' \in 0..Len(revision'.demands)
      /\ progress' = "catalog" => fulfilled' = 0
  BY DEF IdentityInv
<1>2. at'.module = n /\ at'.declaration = k /\ revision' = revision
  OBVIOUS
<1>3. AtPlace'
  BY <1>2 DEF AtPlace
<1>4. progress' \in {"catalog", "collision", "cancelled"}
  OBVIOUS
<1>5. progress' = "catalog" => Catalogued(catalog', EntriesUntil(at.module, at.declaration)')
  <2>1. EntriesUntil(at.module, at.declaration)' = EntriesUntil(n, k)
    BY <1>2, SameUntil
  <2> QED BY <2>1
<1>6. progress' = "collision" => /\ at'.module <= Len(revision'.modules)
                                 /\ Clashing(catalog', RecordsOf(Declared)')
  <2>1. RecordsOf(Declared)' = RecordsOf(Declared)
    BY SameDeclared DEF RecordsOf
  <2> QED BY <1>2, <2>1
<1>7. progress' = "cancelled" => Told(catalog')
  OBVIOUS
<1>8. Reached'
  BY <1>4, <1>5, <1>6, <1>7 DEF Reached, Told, Clashing, RecordsOf, KeysClash
<1> QED
  BY <1>1, <1>3, <1>4, <1>8 DEF IdentityInv

LEMMA ContinuesIs ==
  ASSUME NEW state, NEW next, Continues(state, next)
  PROVE  /\ catalog' = state
         /\ state.clash => progress' = "collision"
         /\ ~ state.clash => progress' = next
BY DEF Continues

LEMMA Cataloguing ==
  ASSUME IdentityInv, progress = "catalog"
  PROVE  /\ revision \in Revisions /\ AtPlace
         /\ at.module \in 1..Len(revision.modules) + 1 /\ at.declaration \in Nat
         /\ Len(revision.modules) \in Nat
         /\ Catalogued(catalog, EntriesUntil(at.module, at.declaration))
         /\ EntriesUntil(at.module, at.declaration) \in SUBSET Declared
<1>1. /\ revision \in Revisions /\ AtPlace
      /\ Catalogued(catalog, EntriesUntil(at.module, at.declaration))
  BY DEF IdentityInv, Reached
<1>2. at.module \in 1..Len(revision.modules) + 1 /\ at.declaration \in Nat
  BY <1>1 DEF AtPlace
<1>3. Len(revision.modules) \in Nat
  BY <1>1, Sources
<1>4. CASE at.module <= Len(revision.modules)
  <2>1. at.module \in 1..Len(revision.modules)
        /\ at.declaration \in 0..Len(revision.modules[at.module].declarations) + 1
    BY <1>1, <1>2, <1>3, <1>4 DEF AtPlace
  <2> QED BY <1>1, <1>2, <1>3, <2>1, UntilDeclared
<1>5. CASE at.module > Len(revision.modules)
  <2>1. at.module = Len(revision.modules) + 1 /\ at.declaration = 0
    BY <1>1, <1>2, <1>3, <1>5 DEF AtPlace
  <2> QED BY <1>1, <1>2, <1>3, <2>1, UntilAll
<1> QED
  BY <1>2, <1>3, <1>4, <1>5

LEMMA ModuleEntryDeclared ==
  ASSUME revision \in Revisions, NEW n \in 1..Len(revision.modules)
  PROVE  ModuleEntry(revision.modules[n]) \in Declared
BY DeclaredByModule DEF DeclaredIn

LEMMA EntriesDeclared ==
  ASSUME revision \in Revisions, NEW n \in 1..Len(revision.modules),
         NEW k \in 1..Len(revision.modules[n].declarations),
         revision.modules[n].declarations[k].valid
  PROVE  ToSet(Entries(revision.modules[n], revision.modules[n].declarations[k])) \subseteq Declared
<1> DEFINE m == revision.modules[n]
           q == m.declarations
<1>1. DOMAIN q = 1..Len(q)
  BY DeclarationsOf
<1>2. q[k] \in ToSet(q)
  BY <1>1 DEF ToSet
<1>3. DeclaredIn(m) \subseteq Declared
  BY DeclaredByModule
<1> QED
  BY <1>2, <1>3 DEF DeclaredIn

(* One lemma for each action: it keeps the invariant.                      *)
LEMMA CatalogModuleKeeps ==
  ASSUME IdentityInv, CatalogModule
  PROVE  IdentityInv'
<1> DEFINE n == at.module
           entry == ModuleEntry(revision.modules[n])
<1>1. /\ progress = "catalog" /\ n <= Len(revision.modules) /\ at.declaration = 0
      /\ UNCHANGED <<revision, fulfilled>>
  BY DEF CatalogModule
<1>2. /\ revision \in Revisions /\ AtPlace /\ n \in 1..Len(revision.modules)
      /\ Catalogued(catalog, EntriesUntil(n, 0)) /\ EntriesUntil(n, 0) \in SUBSET Declared
  BY <1>1, Cataloguing
<1>3. Len(revision.modules[n].declarations) \in Nat
  BY <1>2, DeclarationsOf
<1>4. CASE halted
  <2>1. progress' = "cancelled" /\ catalog' = catalog /\ at' = at
    BY <1>4 DEF CatalogModule
  <2>2. Told(catalog')
    BY <1>2, <2>1, CataloguedTrue DEF Told
  <2>3. at' = [module |-> n, declaration |-> 0]
    BY <1>1, <1>2, <2>1 DEF AtPlace
  <2> QED BY <1>1, <1>2, <1>3, <2>1, <2>2, <2>3, CatalogStep
<1>5. CASE ~ halted
  <2>1. Continues(Declare(catalog, entry), "catalog")
    BY <1>5 DEF CatalogModule, ModuleHere
  <2>2. at' = [at EXCEPT !.declaration = 1]
    BY <1>5 DEF CatalogModule
  <2>3. at' = [module |-> n, declaration |-> 1]
    BY <1>2, <2>2 DEF AtPlace
  <2>4. entry \in Declared /\ PlaceDigests(Declared)
    BY <1>2, ModuleEntryDeclared, PlacesFix
  <2>5. EntriesUntil(n, 1) = EntriesUntil(n, 0) \cup {entry}
    BY <1>2, UntilModule
  <2>6. EntriesUntil(n, 1) \subseteq Declared
    BY <1>2, <2>4, <2>5
  <2> HIDE DEF entry, n
  <2>7. \/ Catalogued(Declare(catalog, entry), EntriesUntil(n, 1))
        \/ Clashing(Declare(catalog, entry), RecordsOf(EntriesUntil(n, 1)))
    <3>1. \/ Catalogued(Declare(catalog, entry), EntriesUntil(n, 0) \cup {entry})
          \/ Clashing(Declare(catalog, entry), RecordsOf(EntriesUntil(n, 0) \cup {entry}))
      BY <1>2, <2>4, DeclareKeeps
    <3> QED BY <3>1, <2>5
  <2>8. CASE Catalogued(Declare(catalog, entry), EntriesUntil(n, 1))
    <3>1. catalog' = Declare(catalog, entry) /\ progress' = "catalog"
      BY <2>1, <2>8, ContinuesIs DEF Catalogued
    <3>2. Catalogued(catalog', EntriesUntil(n, 1))
      BY <2>8, <3>1
    <3> QED BY <1>1, <1>2, <1>3, <2>3, <3>1, <3>2, CatalogStep
  <2>9. CASE Clashing(Declare(catalog, entry), RecordsOf(EntriesUntil(n, 1)))
    <3>1. catalog' = Declare(catalog, entry) /\ progress' = "collision"
      BY <2>1, <2>9, ContinuesIs DEF Clashing
    <3>2. Clashing(catalog', RecordsOf(Declared))
      BY <2>6, <2>9, <3>1, RecordsGrow, ClashKept
    <3> QED BY <1>1, <1>2, <1>3, <2>3, <3>1, <3>2, CatalogStep
  <2> QED BY <2>7, <2>8, <2>9
<1> QED BY <1>4, <1>5

LEMMA CatalogDeclarationKeeps ==
  ASSUME IdentityInv, CatalogDeclaration
  PROVE  IdentityInv'
<1> DEFINE n == at.module
           k == at.declaration
           m == revision.modules[n]
           d == m.declarations[k]
           list == Entries(m, d)
<1>1. /\ progress = "catalog" /\ n <= Len(revision.modules) /\ k \in DOMAIN m.declarations
      /\ UNCHANGED <<revision, fulfilled>>
  BY DEF CatalogDeclaration, ModuleHere
<1>2. /\ revision \in Revisions /\ AtPlace /\ n \in 1..Len(revision.modules)
      /\ Catalogued(catalog, EntriesUntil(n, k)) /\ EntriesUntil(n, k) \in SUBSET Declared
  BY <1>1, Cataloguing
<1>3. /\ Len(m.declarations) \in Nat /\ k \in 1..Len(m.declarations)
      /\ d \in DeclarationSource
  BY <1>1, <1>2, DeclarationsOf
<1>4. CASE halted
  <2>1. progress' = "cancelled" /\ catalog' = catalog /\ at' = at
    BY <1>4 DEF CatalogDeclaration
  <2>2. Told(catalog')
    BY <1>2, <2>1, CataloguedTrue DEF Told
  <2>3. at' = [module |-> n, declaration |-> k]
    BY <1>1, <1>2, <2>1 DEF AtPlace
  <2> QED BY <1>1, <1>2, <1>3, <2>1, <2>2, <2>3, CatalogStep
<1>5. CASE ~ halted
  <2>1. IF d.valid THEN Continues(Declaring(catalog, list), "catalog")
        ELSE UNCHANGED <<catalog, progress>>
    BY <1>5 DEF CatalogDeclaration, ModuleHere
  <2>2. at' = [at EXCEPT !.declaration = k + 1]
    BY <1>5 DEF CatalogDeclaration
  <2>3. at' = [module |-> n, declaration |-> k + 1]
    BY <1>2, <2>2 DEF AtPlace
  <2>4. EntriesUntil(n, k + 1) = EntriesUntil(n, k) \cup IF d.valid THEN ToSet(list) ELSE {}
    <3>1. k \in Nat \ {0}
      BY <1>3
    <3> HIDE DEF n, k
    <3> QED BY <1>2, <3>1, UntilDeclaration
  <2>5. k + 1 \in Nat /\ k + 1 \in 0..Len(m.declarations) + 1
    BY <1>3
  <2>6. CASE ~ d.valid
    <3>1. catalog' = catalog /\ progress' = "catalog"
      BY <1>1, <2>1, <2>6
    <3>2. Catalogued(catalog', EntriesUntil(n, k + 1))
      BY <1>2, <2>4, <2>6, <3>1
    <3> QED BY <1>1, <1>2, <1>3, <2>3, <2>5, <3>1, <3>2, CatalogStep
  <2>7. CASE d.valid
    <3>1. Continues(Declaring(catalog, list), "catalog")
      BY <2>1, <2>7
    <3>2. ToSet(list) \subseteq Declared /\ PlaceDigests(Declared)
      BY <1>2, <1>3, <2>7, EntriesDeclared, PlacesFix
    <3>3. EntriesUntil(n, k + 1) = EntriesUntil(n, k) \cup ToSet(list)
      BY <2>4, <2>7
    <3>4. EntriesUntil(n, k + 1) \subseteq Declared
      BY <1>2, <3>2, <3>3
    <3>5. PICK T : list \in Seq(T)
      BY <1>3, EntriesAre
    <3> HIDE DEF list, d, m, n, k
    <3>6. \/ Catalogued(Declaring(catalog, list), EntriesUntil(n, k) \cup ToSet(list))
          \/ Clashing(Declaring(catalog, list), RecordsOf(EntriesUntil(n, k) \cup ToSet(list)))
      BY <1>2, <3>2, <3>5, DeclaringKeeps
    <3>7. CASE Catalogued(Declaring(catalog, list), EntriesUntil(n, k) \cup ToSet(list))
      <4>1. catalog' = Declaring(catalog, list) /\ progress' = "catalog"
        BY <3>1, <3>7, ContinuesIs DEF Catalogued
      <4>2. Catalogued(catalog', EntriesUntil(n, k + 1))
        BY <3>3, <3>7, <4>1
      <4> QED BY <1>1, <1>2, <1>3, <2>3, <2>5, <4>1, <4>2, CatalogStep DEF m
    <3>8. CASE Clashing(Declaring(catalog, list), RecordsOf(EntriesUntil(n, k) \cup ToSet(list)))
      <4>1. catalog' = Declaring(catalog, list) /\ progress' = "collision"
        BY <3>1, <3>8, ContinuesIs DEF Clashing
      <4>2. Clashing(catalog', RecordsOf(Declared))
        BY <3>3, <3>4, <3>8, <4>1, RecordsGrow, ClashKept
      <4> QED BY <1>1, <1>2, <1>3, <2>3, <2>5, <4>1, <4>2, CatalogStep DEF m
    <3> QED BY <3>6, <3>7, <3>8
  <2> QED BY <2>6, <2>7
<1> QED BY <1>4, <1>5

LEMMA EndModuleKeeps ==
  ASSUME IdentityInv, EndModule
  PROVE  IdentityInv'
<1> DEFINE n == at.module
           m == revision.modules[n]
<1>1. /\ progress = "catalog" /\ n <= Len(revision.modules)
      /\ at.declaration > Len(m.declarations) /\ at.declaration > 0
      /\ UNCHANGED <<revision, fulfilled>> /\ progress' = progress /\ catalog' = catalog
      /\ at' = [module |-> n + 1, declaration |-> 0]
  BY DEF EndModule, ModuleHere
<1>2. /\ revision \in Revisions /\ AtPlace /\ n \in 1..Len(revision.modules)
      /\ Len(revision.modules) \in Nat
      /\ Catalogued(catalog, EntriesUntil(n, at.declaration))
  BY <1>1, Cataloguing
<1>3. Len(m.declarations) \in Nat
  BY <1>2, DeclarationsOf
<1>4. at.declaration = Len(m.declarations) + 1
  BY <1>1, <1>2, <1>3 DEF AtPlace
<1>5. EntriesUntil(n + 1, 0) = EntriesUntil(n, at.declaration)
  BY <1>2, <1>4, UntilEnd
<1>6. Catalogued(catalog', EntriesUntil(n + 1, 0)) /\ progress' = "catalog"
  BY <1>1, <1>2, <1>5
<1>7. n + 1 \in 1..Len(revision.modules) + 1
  BY <1>2
<1>8. n + 1 <= Len(revision.modules) =>
        0 \in 0..Len(revision.modules[n + 1].declarations) + 1
  <2> SUFFICES ASSUME n + 1 <= Len(revision.modules)
               PROVE  0 \in 0..Len(revision.modules[n + 1].declarations) + 1
    OBVIOUS
  <2>1. n + 1 \in 1..Len(revision.modules)
    BY <1>2
  <2>2. Len(revision.modules[n + 1].declarations) \in Nat
    BY <1>2, <2>1, DeclarationsOf
  <2> QED BY <2>2
<1> HIDE DEF n, m
<1> QED
  BY <1>1, <1>6, <1>7, <1>8, CatalogStep

LEMMA CancelKeeps ==
  ASSUME IdentityInv, CancelIdentities
  PROVE  IdentityInv'
<1>1. /\ progress = "catalog" /\ UNCHANGED <<revision, fulfilled>> /\ progress' = progress
      /\ catalog' = catalog /\ at' = at
  BY DEF CancelIdentities
<1>2. /\ AtPlace /\ Catalogued(catalog, EntriesUntil(at.module, at.declaration))
  BY <1>1, Cataloguing
<1>3. /\ at = [module |-> at.module, declaration |-> at.declaration]
      /\ at.module \in 1..Len(revision.modules) + 1 /\ at.declaration \in Nat
      /\ at.module > Len(revision.modules) => at.declaration = 0
      /\ at.module <= Len(revision.modules) =>
           at.declaration \in 0..Len(revision.modules[at.module].declarations) + 1
  BY <1>2 DEF AtPlace
<1> QED
  BY <1>1, <1>2, <1>3, CatalogStep

LEMMA SameCanonicalKey ==
  ASSUME UNCHANGED revision
  PROVE  \A ids, type : CanonicalKey(ids, type)' = CanonicalKey(ids, type)
<1> DEFINE C(r, ids, type) ==
             LET key[n \in 0..TypeNesting] ==
                   [t \in r.types |->
                      IF n = 0 THEN <<>>
                      ELSE (IF t.definition = <<>> THEN <<t.tag>>
                            ELSE <<t.tag, Definition(ids, t.definition), Len(t.arguments)>>)
                           \o FlattenSeq([i \in DOMAIN t.arguments |-> key[n - 1][t.arguments[i]]])]
             IN key[TypeNesting][type]
<1>1. ASSUME NEW ids, NEW type
      PROVE  /\ CanonicalKey(ids, type) = C(revision, ids, type)
             /\ CanonicalKey(ids, type)' = C(revision', ids, type)
  BY DEF CanonicalKey, Definition
<1> HIDE DEF C
<1> QED
  BY <1>1

LEMMA SamePostOrder ==
  ASSUME UNCHANGED revision
  PROVE  \A type : PostOrder(type)' = PostOrder(type)
<1> DEFINE C(r, type) ==
             LET order[n \in 0..TypeNesting] ==
                   [t \in r.types |->
                      IF n = 0 THEN <<>>
                      ELSE FlattenSeq([i \in DOMAIN t.arguments |-> order[n - 1][t.arguments[i]]])
                           \o <<t>>]
             IN order[TypeNesting][type]
<1>1. ASSUME NEW type
      PROVE  /\ PostOrder(type) = C(revision, type)
             /\ PostOrder(type)' = C(revision', type)
  BY DEF PostOrder
<1> HIDE DEF C
<1> QED
  BY <1>1

LEMMA SameTypeRecord ==
  ASSUME UNCHANGED revision
  PROVE  \A ids, t : TypeRecord(ids, t)' = TypeRecord(ids, t)
BY SameCanonicalKey, SameRecord DEF TypeRecord, KeyOf, Prefixed

LEMMA SameSpecializationRecord ==
  ASSUME UNCHANGED revision
  PROVE  \A ids, demand : SpecializationRecord(ids, demand)' = SpecializationRecord(ids, demand)
<1> SUFFICES ASSUME NEW ids, NEW demand
             PROVE  SpecializationRecord(ids, demand)' = SpecializationRecord(ids, demand)
  OBVIOUS
<1>1. [i \in DOMAIN demand.arguments |-> CanonicalKey(ids, demand.arguments[i])]'
      = [i \in DOMAIN demand.arguments |-> CanonicalKey(ids, demand.arguments[i])]
  BY SameCanonicalKey
<1> QED
  BY <1>1, SameRecord DEF SpecializationRecord, KeyOf, Prefixed, Definition

LEMMA SameGeneratedFor ==
  ASSUME UNCHANGED revision
  PROVE  \A ids, n : GeneratedFor(ids, n)' = GeneratedFor(ids, n)
BY SameTypeRecord, SameSpecializationRecord, SamePostOrder
   DEF GeneratedFor, TypesIn, IsDeclared

LEMMA SameGenerated ==
  ASSUME UNCHANGED revision
  PROVE  \A ids : Generated(ids)' = Generated(ids)
BY SameTypeRecord, SameSpecializationRecord, SamePostOrder
   DEF Generated, DemandsOf, IsDeclared

LEMMA SameBodies ==
  ASSUME UNCHANGED revision
  PROVE  \A ids : Bodies(ids)' = Bodies(ids)
<1> SUFFICES ASSUME NEW ids PROVE Bodies(ids)' = Bodies(ids)
  OBVIOUS
<1> DEFINE F == [i \in DemandsOf("specialization") |->
                   SpecializationRecord(ids, revision.demands[i]).digest]
           C(r, digest) ==
             LET whole == {i \in DOMAIN digest : r.demands[i].body # 0}
             IN [d \in {digest[i] : i \in whole} |->
                   r.demands[CHOOSE i \in whole : digest[i] = d].body]
<1>1. Bodies(ids) = C(revision, F) /\ Bodies(ids)' = C(revision', F')
  BY DEF Bodies
<1>2. F' = F
  BY SameSpecializationRecord DEF DemandsOf
<1> HIDE DEF C, F
<1> QED
  BY <1>1, <1>2

LEMMA SameIdentified ==
  ASSUME UNCHANGED revision
  PROVE  \A s : Identified(s)' <=> Identified(s)
BY SameDeclared DEF Identified, CatalogIs, OneKey

LEMMA SameLowered ==
  ASSUME UNCHANGED revision
  PROVE  \A s, X : Lowered(s, X)' <=> Lowered(s, X)
<1>1. RecordsOf(Declared)' = RecordsOf(Declared)
  BY SameDeclared DEF RecordsOf
<1> QED
  BY <1>1, SameIdentified, SameCanonicalKey, SameTypeRecord
     DEF Lowered, KeysOnce, Specialized, IndexOf, IsDeclared

LEMMA SameFinished ==
  ASSUME UNCHANGED revision
  PROVE  \A s, X, bodies : Finished(s, X, bodies)' <=> Finished(s, X, bodies)
<1>1. RecordsOf(Declared)' = RecordsOf(Declared)
  BY SameDeclared DEF RecordsOf
<1>2. ASSUME NEW s PROVE Told(s)' <=> Told(s)
  BY DEF Told
<1>3. ASSUME NEW s PROVE IndexOf(s)' <=> IndexOf(s)
  BY DEF IndexOf
<1>4. ASSUME NEW list PROVE KeysRise(list)' <=> KeysRise(list)
  BY DEF KeysRise, Before
<1>5. ASSUME NEW bodies, NEW r PROVE WithBody(bodies, r)' = WithBody(bodies, r)
  BY DEF WithBody
<1> QED
  BY <1>1, <1>2, <1>3, <1>4, <1>5, SameIdentified DEF Finished

LEMMA SameMalformed ==
  ASSUME UNCHANGED revision
  PROVE  Malformed' <=> Malformed
BY DEF Malformed

LEMMA GeneratedNone == \A ids : GeneratedFor(ids, 0) = {}
<1>1. 1..0 = {}
  OBVIOUS
<1> QED
  BY <1>1 DEF GeneratedFor

LEMMA EndCatalogKeeps ==
  ASSUME IdentityInv, EndCatalog
  PROVE  IdentityInv'
<1> DEFINE t == [catalog EXCEPT !.records = Deduplicated(InKeyOrder(catalog.records))]
<1>1. /\ progress = "catalog" /\ at.module > Len(revision.modules)
      /\ revision' = revision /\ at' = at /\ fulfilled' = fulfilled
      /\ Continues(t, IF Malformed THEN "diagnosed" ELSE "lowering")
  BY DEF EndCatalog
<1>2. /\ revision \in Revisions /\ AtPlace
      /\ Catalogued(catalog, EntriesUntil(at.module, at.declaration))
      /\ Len(revision.modules) \in Nat /\ at.module \in 1..Len(revision.modules) + 1
  BY <1>1, Cataloguing
<1>3. fulfilled = 0 /\ fulfilled \in 0..Len(revision.demands)
  BY <1>1 DEF IdentityInv
<1>4. at.module = Len(revision.modules) + 1 /\ at.declaration = 0
  BY <1>1, <1>2 DEF AtPlace
<1>5. Catalogued(catalog, Declared)
  BY <1>2, <1>4, UntilAll
<1>6. t = [catalog EXCEPT !.records = Deduplicated(InKeyOrder(catalog.records))]
  OBVIOUS
<1> HIDE DEF t
<1>7. /\ Identified(t) /\ Told(t) /\ ~ t.clash
      /\ ~ Malformed => Lowered(t, {})
  BY <1>2, <1>5, <1>6, CatalogEnds
<1>8. catalog' = t /\ progress' = IF Malformed THEN "diagnosed" ELSE "lowering"
  BY <1>1, <1>7, ContinuesIs
<1>9. AtPlace'
  BY <1>1, <1>2 DEF AtPlace
<1>10. Reached'
  <2>1. CASE Malformed
    <3>1. progress' = "diagnosed"
      BY <1>8, <2>1
    <3>2. Identified(catalog)' /\ Told(catalog)'
      <4>1. Identified(catalog)'
        BY <1>1, <1>7, <1>8, SameIdentified
      <4>2. Told(catalog)'
        BY <1>7, <1>8 DEF Told
      <4> QED BY <4>1, <4>2
    <3> QED BY <3>1, <3>2 DEF Reached
  <2>2. CASE ~ Malformed
    <3>1. progress' = "lowering" /\ ~ Malformed'
      BY <1>1, <1>8, <2>2, SameMalformed
    <3>2. GeneratedFor(catalog.ids, fulfilled)' = {}
      <4>1. GeneratedFor(catalog.ids, fulfilled)' = GeneratedFor(t.ids, 0)
        BY <1>1, <1>3, <1>8, SameGeneratedFor
      <4> QED BY <4>1, GeneratedNone
    <3>3. Lowered(catalog, GeneratedFor(catalog.ids, fulfilled))'
      <4>1. Lowered(t, {})
        BY <1>7, <2>2
      <4> QED BY <1>1, <1>8, <3>2, <4>1, SameLowered
    <3> QED BY <1>1, <3>1, <3>3 DEF Reached
  <2> QED BY <2>1, <2>2
<1> QED
  BY <1>1, <1>2, <1>3, <1>8, <1>9, <1>10 DEF IdentityInv

(* A type's key, level by level.                                           *)
KeyHead(ids, t) == IF t.definition = <<>> THEN <<t.tag>>
                   ELSE <<t.tag, Definition(ids, t.definition), Len(t.arguments)>>

KeyLevel(ids, n, f) ==
  [t \in revision.types |->
     IF n = 0 THEN <<>>
     ELSE KeyHead(ids, t) \o FlattenSeq([i \in DOMAIN t.arguments |-> f[t.arguments[i]]])]

OrderLevel(n, f) ==
  [t \in revision.types |->
     IF n = 0 THEN <<>>
     ELSE FlattenSeq([i \in DOMAIN t.arguments |-> f[t.arguments[i]]]) \o <<t>>]

LEMMA CanonicalKeySteps ==
  ASSUME NEW ids
  PROVE  \E f : /\ \A n \in 0..TypeNesting : f[n] = KeyLevel(ids, n, f[n - 1])
                /\ \A t : CanonicalKey(ids, t) = f[TypeNesting][t]
<1> DEFINE Is(f) == f = [n \in 0..TypeNesting |-> KeyLevel(ids, n, f[n - 1])]
           whole == CHOOSE f : Is(f)
           G == {k \in 0..TypeNesting : \E f : f = [n \in 0..k |-> KeyLevel(ids, n, f[n - 1])]}
<1>0. TypeNesting \in Nat
  BY RevisionAssumption
<1>1. \A f, g : KeyLevel(ids, 0, f) = KeyLevel(ids, 0, g)
  BY DEF KeyLevel
<1>2. \A t : CanonicalKey(ids, t) = whole[TypeNesting][t]
  BY DEF CanonicalKey, KeyLevel, KeyHead
<1> HIDE DEF whole
<1>3. 0 \in G
  <2> DEFINE f == [n \in 0..0 |-> KeyLevel(ids, 0, <<>>)]
  <2>1. f = [n \in 0..0 |-> KeyLevel(ids, n, f[n - 1])]
    BY <1>1
  <2> HIDE DEF f
  <2> QED BY <1>0, <2>1
<1>4. ASSUME NEW k \in 1..TypeNesting, k - 1 \in G PROVE k \in G
  <2>1. PICK f : f = [n \in 0..k-1 |-> KeyLevel(ids, n, f[n - 1])]
    BY <1>4
  <2> DEFINE h == [i \in 0..k |-> IF i < k THEN f[i] ELSE KeyLevel(ids, i, f[i - 1])]
  <2>2. \A i \in 0..k-1 : f[i] = KeyLevel(ids, i, f[i - 1])
    BY <2>1
  <2>3. ASSUME NEW i \in 0..k PROVE h[i] = KeyLevel(ids, i, h[i - 1])
    <3>1. CASE i = 0
      BY <1>1, <2>2, <3>1
    <3>2. CASE i # 0 /\ i < k
      <4>1. i \in 0..k-1 /\ i - 1 \in 0..k /\ i - 1 < k
        BY <3>2
      <4> QED BY <2>2, <3>2, <4>1
    <3>3. CASE i = k
      <4>1. k - 1 \in 0..k /\ k - 1 < k
        OBVIOUS
      <4> QED BY <3>3, <4>1
    <3> QED BY <3>1, <3>2, <3>3
  <2> HIDE DEF h
  <2>4. h = [n \in 0..k |-> KeyLevel(ids, n, h[n - 1])]
    BY <2>3 DEF h
  <2>5. k \in 0..TypeNesting
    BY <1>0
  <2> QED BY <2>4, <2>5
<1>5. TypeNesting \in G
  BY <1>0, <1>3, <1>4, Upto
<1>6. Is(whole)
  <2>1. \E f : Is(f)
    BY <1>5
  <2> QED BY <2>1 DEF whole
<1>7. \A n \in 0..TypeNesting : whole[n] = KeyLevel(ids, n, whole[n - 1])
  <2> HIDE DEF G
  <2> QED BY <1>6
<1> QED
  BY <1>2, <1>7

LEMMA PostOrderSteps ==
  \E f : /\ \A n \in 0..TypeNesting : f[n] = OrderLevel(n, f[n - 1])
         /\ \A t : PostOrder(t) = f[TypeNesting][t]
<1> DEFINE Is(f) == f = [n \in 0..TypeNesting |-> OrderLevel(n, f[n - 1])]
           whole == CHOOSE f : Is(f)
           G == {k \in 0..TypeNesting : \E f : f = [n \in 0..k |-> OrderLevel(n, f[n - 1])]}
<1>0. TypeNesting \in Nat
  BY RevisionAssumption
<1>1. \A f, g : OrderLevel(0, f) = OrderLevel(0, g)
  BY DEF OrderLevel
<1>2. \A t : PostOrder(t) = whole[TypeNesting][t]
  BY DEF PostOrder, OrderLevel
<1> HIDE DEF whole
<1>3. 0 \in G
  <2> DEFINE f == [n \in 0..0 |-> OrderLevel(0, <<>>)]
  <2>1. f = [n \in 0..0 |-> OrderLevel(n, f[n - 1])]
    BY <1>1
  <2> HIDE DEF f
  <2> QED BY <1>0, <2>1
<1>4. ASSUME NEW k \in 1..TypeNesting, k - 1 \in G PROVE k \in G
  <2>1. PICK f : f = [n \in 0..k-1 |-> OrderLevel(n, f[n - 1])]
    BY <1>4
  <2> DEFINE h == [i \in 0..k |-> IF i < k THEN f[i] ELSE OrderLevel(i, f[i - 1])]
  <2>2. \A i \in 0..k-1 : f[i] = OrderLevel(i, f[i - 1])
    BY <2>1
  <2>3. ASSUME NEW i \in 0..k PROVE h[i] = OrderLevel(i, h[i - 1])
    <3>1. CASE i = 0
      BY <1>1, <2>2, <3>1
    <3>2. CASE i # 0 /\ i < k
      <4>1. i \in 0..k-1 /\ i - 1 \in 0..k /\ i - 1 < k
        BY <3>2
      <4> QED BY <2>2, <3>2, <4>1
    <3>3. CASE i = k
      <4>1. k - 1 \in 0..k /\ k - 1 < k
        OBVIOUS
      <4> QED BY <3>3, <4>1
    <3> QED BY <3>1, <3>2, <3>3
  <2> HIDE DEF h
  <2>4. h = [n \in 0..k |-> OrderLevel(n, h[n - 1])]
    BY <2>3 DEF h
  <2>5. k \in 0..TypeNesting
    BY <1>0
  <2> QED BY <2>4, <2>5
<1>5. TypeNesting \in G
  BY <1>0, <1>3, <1>4, Upto
<1>6. Is(whole)
  <2>1. \E f : Is(f)
    BY <1>5
  <2> QED BY <2>1 DEF whole
<1>7. \A n \in 0..TypeNesting : whole[n] = OrderLevel(n, whole[n - 1])
  <2> HIDE DEF G
  <2> QED BY <1>6
<1> QED
  BY <1>2, <1>7

LEMMA TypeFacts ==
  ASSUME revision \in Revisions, NEW t \in revision.types
  PROVE  /\ t.tag \in Nat /\ t.arguments \in Seq(revision.types)
         /\ t.tag = 12 <=> t.definition # <<>>
         /\ t.definition # <<>> =>
              t.definition \in PlacesOf(revision) /\ t.definition[2] \in Nominals
<1>1. TypesKnown(revision)
  BY RevisionAssumption
<1> QED
  BY <1>1 DEF TypesKnown

LEMMA PlaceDeclared ==
  ASSUME revision \in Revisions, NEW place \in PlacesOf(revision)
  PROVE  \E m, d : Declares(m, d) /\ place = PlaceOf(m, d)
BY DEF PlacesOf, PlaceOf, Declares

(* The definition at a place has an identity, and so has its type.         *)
LEMMA DefinitionKnown ==
  ASSUME revision \in Revisions, NEW s, Identified(s), NEW place \in PlacesOf(revision)
  PROVE  Definition(s.ids, place) \in Nat
<1>1. PICK m, d : Declares(m, d) /\ place = PlaceOf(m, d)
  BY PlaceDeclared
<1> DEFINE key == DefinitionKey(m, d)
           e == Entry(m, d, "definition", "", 0, key)
<1>2. m \in ModuleSource /\ d \in DeclarationSource
  BY <1>1, DeclaresTypes
<1>3. IsEntry(e, m, d)
  BY DEF IsEntry, IsOwn
<1>4. e \in Declared
  BY <1>1, <1>3, DeclaredAre
<1>5. e.place = <<"definition", place, "", 0>>
  BY <1>1 DEF Entry
<1>6. e.record.digest = Digest(key)
  BY DEF Entry, Record
<1>7. Digest(key) \in Nat
  BY <1>2, DefinitionKeyIs
<1> HIDE DEF e, key
<1> QED
  BY <1>4, <1>5, <1>6, <1>7 DEF Identified, Definition

LEMMA NominalKnown ==
  ASSUME revision \in Revisions, NEW s, Identified(s), NEW place \in PlacesOf(revision),
         place[2] \in Nominals
  PROVE  <<"type", place, "", 0>> \in DOMAIN s.ids
<1>1. PICK m, d : Declares(m, d) /\ place = PlaceOf(m, d)
  BY PlaceDeclared
<1> DEFINE key == OwnKey(m, d, "type")
           e == Entry(m, d, "type", "", 0, key)
<1>2. d.kind \in Nominals
  BY <1>1 DEF PlaceOf
<1>3. IsEntry(e, m, d)
  BY <1>2 DEF IsEntry, IsOwn
<1>4. e \in Declared
  BY <1>1, <1>3, DeclaredAre
<1>5. e.place = <<"type", place, "", 0>>
  BY <1>1 DEF Entry
<1> HIDE DEF e, key
<1> QED
  BY <1>4, <1>5 DEF Identified

LEMMA KeyHeadIs ==
  ASSUME revision \in Revisions, NEW s, Identified(s), NEW t \in revision.types
  PROVE  /\ KeyHead(s.ids, t) \in Seq(Nat) /\ Len(KeyHead(s.ids, t)) \in {1, 3}
         /\ KeyHead(s.ids, t)[1] = t.tag
         /\ t.definition # <<>> => /\ Len(KeyHead(s.ids, t)) = 3
                                   /\ KeyHead(s.ids, t)[3] = Len(t.arguments)
<1>1. t.tag \in Nat /\ Len(t.arguments) \in Nat
  BY TypeFacts
<1>2. CASE t.definition = <<>>
  <2>1. KeyHead(s.ids, t) = <<t.tag>>
    BY <1>2 DEF KeyHead
  <2> QED BY <1>1, <1>2, <2>1
<1>3. CASE t.definition # <<>>
  <2>1. Definition(s.ids, t.definition) \in Nat
    BY <1>3, TypeFacts, DefinitionKnown
  <2> DEFINE x == t.tag
             y == Definition(s.ids, t.definition)
             z == Len(t.arguments)
             h == KeyHead(s.ids, t)
  <2>2. h = <<x, y, z>>
    BY <1>3 DEF KeyHead
  <2>3. x \in Nat /\ y \in Nat /\ z \in Nat
    BY <1>1, <2>1
  <2> HIDE DEF x, y, z, h
  <2>4. h \in Seq(Nat) /\ Len(h) = 3 /\ h[1] = x /\ h[3] = z
    BY <2>2, <2>3
  <2> QED BY <2>4 DEF x, z, h
<1> QED BY <1>2, <1>3

(* A key has its type's head.                                              *)
HasHead(key, t) ==
  /\ key \in Seq(Nat) /\ Len(key) >= 1 /\ key[1] = t.tag
  /\ t.definition # <<>> => Len(key) >= 3 /\ key[3] = Len(t.arguments)

(* The key of a type is its head and the keys of its arguments.            *)
LEMMA CanonicalKeyIs ==
  ASSUME revision \in Revisions, NEW s, Identified(s), NEW t \in revision.types
  PROVE  HasHead(CanonicalKey(s.ids, t), t)
<1> DEFINE ids == s.ids
<1> HIDE DEF ids
<1>0. TypeNesting \in Nat \ {0}
  BY RevisionAssumption
<1>1. PICK f : /\ \A n \in 0..TypeNesting : f[n] = KeyLevel(ids, n, f[n - 1])
               /\ \A u : CanonicalKey(ids, u) = f[TypeNesting][u]
  BY CanonicalKeySteps
<1> DEFINE G == {n \in 0..TypeNesting : \A u \in revision.types : f[n][u] \in Seq(Nat)}
<1>2. ASSUME NEW n \in 1..TypeNesting, n - 1 \in G, NEW u \in revision.types
      PROVE  /\ f[n][u] \in Seq(Nat) /\ HasHead(f[n][u], u)
  <2> DEFINE g == f[n - 1]
             q == [i \in DOMAIN u.arguments |-> g[u.arguments[i]]]
             tail == FlattenSeq(q)
             h == KeyHead(ids, u)
             N == Len(u.arguments)
  <2>1. f[n][u] = h \o tail
    <3>1. f[n] = KeyLevel(ids, n, f[n - 1]) /\ n # 0
      BY <1>1
    <3> QED BY <3>1 DEF KeyLevel
  <2>2. N \in Nat /\ u.arguments \in Seq(revision.types) /\ DOMAIN u.arguments = 1..N
    BY TypeFacts
  <2>3. \A i \in 1..N : u.arguments[i] \in revision.types
    BY <2>2
  <2>4. \A u2 \in revision.types : g[u2] \in Seq(Nat)
    BY <1>2
  <2> HIDE DEF g, N
  <2>5. q = [i \in 1..N |-> q[i]] /\ \A i \in 1..N : q[i] \in Seq(Nat)
    BY <2>2, <2>3, <2>4
  <2> HIDE DEF q
  <2>6. tail \in Seq(Nat)
    BY <2>2, <2>5, FlattenedList
  <2>7. /\ h \in Seq(Nat) /\ Len(h) \in {1, 3} /\ h[1] = u.tag
        /\ u.definition # <<>> => Len(h) = 3 /\ h[3] = N
    BY KeyHeadIs DEF ids, N
  <2> HIDE DEF h, tail
  <2>8. h \o tail \in Seq(Nat) /\ Len(h \o tail) = Len(h) + Len(tail) /\ Len(tail) \in Nat
        /\ \A i \in 1..Len(h) : (h \o tail)[i] = h[i]
    BY <2>6, <2>7
  <2> DEFINE key == h \o tail
  <2> HIDE DEF key
  <2>9. key \in Seq(Nat) /\ Len(key) >= 1 /\ key[1] = u.tag
        /\ (u.definition # <<>> => Len(key) >= 3 /\ key[3] = N)
    BY <2>7, <2>8 DEF key
  <2>10. HasHead(key, u)
    BY <2>9 DEF HasHead, N
  <2> QED BY <2>1, <2>9, <2>10 DEF key
<1>3. 0 \in G
  <2>1. f[0] = KeyLevel(ids, 0, f[0 - 1])
    BY <1>0, <1>1
  <2>2. \A u \in revision.types : f[0][u] = <<>>
    BY <2>1 DEF KeyLevel
  <2>3. \A u \in revision.types : f[0][u] \in Seq(Nat)
    <3>1. <<>> \in Seq(Nat)
      OBVIOUS
    <3> QED BY ONLY <2>2, <3>1, Zenon
  <2>4. 0 \in 0..TypeNesting
    BY <1>0
  <2> QED BY <2>3, <2>4
<1>4. ASSUME NEW n \in 1..TypeNesting, n - 1 \in G PROVE n \in G
  <2>1. \A u \in revision.types : f[n][u] \in Seq(Nat)
    BY <1>2, <1>4
  <2> QED BY <1>0, <2>1
<1>5. \A n \in 0..TypeNesting : n \in G
  <2> HIDE DEF G
  <2> SUFFICES ASSUME NEW n \in 0..TypeNesting PROVE n \in G
    OBVIOUS
  <2>1. n \in Nat /\ \A k \in 1..n : k \in 1..TypeNesting
    BY <1>0
  <2> QED BY <1>3, <1>4, <2>1, Upto
<1>6. TypeNesting \in 1..TypeNesting /\ TypeNesting - 1 \in 0..TypeNesting
  BY <1>0
<1>7. HasHead(f[TypeNesting][t], t)
  BY <1>2, <1>5, <1>6
<1> QED
  BY <1>1, <1>7 DEF ids

(* A type that has the key of a declared one is declared too.              *)
LEMMA DeclaredAlike ==
  ASSUME revision \in Revisions, NEW s, Identified(s),
         NEW t \in revision.types, NEW u \in revision.types,
         CanonicalKey(s.ids, t) = CanonicalKey(s.ids, u), IsDeclared(t)
  PROVE  IsDeclared(u)
<1> DEFINE key == CanonicalKey(s.ids, t)
<1>1. HasHead(key, t)
  BY CanonicalKeyIs
<1>2. HasHead(key, u)
  BY CanonicalKeyIs
<1> HIDE DEF key
<1>3. t.definition # <<>> /\ Len(t.arguments) = 0
  BY DEF IsDeclared
<1>4. u.definition # <<>>
  <2>1. t.tag = 12 /\ (u.tag = 12 <=> u.definition # <<>>)
    BY <1>3, TypeFacts
  <2> QED BY <1>1, <1>2, <2>1 DEF HasHead
<1>5. Len(u.arguments) = 0
  BY <1>1, <1>2, <1>3, <1>4 DEF HasHead
<1>6. u.arguments = <<>>
  BY <1>5, TypeFacts
<1> QED
  BY <1>4, <1>6 DEF IsDeclared

IsGenerated(r) ==
  /\ RecordIs(r) /\ r.digest = Digest(r.key) /\ r.fingerprint = r.key
  /\ r.key \in Seq(Nat) /\ r.key[4] = 3
  /\ \/ r.domain = "type" /\ r.key[2] = 3
     \/ r.domain = "specialization" /\ r.key[2] = 5

LEMMA GeneratedAlike ==
  ASSUME NEW x, NEW y, IsGenerated(x), IsGenerated(y), x.key = y.key
  PROVE  x = y
<1>1. x.digest = y.digest /\ x.fingerprint = y.fingerprint
  BY DEF IsGenerated
<1>2. x.domain = y.domain
  BY DEF IsGenerated
<1>3. RecordIs(x) /\ RecordIs(y)
  BY DEF IsGenerated
<1> QED
  BY <1>1, <1>2, <1>3, RecordsSame

LEMMA GeneratedApart ==
  ASSUME revision \in Revisions, NEW x \in RecordsOf(Declared), NEW y, IsGenerated(y)
  PROVE  x.key # y.key
BY DeclaredKeys DEF IsGenerated

LEMMA TypeGenerated ==
  ASSUME revision \in Revisions, NEW s, Identified(s), NEW t \in revision.types
  PROVE  IsGenerated(TypeRecord(s.ids, t))
<1> DEFINE r == TypeRecord(s.ids, t)
           canonical == CanonicalKey(s.ids, t)
           parts == <<canonical>>
           b == Prefixed(parts)
<1>1. canonical \in Seq(Nat)
  BY CanonicalKeyIs DEF HasHead
<1>2. /\ RecordIs(r) /\ r.domain = "type" /\ r.digest = Digest(r.key) /\ r.fingerprint = r.key
      /\ r.key = KeyOf("type", "generated", parts)
  BY TypeRecordIs
<1> HIDE DEF r, canonical
<1>3. parts = [i \in 1..1 |-> parts[i]] /\ \A i \in 1..1 : parts[i] \in Seq(Nat)
  BY <1>1
<1> HIDE DEF parts
<1>4. b \in Seq(Nat)
  BY <1>3, PrefixedParts
<1> HIDE DEF b
<1> DEFINE domain == "type"
           origin == "generated"
<1>5. IdentityDomain[domain] = 3 /\ IdentityOrigin[origin] = 3
  BY Codes
<1>6. r.key = KeyOf(domain, origin, parts) /\ b = Prefixed(parts)
  BY <1>2 DEF b
<1> HIDE DEF domain, origin
<1>7. Heads(r.key, IdentityDomain[domain], IdentityOrigin[origin], b)
  BY <1>4, <1>5, <1>6, KeyBegins
<1>8. r.key \in Seq(Nat) /\ r.key[2] = 3 /\ r.key[4] = 3
  BY <1>5, <1>7 DEF Heads
<1> QED
  BY <1>2, <1>8 DEF IsGenerated, r

LEMMA SpecializationGenerated ==
  ASSUME revision \in Revisions, NEW s, Identified(s), NEW demand,
         demand.function \in PlacesOf(revision), demand.arguments \in Seq(revision.types)
  PROVE  IsGenerated(SpecializationRecord(s.ids, demand))
<1> DEFINE r == SpecializationRecord(s.ids, demand)
           N == Len(demand.arguments)
           own == Definition(s.ids, demand.function)
           keys == [i \in DOMAIN demand.arguments |-> CanonicalKey(s.ids, demand.arguments[i])]
           parts == <<<<own>>>> \o keys
           b == Prefixed(parts)
<1>1. own \in Nat
  BY DefinitionKnown
<1>2. N \in Nat /\ DOMAIN demand.arguments = 1..N
      /\ \A i \in 1..N : demand.arguments[i] \in revision.types
  OBVIOUS
<1>3. keys \in Seq(Seq(Nat)) /\ Len(keys) = N
  <2>1. \A i \in 1..N : CanonicalKey(s.ids, demand.arguments[i]) \in Seq(Nat)
    BY <1>2, CanonicalKeyIs DEF HasHead
  <2> HIDE DEF N
  <2>2. keys = [i \in 1..N |-> CanonicalKey(s.ids, demand.arguments[i])]
    BY <1>2
  <2> QED BY <1>2, <2>1, <2>2
<1>4. /\ RecordIs(r) /\ r.domain = "specialization" /\ r.digest = Digest(r.key)
      /\ r.fingerprint = r.key
      /\ r.key = KeyOf("specialization", "generated", parts)
  BY SpecializationRecordIs
<1> HIDE DEF r, own, N, keys
<1>5. <<own>> \in Seq(Nat)
  BY <1>1
<1>6. <<<<own>>>> \in Seq(Seq(Nat)) /\ Len(<<<<own>>>>) = 1
  BY <1>5
<1>7. parts \in Seq(Seq(Nat)) /\ Len(parts) = N + 1
  <2> DEFINE T == Seq(Nat)
             a == <<<<own>>>>
  <2>1. a \in Seq(T) /\ Len(a) = 1 /\ keys \in Seq(T) /\ Len(keys) = N
    BY <1>3, <1>6
  <2> HIDE DEF T, a
  <2>2. a \o keys \in Seq(T) /\ Len(a \o keys) = Len(a) + Len(keys)
    BY ONLY <2>1, JoinedList
  <2>3. a \o keys \in Seq(T) /\ Len(a \o keys) = N + 1
    BY <1>2, <2>1, <2>2
  <2> QED BY <2>3 DEF T, a
<1> HIDE DEF parts
<1>8. parts = [i \in 1..N+1 |-> parts[i]] /\ \A i \in 1..N+1 : parts[i] \in Seq(Nat)
  <2> DEFINE T == Seq(Nat)
  <2>1. parts \in Seq(T) /\ Len(parts) = N + 1
    BY <1>7
  <2> HIDE DEF T
  <2>2. parts = [i \in 1..N+1 |-> parts[i]] /\ \A i \in 1..N+1 : parts[i] \in T
    BY <1>2, <2>1
  <2> QED BY <2>2 DEF T
<1>9. b \in Seq(Nat)
  <2> DEFINE M == N + 1
  <2>1. M \in Nat
    BY <1>2
  <2>2. parts = [i \in 1..M |-> parts[i]] /\ \A i \in 1..M : parts[i] \in Seq(Nat)
    BY <1>8
  <2> HIDE DEF M
  <2> QED BY <2>1, <2>2, PrefixedParts DEF b
<1> HIDE DEF b
<1> DEFINE domain == "specialization"
           origin == "generated"
<1>10. IdentityDomain[domain] = 5 /\ IdentityOrigin[origin] = 3
  BY Codes
<1>11. r.key = KeyOf(domain, origin, parts) /\ b = Prefixed(parts)
  BY <1>4 DEF b
<1> HIDE DEF domain, origin
<1>12. Heads(r.key, IdentityDomain[domain], IdentityOrigin[origin], b)
  BY <1>9, <1>10, <1>11, KeyBegins
<1>13. r.key \in Seq(Nat) /\ r.key[2] = 5 /\ r.key[4] = 3
  BY <1>10, <1>12 DEF Heads
<1> QED
  BY <1>4, <1>13 DEF IsGenerated, r

KeyThere(s, r) == \E i \in DOMAIN s.records : s.records[i].key = r.key

Pushes(t, s, r) ==
  /\ CatalogIs(t) /\ t.records = Append(s.records, r)
  /\ t.ids = s.ids /\ t.full = s.full /\ t.interned = s.interned /\ t.clash = s.clash
  /\ t.index = IF r.domain # "specialization" THEN s.index
               ELSE With(s.index, r.digest, Len(s.records) + 1)

LEMMA PushIs ==
  ASSUME NEW s, CatalogIs(s), NEW r, NEW t, t = Push(s, r)
  PROVE  /\ s.clash \/ KeyThere(s, r) => t = s
         /\ ~ s.clash /\ ~ KeyThere(s, r) => Pushes(t, s, r)
<1>1. ASSUME s.clash \/ KeyThere(s, r) PROVE t = s
  BY <1>1 DEF Push, KeyThere
<1>2. ASSUME ~ s.clash, ~ KeyThere(s, r) PROVE Pushes(t, s, r)
  <2> DEFINE list == Append(s.records, r)
             found == IF r.domain # "specialization" THEN s.index
                      ELSE With(s.index, r.digest, Len(s.records) + 1)
  <2>1. t = [s EXCEPT !.records = list, !.index = found]
    BY <1>2 DEF Push, KeyThere
  <2>2. list = Append(s.records, r)
        /\ found = IF r.domain # "specialization" THEN s.index
                   ELSE With(s.index, r.digest, Len(s.records) + 1)
    OBVIOUS
  <2> HIDE DEF list, found
  <2>3. /\ CatalogIs(t) /\ t.records = list /\ t.index = found
        /\ t.ids = s.ids /\ t.full = s.full /\ t.interned = s.interned /\ t.clash = s.clash
    BY <2>1 DEF CatalogIs
  <2> QED BY <2>2, <2>3 DEF Pushes
<1> QED
  BY <1>1, <1>2

Lengthened(more, list, r, T) ==
  /\ more \in Seq(T) /\ ToSet(more) = ToSet(list) \cup {r}
  /\ Len(list) \in Nat /\ DOMAIN list = 1..Len(list)
  /\ DOMAIN more = 1..Len(list) + 1 /\ more[Len(list) + 1] = r
  /\ \A i \in 1..Len(list) : more[i] = list[i]

LEMMA ListExtended ==
  ASSUME NEW T, NEW list \in Seq(T), NEW r \in T, NEW more, more = Append(list, r)
  PROVE  Lengthened(more, list, r, T)
<1>1. /\ more \in Seq(T) /\ Len(list) \in Nat /\ DOMAIN list = 1..Len(list)
      /\ DOMAIN more = 1..Len(list) + 1 /\ more[Len(list) + 1] = r
      /\ \A i \in 1..Len(list) : more[i] = list[i]
  OBVIOUS
<1> DEFINE n == Len(list)
<1>2. /\ n \in Nat /\ DOMAIN list = 1..n
      /\ DOMAIN more = 1..n + 1 /\ more[n + 1] = r
      /\ \A i \in 1..n : more[i] = list[i]
  BY <1>1
<1> HIDE DEF n
<1>3. ToSet(more) = ToSet(list) \cup {r}
  BY ONLY <1>2 DEF ToSet
<1> QED
  BY <1>1, <1>3 DEF Lengthened

AllGenerated(X) == \A x \in X : IsGenerated(x)

(* Interning a generated record adds it, or two keys clash.                *)
LEMMA AddKeeps ==
  ASSUME revision \in Revisions, NEW X, AllGenerated(X), NEW s, Lowered(s, X),
         NEW r, IsGenerated(r), NEW t, t = Push(Intern(s, r), r)
  PROVE  /\ t.ids = s.ids /\ CatalogIs(t) /\ t.interned = s.interned
         /\ \/ Lowered(t, X \cup {r})
            \/ Clashing(t, RecordsOf(Declared) \cup (X \cup {r}))
<1> DEFINE u == Intern(s, r)
           R == RecordsOf(Declared) \cup X
           Y == X \cup {r}
           Q == RecordsOf(Declared) \cup Y
<1>0. CatalogIs(s) /\ ~ s.clash
  BY DEF Lowered, Identified
<1>1. u = Intern(s, r) /\ t = Push(u, r) /\ Q = R \cup {r}
  OBVIOUS
<1> HIDE DEF u
<1>2. Interns(u, s, r)
  BY ONLY <1>0, <1>1, InternIs
<1>3. CatalogIs(u)
  BY <1>2 DEF Interns
<1>4. /\ u.clash \/ KeyThere(u, r) => t = u
      /\ ~ u.clash /\ ~ KeyThere(u, r) => Pushes(t, u, r)
  BY ONLY <1>1, <1>3, PushIs
<1>5. CASE Conflict(s, r)
  <2>1. u.clash /\ t = u /\ t.full = s.full /\ t.records = s.records /\ CatalogIs(t)
        /\ t.ids = s.ids /\ t.interned = s.interned
    BY <1>2, <1>4, <1>5 DEF Interns
  <2>2. PICK z \in R : z.digest = r.digest /\ z.key # r.key
    BY <1>5 DEF Conflict, Lowered
  <2>3. KeysClash(Q)
    BY <2>2, <1>1 DEF KeysClash
  <2>4. \A x \in ToSet(t.records) : t.full[x.digest] = x.key
    BY <2>1 DEF Lowered
  <2>5. Clashing(t, Q)
    BY <2>1, <2>3, <2>4 DEF Clashing
  <2> QED BY <2>1, <2>5
<1>6. CASE ~ Conflict(s, r)
  <2>1. /\ ~ u.clash /\ u.full = With(s.full, r.digest, r.key) /\ u.records = s.records
        /\ u.ids = s.ids /\ u.interned = s.interned /\ u.index = s.index
    BY <1>0, <1>2, <1>6 DEF Interns
  <2>2. Updates(u.full, s.full, r.digest, r.key)
    BY <2>1, WithIs
  <2>3. /\ DOMAIN s.full = {x.digest : x \in R} /\ \A x \in R : s.full[x.digest] = x.key
        /\ s.records \in Seq(R) /\ ToSet(s.records) = R /\ KeysOnce(s.records)
        /\ DOMAIN s.index = {x.digest : x \in Specialized(X)} /\ IndexOf(s)
        /\ Identified(s)
        /\ \A key \in DOMAIN s.interned :
             \E v \in revision.types : /\ key = CanonicalKey(s.ids, v)
                                       /\ IsDeclared(v) \/ TypeRecord(s.ids, v) \in X
    BY DEF Lowered
  <2>4. \A x \in R : x.digest = r.digest => x.key = r.key
    BY <1>6, <2>3 DEF Conflict
  <2>5. DOMAIN u.full = {x.digest : x \in Q} /\ \A x \in Q : u.full[x.digest] = x.key
    <3> HIDE DEF R, Q
    <3>1. DOMAIN u.full = DOMAIN s.full \cup {r.digest} /\ u.full[r.digest] = r.key
          /\ \A k \in DOMAIN s.full : k # r.digest => u.full[k] = s.full[k]
      BY <2>2 DEF Updates
    <3>2. DOMAIN u.full = {x.digest : x \in Q}
      BY <1>1, <2>3, <3>1
    <3>3. ASSUME NEW x \in Q PROVE u.full[x.digest] = x.key
      <4>1. CASE x.digest = r.digest
        BY <1>1, <2>4, <3>1, <4>1
      <4>2. CASE x.digest # r.digest
        BY <1>1, <2>3, <3>1, <4>2
      <4> QED BY <4>1, <4>2
    <3> QED BY <3>2, <3>3
  <2>6. \A key \in DOMAIN s.interned :
             \E v \in revision.types : /\ key = CanonicalKey(s.ids, v)
                                       /\ IsDeclared(v) \/ TypeRecord(s.ids, v) \in Y
    BY <2>3
  <2>7. CASE KeyThere(u, r)
    <3>1. t = u
      BY <1>4, <2>7
    <3>2. r \in X
      <4>1. PICK i \in DOMAIN s.records : s.records[i].key = r.key
        BY <2>1, <2>7 DEF KeyThere
      <4>2. s.records[i] \in R
        <5> HIDE DEF R
        <5> QED BY <2>3, <4>1
      <4>3. s.records[i] \notin RecordsOf(Declared)
        BY <4>1, GeneratedApart
      <4>4. s.records[i] \in X
        BY <4>2, <4>3
      <4>5. IsGenerated(s.records[i])
        BY <4>4 DEF AllGenerated
      <4> QED BY <4>1, <4>4, <4>5, GeneratedAlike
    <3>3. Y = X /\ Q = R
      BY <3>2
    <3>4. Identified(t)
      BY <1>3, <2>1, <2>3, <3>1 DEF Identified
    <3>5. IndexOf(t)
      BY <2>1, <2>3, <3>1 DEF IndexOf
    <3>6. Lowered(t, Y)
      BY <2>1, <2>3, <2>5, <2>6, <3>1, <3>3, <3>4, <3>5 DEF Lowered
    <3> QED BY <1>3, <2>1, <3>1, <3>6
  <2>8. CASE ~ KeyThere(u, r)
    <3>1. Pushes(t, u, r)
      BY <1>4, <2>1, <2>8
    <3>2. /\ CatalogIs(t) /\ t.records = Append(s.records, r)
          /\ t.ids = s.ids /\ t.full = u.full /\ t.interned = s.interned /\ ~ t.clash
          /\ t.index = IF r.domain # "specialization" THEN s.index
                       ELSE With(s.index, r.digest, Len(s.records) + 1)
      BY <2>1, <3>1 DEF Pushes
    <3> DEFINE n == Len(s.records)
    <3>3. /\ t.records \in Seq(Q) /\ ToSet(t.records) = Q
          /\ n \in Nat /\ DOMAIN s.records = 1..n
          /\ DOMAIN t.records = 1..n + 1 /\ t.records[n + 1] = r
          /\ \A i \in 1..n : t.records[i] = s.records[i]
      <4> HIDE DEF R, Q
      <4>1. s.records \in Seq(Q) /\ r \in Q
        BY <1>1, <2>3, Widened
      <4>2. /\ t.records \in Seq(Q) /\ ToSet(t.records) = ToSet(s.records) \cup {r}
            /\ n \in Nat /\ DOMAIN s.records = 1..n
            /\ DOMAIN t.records = 1..n + 1 /\ t.records[n + 1] = r
            /\ \A i \in 1..n : t.records[i] = s.records[i]
        <5> DEFINE old == s.records
                   new == t.records
        <5>1. old \in Seq(Q) /\ r \in Q /\ new = Append(old, r)
          BY <3>2, <4>1
        <5> HIDE DEF old, new
        <5>2. Lengthened(new, old, r, Q)
          BY ONLY <5>1, ListExtended
        <5> QED BY <5>2 DEF old, new, n, Lengthened
      <4> QED BY <1>1, <2>3, <4>2
    <3> HIDE DEF n, R, Q
    <3>4. KeysOnce(t.records)
      <4>1. \A i \in 1..n : s.records[i].key # r.key
        BY <2>1, <2>8, <3>3 DEF KeyThere
      <4> QED BY <2>3, <3>3, <4>1 DEF KeysOnce
    <3>5. Identified(t)
      BY <2>3, <3>2 DEF Identified
    <3>6. DOMAIN t.index = {x.digest : x \in Specialized(Y)} /\ IndexOf(t)
      <4>1. CASE r.domain # "specialization"
        <5>1. t.index = s.index /\ Specialized(Y) = Specialized(X)
          BY <3>2, <4>1 DEF Specialized
        <5>2. IndexOf(t)
          BY <2>3, <3>3, <4>1, <5>1 DEF IndexOf
        <5> QED BY <2>3, <5>1, <5>2
      <4>2. CASE r.domain = "specialization"
        <5>1. t.index = With(s.index, r.digest, n + 1) /\ Specialized(Y) = Specialized(X) \cup {r}
          BY <3>2, <4>2 DEF Specialized, n
        <5>2. Updates(t.index, s.index, r.digest, n + 1)
          BY <5>1, WithIs
        <5>3. DOMAIN t.index = DOMAIN s.index \cup {r.digest} /\ t.index[r.digest] = n + 1
              /\ \A k \in DOMAIN s.index : k # r.digest => t.index[k] = s.index[k]
          BY <5>2 DEF Updates
        <5>4. DOMAIN t.index = {x.digest : x \in Specialized(Y)}
          BY <2>3, <5>1, <5>3
        <5>5. ASSUME NEW i \in DOMAIN t.records, t.records[i].domain = "specialization"
              PROVE  t.index[t.records[i].digest] = i
          <6>1. CASE i = n + 1
            BY <3>3, <5>3, <6>1
          <6>2. CASE i # n + 1
            <7>1. i \in 1..n /\ t.records[i] = s.records[i]
              BY <3>3, <6>2
            <7>2. s.records[i] \in R /\ s.records[i].key # r.key
              BY <2>1, <2>3, <2>8, <3>3, <7>1 DEF KeyThere
            <7>3. s.records[i].digest # r.digest
              BY <2>4, <7>2
            <7>4. s.index[s.records[i].digest] = i
              BY <2>3, <3>3, <5>5, <7>1 DEF IndexOf
            <7>5. s.records[i] \in Specialized(X)
              BY <5>5, <7>1, <7>2, DeclaredKeys DEF Specialized, R
            <7>6. s.records[i].digest \in DOMAIN s.index
              BY <2>3, <7>5
            <7> QED BY <5>3, <7>1, <7>3, <7>4, <7>6
          <6> QED BY <6>1, <6>2
        <5>6. IndexOf(t)
          BY <5>5 DEF IndexOf
        <5> QED BY <5>4, <5>6
      <4> QED BY <4>1, <4>2
    <3>7. Lowered(t, Y)
      <4> HIDE DEF Y
      <4> QED BY <2>5, <2>6, <3>2, <3>3, <3>4, <3>5, <3>6 DEF Lowered, Q
    <3> QED BY <3>2, <3>7
  <2> QED BY <2>7, <2>8
<1> QED
  BY <1>5, <1>6

LEMMA InternedKeeps ==
  ASSUME NEW Y, NEW u, Lowered(u, Y), NEW type \in revision.types, NEW key, NEW x,
         key = CanonicalKey(u.ids, type), IsDeclared(type) \/ TypeRecord(u.ids, type) \in Y,
         NEW t, t = [u EXCEPT !.interned = With(u.interned, key, x)]
  PROVE  Lowered(t, Y) /\ t.ids = u.ids
<1> DEFINE map == With(u.interned, key, x)
<1>1. Updates(map, u.interned, key, x)
  BY WithIs
<1>2. t = [u EXCEPT !.interned = map]
  OBVIOUS
<1> HIDE DEF map
<1>3. CatalogIs(u)
  BY DEF Lowered, Identified
<1>4. /\ CatalogIs(t) /\ t.interned = map /\ t.records = u.records /\ t.index = u.index
      /\ t.ids = u.ids /\ t.full = u.full /\ t.clash = u.clash
  BY <1>2, <1>3 DEF CatalogIs
<1>5. \A k \in DOMAIN t.interned :
        \E v \in revision.types : /\ k = CanonicalKey(t.ids, v)
                                  /\ IsDeclared(v) \/ TypeRecord(t.ids, v) \in Y
  <2> SUFFICES ASSUME NEW k \in DOMAIN t.interned
               PROVE  \E v \in revision.types : /\ k = CanonicalKey(u.ids, v)
                                                /\ IsDeclared(v) \/ TypeRecord(u.ids, v) \in Y
    BY <1>4
  <2>1. CASE k = key
    BY <2>1
  <2>2. CASE k # key
    <3>1. k \in DOMAIN u.interned
      BY <1>1, <1>4, <2>2 DEF Updates
    <3> QED BY <3>1 DEF Lowered
  <2> QED BY <2>1, <2>2
<1>6. Identified(t)
  BY <1>4 DEF Lowered, Identified
<1>7. IndexOf(t)
  BY <1>4 DEF Lowered, IndexOf
<1> QED
  BY <1>4, <1>5, <1>6, <1>7 DEF Lowered

LEMMA ClashInterned ==
  ASSUME NEW R, NEW u, Clashing(u, R), NEW map, NEW t, t = [u EXCEPT !.interned = map]
  PROVE  Clashing(t, R) /\ t.ids = u.ids
<1>1. CatalogIs(u)
  BY DEF Clashing
<1>2. /\ CatalogIs(t) /\ t.records = u.records /\ t.full = u.full /\ t.clash = u.clash
      /\ t.ids = u.ids
  BY <1>1 DEF CatalogIs
<1> QED
  BY <1>2 DEF Clashing

(* What a type adds to the catalog.                                        *)
Adding(ids, type) == IF IsDeclared(type) THEN {} ELSE {TypeRecord(ids, type)}

LoweredOrClashing(t, X) == Lowered(t, X) \/ Clashing(t, RecordsOf(Declared) \cup X)

(* Interning a type adds what it adds, or two keys clash.                  *)
LEMMA InternTypeKeeps ==
  ASSUME revision \in Revisions, NEW X, AllGenerated(X), NEW s, Lowered(s, X),
         NEW type \in revision.types, NEW t, t = InternType(s, type)
  PROVE  t.ids = s.ids /\ LoweredOrClashing(t, X \cup Adding(s.ids, type))
<1> DEFINE key == CanonicalKey(s.ids, type)
           place == <<"type", type.definition, "", 0>>
           r == TypeRecord(s.ids, type)
           Y == X \cup Adding(s.ids, type)
<1>0. ~ s.clash /\ Identified(s) /\ CatalogIs(s)
  BY DEF Lowered, Identified
<1>1. CASE key \in DOMAIN s.interned
  <2>1. t = s
    BY <1>1 DEF InternType
  <2>2. Y = X
    <3>1. CASE IsDeclared(type)
      BY <3>1 DEF Adding
    <3>2. CASE ~ IsDeclared(type)
      <4>1. PICK v \in revision.types : /\ key = CanonicalKey(s.ids, v)
                                        /\ IsDeclared(v) \/ TypeRecord(s.ids, v) \in X
        BY <1>1 DEF Lowered
      <4>2. ~ IsDeclared(v)
        BY <1>0, <3>2, <4>1, DeclaredAlike
      <4>3. TypeRecord(s.ids, v) = r
        BY <4>1 DEF TypeRecord
      <4>4. r \in X
        BY <4>1, <4>2, <4>3
      <4> QED BY <3>2, <4>4 DEF Adding
    <3> QED BY <3>1, <3>2
  <2> QED BY <2>1, <2>2 DEF LoweredOrClashing
<1>2. CASE key \notin DOMAIN s.interned /\ ~ IsDeclared(type)
  <2> DEFINE u == Push(Intern(s, r), r)
             map == With(u.interned, key, r.digest)
  <2>1. t = [u EXCEPT !.interned = map]
    BY <1>0, <1>2 DEF InternType
  <2>2. IsGenerated(r)
    BY <1>0, TypeGenerated
  <2>3. Y = X \cup {r}
    BY <1>2 DEF Adding
  <2>4. u = Push(Intern(s, r), r)
    OBVIOUS
  <2> HIDE DEF u, r, Y, key
  <2>5. /\ u.ids = s.ids /\ CatalogIs(u) /\ u.interned = s.interned
        /\ \/ Lowered(u, X \cup {r})
           \/ Clashing(u, RecordsOf(Declared) \cup (X \cup {r}))
    BY <2>2, <2>4, AddKeeps
  <2>6. CASE Lowered(u, Y)
    <3>1. key = CanonicalKey(u.ids, type) /\ TypeRecord(u.ids, type) \in Y
      BY <2>3, <2>5 DEF key, r
    <3>2. Lowered(t, Y) /\ t.ids = u.ids
      BY <2>1, <2>6, <3>1, InternedKeeps
    <3> QED BY <2>5, <3>2 DEF LoweredOrClashing, Y
  <2>7. CASE Clashing(u, RecordsOf(Declared) \cup Y)
    <3> HIDE DEF map
    <3>1. Clashing(t, RecordsOf(Declared) \cup Y) /\ t.ids = u.ids
      BY <2>1, <2>7, ClashInterned
    <3> QED BY <2>5, <3>1 DEF LoweredOrClashing, Y
  <2> QED BY <2>3, <2>5, <2>6, <2>7
<1>3. CASE key \notin DOMAIN s.interned /\ IsDeclared(type)
  <2>1. type.definition \in PlacesOf(revision) /\ type.definition[2] \in Nominals
    BY <1>3, TypeFacts DEF IsDeclared
  <2>2. place \in DOMAIN s.ids
    BY <1>0, <2>1, NominalKnown
  <2> DEFINE x == s.ids[place]
  <2>3. t = [s EXCEPT !.interned = With(s.interned, key, x)]
    BY <1>0, <1>3, <2>2 DEF InternType
  <2>4. Y = X
    BY <1>3 DEF Adding
  <2>5. key = CanonicalKey(s.ids, type)
    OBVIOUS
  <2> HIDE DEF x, key
  <2>6. Lowered(t, X) /\ t.ids = s.ids
    BY <1>3, <2>3, <2>5, InternedKeeps
  <2> QED BY <2>4, <2>6 DEF LoweredOrClashing
<1> QED
  BY <1>1, <1>2, <1>3

LEMMA InternTypesSteps ==
  ASSUME NEW s, NEW list, Len(list) \in Nat
  PROVE  \E f : /\ f[0] = s /\ InternTypes(s, list) = f[Len(list)]
                /\ \A n \in 1..Len(list) : f[n] = InternType(f[n - 1], list[n])
<1> DEFINE Is(f) == f = [n \in 0..Len(list) |-> IF n = 0 THEN s ELSE InternType(f[n - 1], list[n])]
           whole == CHOOSE f : Is(f)
           G == {k \in 0..Len(list) : \E f : f = [n \in 0..k |-> IF n = 0 THEN s ELSE InternType(f[n - 1], list[n])]}
<1>0. Len(list) \in Nat
  OBVIOUS
<1>1. 0 \in G
  <2> DEFINE f == [n \in 0..0 |-> s]
  <2>1. f = [n \in 0..0 |-> IF n = 0 THEN s ELSE InternType(f[n - 1], list[n])]
    OBVIOUS
  <2> HIDE DEF f
  <2> QED BY <1>0, <2>1
<1>2. ASSUME NEW k \in 1..Len(list), k - 1 \in G PROVE k \in G
  <2>1. PICK f : f = [n \in 0..k-1 |-> IF n = 0 THEN s ELSE InternType(f[n - 1], list[n])]
    BY <1>2
  <2> DEFINE h == [i \in 0..k |-> IF i < k THEN f[i] ELSE InternType(f[i - 1], list[i])]
  <2>2. \A i \in 0..k-1 : f[i] = IF i = 0 THEN s ELSE InternType(f[i - 1], list[i])
    BY <2>1
  <2>3. ASSUME NEW i \in 0..k PROVE h[i] = IF i = 0 THEN s ELSE InternType(h[i - 1], list[i])
    <3>1. CASE i < k
      <4>1. i \in 0..k-1 /\ (i # 0 => i - 1 \in 0..k /\ i - 1 < k)
        BY <3>1
      <4> QED BY <2>2, <3>1, <4>1
    <3>2. CASE i = k
      BY <3>2
    <3> QED BY <3>1, <3>2
  <2> HIDE DEF h
  <2>4. h = [n \in 0..k |-> IF n = 0 THEN s ELSE InternType(h[n - 1], list[n])]
    BY <2>3 DEF h
  <2>5. k \in 0..Len(list)
    OBVIOUS
  <2> QED BY <2>4, <2>5
<1>3. Len(list) \in G
  BY <1>0, <1>1, <1>2, Upto
<1>4. Is(whole)
  <2>1. \E f : Is(f)
    BY <1>3
  <2> QED BY <2>1
<1>5. InternTypes(s, list) = whole[Len(list)]
  BY DEF InternTypes
<1> HIDE DEF whole
<1>6. whole[0] = s /\ \A n \in 1..Len(list) : whole[n] = InternType(whole[n - 1], list[n])
  BY <1>0, <1>4
<1> QED
  BY <1>5, <1>6

AddingAll(ids, list) == {TypeRecord(ids, t) : t \in {t \in ToSet(list) : ~ IsDeclared(t)}}

LEMMA ClashStays ==
  ASSUME NEW s, NEW R, Clashing(s, R), NEW Q, R \subseteq Q, NEW type
  PROVE  InternType(s, type) = s /\ Clashing(s, Q)
<1>1. s.clash
  BY DEF Clashing
<1>2. InternType(s, type) = s
  BY <1>1 DEF InternType
<1>3. KeysClash(Q)
  BY DEF Clashing, KeysClash
<1> QED
  BY <1>2, <1>3 DEF Clashing

(* The types of a list are interned one after the other.                   *)
LEMMA InternTypesKeeps ==
  ASSUME revision \in Revisions, NEW X, AllGenerated(X), NEW s, Lowered(s, X),
         NEW list \in Seq(revision.types)
  PROVE  /\ InternTypes(s, list).ids = s.ids
         /\ LoweredOrClashing(InternTypes(s, list), X \cup AddingAll(s.ids, list))
<1> DEFINE N == Len(list)
           ids == s.ids
<1>0. N \in Nat /\ DOMAIN list = 1..N /\ \A i \in 1..N : list[i] \in revision.types
  OBVIOUS
<1>1. PICK f : /\ f[0] = s /\ InternTypes(s, list) = f[N]
               /\ \A n \in 1..N : f[n] = InternType(f[n - 1], list[n])
  BY <1>0, InternTypesSteps
<1> DEFINE Upon(n) == X \cup {TypeRecord(ids, list[i]) : i \in {i \in 1..n : ~ IsDeclared(list[i])}}
           Good(n) == f[n].ids = ids /\ LoweredOrClashing(f[n], Upon(n))
           G == {n \in 0..N : Good(n)}
<1>2. Identified(s)
  BY DEF Lowered
<1>3. \A n \in 0..N : AllGenerated(Upon(n))
  <2> SUFFICES ASSUME NEW n \in 0..N PROVE AllGenerated(Upon(n))
    OBVIOUS
  <2>1. \A i \in 1..n : IsGenerated(TypeRecord(ids, list[i]))
    BY <1>0, <1>2, TypeGenerated
  <2> QED BY <2>1 DEF AllGenerated
<1>4. \A k \in 1..N : Upon(k) = Upon(k - 1) \cup Adding(ids, list[k])
  <2> SUFFICES ASSUME NEW k \in 1..N PROVE Upon(k) = Upon(k - 1) \cup Adding(ids, list[k])
    OBVIOUS
  <2>1. 1..k = (1..k-1) \cup {k}
    BY <1>0
  <2>2. CASE IsDeclared(list[k])
    BY <2>1, <2>2 DEF Adding
  <2>3. CASE ~ IsDeclared(list[k])
    BY <2>1, <2>3 DEF Adding
  <2> QED BY <2>2, <2>3
<1>5. Upon(0) = X
  OBVIOUS
<1>6. Upon(N) = X \cup AddingAll(ids, list)
  BY <1>0 DEF AddingAll, ToSet
<1> HIDE DEF Upon, N
<1>7. 0 \in G
  <2>1. Good(0)
    BY <1>1, <1>5 DEF LoweredOrClashing
  <2>2. 0 \in 0..N
    BY <1>0
  <2> QED BY <2>1, <2>2
<1>8. ASSUME NEW k \in 1..N, k - 1 \in G PROVE k \in G
  <2>1. f[k] = InternType(f[k - 1], list[k]) /\ list[k] \in revision.types
    BY <1>0, <1>1
  <2>2. k \in 0..N /\ k - 1 \in 0..N
    BY <1>0
  <2>3. f[k - 1].ids = ids /\ LoweredOrClashing(f[k - 1], Upon(k - 1))
    BY <1>8
  <2>4. AllGenerated(Upon(k - 1)) /\ Upon(k) = Upon(k - 1) \cup Adding(ids, list[k])
    BY <1>3, <1>4, <2>2
  <2>5. CASE Lowered(f[k - 1], Upon(k - 1))
    <3> DEFINE g == f[k - 1]
               type == list[k]
    <3>1. Lowered(g, Upon(k - 1)) /\ type \in revision.types /\ f[k] = InternType(g, type)
      BY <2>1, <2>5
    <3> HIDE DEF g, type
    <3>2. f[k].ids = g.ids /\ LoweredOrClashing(f[k], Upon(k - 1) \cup Adding(g.ids, type))
      BY <2>4, <3>1, InternTypeKeeps
    <3>3. Good(k)
      BY <2>3, <2>4, <3>2 DEF g, type
    <3> QED BY <2>2, <3>3
  <2>6. CASE Clashing(f[k - 1], RecordsOf(Declared) \cup Upon(k - 1))
    <3>1. RecordsOf(Declared) \cup Upon(k - 1) \subseteq RecordsOf(Declared) \cup Upon(k)
      BY <2>4
    <3>2. f[k] = f[k - 1] /\ Clashing(f[k], RecordsOf(Declared) \cup Upon(k))
      BY <2>1, <2>6, <3>1, ClashStays
    <3>3. Good(k)
      BY <2>3, <3>2 DEF LoweredOrClashing
    <3> QED BY <2>2, <3>3
  <2> QED BY <2>3, <2>5, <2>6 DEF LoweredOrClashing
<1>9. N \in G
  <2> HIDE DEF G
  <2> QED BY <1>0, <1>7, <1>8, Upto
<1> QED
  BY <1>1, <1>6, <1>9 DEF N

LEMMA PostOrderIs ==
  ASSUME revision \in Revisions, NEW type \in revision.types
  PROVE  PostOrder(type) \in Seq(revision.types)
<1> DEFINE T == revision.types
<1>0. TypeNesting \in Nat \ {0}
  BY RevisionAssumption
<1>1. PICK f : /\ \A n \in 0..TypeNesting : f[n] = OrderLevel(n, f[n - 1])
               /\ \A t : PostOrder(t) = f[TypeNesting][t]
  BY PostOrderSteps
<1> DEFINE G == {n \in 0..TypeNesting : \A u \in T : f[n][u] \in Seq(T)}
<1>2. 0 \in G
  <2>1. f[0] = OrderLevel(0, f[0 - 1])
    BY <1>0, <1>1
  <2>2. \A u \in T : f[0][u] = <<>>
    BY <2>1 DEF OrderLevel
  <2> HIDE DEF T
  <2>3. <<>> \in Seq(T)
    OBVIOUS
  <2>4. \A u \in T : f[0][u] \in Seq(T)
    BY ONLY <2>2, <2>3, Zenon
  <2>5. 0 \in 0..TypeNesting
    BY <1>0
  <2> QED BY <2>4, <2>5
<1>3. ASSUME NEW n \in 1..TypeNesting, n - 1 \in G PROVE n \in G
  <2>1. ASSUME NEW u \in T PROVE f[n][u] \in Seq(T)
    <3> DEFINE g == f[n - 1]
               q == [i \in DOMAIN u.arguments |-> g[u.arguments[i]]]
               front == FlattenSeq(q)
               N == Len(u.arguments)
    <3>1. f[n][u] = front \o <<u>>
      <4>1. f[n] = OrderLevel(n, f[n - 1]) /\ n # 0
        BY <1>1
      <4> QED BY <4>1, <2>1 DEF OrderLevel
    <3>2. N \in Nat /\ u.arguments \in Seq(T) /\ DOMAIN u.arguments = 1..N
      BY TypeFacts
    <3>3. \A i \in 1..N : u.arguments[i] \in T
      BY <3>2
    <3>4. \A w \in T : g[w] \in Seq(T)
      BY <1>3
    <3> HIDE DEF g, N, T
    <3>5. q = [i \in 1..N |-> q[i]] /\ \A i \in 1..N : q[i] \in Seq(T)
      BY <3>2, <3>3, <3>4
    <3> HIDE DEF q
    <3>6. front \in Seq(T)
      BY <3>2, <3>5, FlattenedList
    <3>7. <<u>> \in Seq(T)
      BY <2>1
    <3> DEFINE own == <<u>>
    <3> HIDE DEF front, own
    <3>8. own \in Seq(T)
      BY <3>7 DEF own
    <3>9. front \o own \in Seq(T)
      BY <3>6, <3>8, JoinedList
    <3> QED BY <3>1, <3>9 DEF own
  <2>2. n \in 0..TypeNesting
    BY <1>0
  <2> QED BY <2>1, <2>2
<1>4. TypeNesting \in G
  <2> HIDE DEF G
  <2> QED BY <1>0, <1>2, <1>3, Upto
<1> QED
  BY <1>1, <1>4

LEMMA DemandFacts ==
  ASSUME revision \in Revisions
  PROVE  /\ Len(revision.demands) \in Nat /\ DOMAIN revision.demands = 1..Len(revision.demands)
         /\ \A i \in 1..Len(revision.demands) :
              /\ revision.demands[i].what \in {"type", "specialization"}
              /\ revision.demands[i].what = "type" => revision.demands[i].type \in revision.types
              /\ revision.demands[i].what = "specialization" =>
                   /\ revision.demands[i].function \in PlacesOf(revision)
                   /\ revision.demands[i].arguments \in Seq(revision.types)
<1>1. /\ revision.demands \in Seq(ToSet(revision.demands))
      /\ \A i \in DOMAIN revision.demands : DemandKnown(revision, revision.demands[i])
  BY RevisionAssumption
<1>2. Len(revision.demands) \in Nat /\ DOMAIN revision.demands = 1..Len(revision.demands)
  BY <1>1
<1> QED
  BY <1>1, <1>2 DEF DemandKnown

LEMMA GeneratedNext ==
  ASSUME revision \in Revisions, NEW ids, NEW n \in 0..Len(revision.demands) - 1
  PROVE  LET demand == revision.demands[n + 1]
         IN /\ demand.what = "type" =>
                 GeneratedFor(ids, n + 1) = GeneratedFor(ids, n) \cup AddingAll(ids, PostOrder(demand.type))
            /\ demand.what = "specialization" =>
                 GeneratedFor(ids, n + 1) = GeneratedFor(ids, n) \cup {SpecializationRecord(ids, demand)}
<1> DEFINE demand == revision.demands[n + 1]
           S(k) == {SpecializationRecord(ids, revision.demands[i]) :
                      i \in {i \in 1..k : revision.demands[i].what = "specialization"}}
           T(k) == UNION {TypesIn(ids, revision.demands[i].type) :
                          i \in {i \in 1..k : revision.demands[i].what = "type"}}
<1>1. \A k : GeneratedFor(ids, k) = S(k) \cup T(k)
  BY DEF GeneratedFor
<1>2. 1..n+1 = (1..n) \cup {n + 1}
  BY DemandFacts
<1>3. ASSUME demand.what = "type"
      PROVE  S(n + 1) = S(n) /\ T(n + 1) = T(n) \cup AddingAll(ids, PostOrder(demand.type))
  <2>1. S(n + 1) = S(n)
    BY <1>2, <1>3
  <2>2. T(n + 1) = T(n) \cup TypesIn(ids, demand.type)
    BY <1>2, <1>3
  <2>3. TypesIn(ids, demand.type) = AddingAll(ids, PostOrder(demand.type))
    BY DEF TypesIn, AddingAll
  <2> QED BY <2>1, <2>2, <2>3
<1>4. ASSUME demand.what = "specialization"
      PROVE  S(n + 1) = S(n) \cup {SpecializationRecord(ids, demand)} /\ T(n + 1) = T(n)
  BY <1>2, <1>4
<1> HIDE DEF S, T
<1>5. demand.what = "type" =>
        GeneratedFor(ids, n + 1) = GeneratedFor(ids, n) \cup AddingAll(ids, PostOrder(demand.type))
  BY <1>1, <1>3
<1>6. demand.what = "specialization" =>
        GeneratedFor(ids, n + 1) = GeneratedFor(ids, n) \cup {SpecializationRecord(ids, demand)}
  BY <1>1, <1>4
<1> QED
  BY <1>5, <1>6

(* All demands generate what Generated says.                               *)
LEMMA GeneratedWhole ==
  ASSUME revision \in Revisions, NEW ids
  PROVE  /\ GeneratedFor(ids, Len(revision.demands)) = Generated(ids)
         /\ \A n \in 0..Len(revision.demands) : GeneratedFor(ids, n) \subseteq Generated(ids)
<1> DEFINE N == Len(revision.demands)
           D(what) == {i \in 1..N : revision.demands[i].what = what}
<1>1. N \in Nat /\ DOMAIN revision.demands = 1..N
  BY DemandFacts
<1>2. \A what : DemandsOf(what) = D(what)
  BY <1>1 DEF DemandsOf
<1>3. Generated(ids) = {SpecializationRecord(ids, revision.demands[i]) : i \in D("specialization")}
        \cup UNION {TypesIn(ids, revision.demands[i].type) : i \in D("type")}
  BY <1>2 DEF Generated, TypesIn
<1>4. GeneratedFor(ids, N) = Generated(ids)
  BY <1>3 DEF GeneratedFor
<1>5. ASSUME NEW n \in 0..N PROVE GeneratedFor(ids, n) \subseteq Generated(ids)
  <2>1. \A what : {i \in 1..n : revision.demands[i].what = what} \subseteq D(what)
    BY <1>1
  <2> HIDE DEF D
  <2> QED BY <1>3, <2>1 DEF GeneratedFor
<1> QED
  BY <1>4, <1>5

LEMMA GeneratedAll ==
  ASSUME revision \in Revisions, NEW s, Identified(s)
  PROVE  /\ AllGenerated(Generated(s.ids))
         /\ \A n \in 0..Len(revision.demands) : AllGenerated(GeneratedFor(s.ids, n))
<1>1. AllGenerated(Generated(s.ids))
  <2> SUFFICES ASSUME NEW r \in Generated(s.ids) PROVE IsGenerated(r)
    BY DEF AllGenerated
  <2>1. CASE \E i \in DemandsOf("specialization") : r = SpecializationRecord(s.ids, revision.demands[i])
    <3>1. PICK i \in DemandsOf("specialization") : r = SpecializationRecord(s.ids, revision.demands[i])
      BY <2>1
    <3>2. i \in 1..Len(revision.demands) /\ revision.demands[i].what = "specialization"
      BY DemandFacts DEF DemandsOf
    <3>3. /\ revision.demands[i].function \in PlacesOf(revision)
          /\ revision.demands[i].arguments \in Seq(revision.types)
      BY <3>2, DemandFacts
    <3> QED BY <3>1, <3>3, SpecializationGenerated
  <2>2. CASE \E i \in DemandsOf("type") :
               \E t \in ToSet(PostOrder(revision.demands[i].type)) : r = TypeRecord(s.ids, t)
    <3>1. PICK i \in DemandsOf("type") :
               \E t \in ToSet(PostOrder(revision.demands[i].type)) : r = TypeRecord(s.ids, t)
      BY <2>2
    <3>2. i \in 1..Len(revision.demands) /\ revision.demands[i].what = "type"
      BY DemandFacts DEF DemandsOf
    <3> DEFINE list == PostOrder(revision.demands[i].type)
    <3>3. list \in Seq(revision.types)
      BY <3>2, DemandFacts, PostOrderIs
    <3>4. PICK t \in ToSet(list) : r = TypeRecord(s.ids, t)
      BY <3>1
    <3> HIDE DEF list
    <3>5. t \in revision.types
      BY <3>3, <3>4 DEF ToSet
    <3> QED BY <3>4, <3>5, TypeGenerated
  <2> QED BY <2>1, <2>2 DEF Generated
<1> QED
  BY <1>1, GeneratedWhole DEF AllGenerated

(* A step of the lowering keeps the invariant if it adds what its demand   *)
(* asks for, or clashes.                                                   *)
LEMMA LoweringStep ==
  ASSUME IdentityInv, progress = "lowering", UNCHANGED <<revision, at>>,
         fulfilled < Len(revision.demands), fulfilled' = fulfilled + 1,
         NEW t, Continues(t, "lowering"), t.ids = catalog.ids,
         LoweredOrClashing(t, GeneratedFor(catalog.ids, fulfilled + 1))
  PROVE  IdentityInv'
<1> DEFINE n == fulfilled + 1
           X == GeneratedFor(catalog.ids, n)
<1>1. /\ revision \in Revisions /\ AtPlace /\ fulfilled \in 0..Len(revision.demands)
      /\ at.module > Len(revision.modules) /\ ~ Malformed
  BY DEF IdentityInv, Reached
<1>2. n \in 0..Len(revision.demands)
  BY <1>1, DemandFacts
<1>3. AtPlace'
  BY <1>1 DEF AtPlace
<1>4. CASE Lowered(t, X)
  <2>1. catalog' = t /\ progress' = "lowering"
    BY <1>4, ContinuesIs DEF Lowered
  <2>2. ~ Malformed'
    BY <1>1, SameMalformed
  <2>3. Lowered(catalog, GeneratedFor(catalog.ids, fulfilled))'
    <3>1. GeneratedFor(catalog.ids, fulfilled)' = X
      BY <2>1, SameGeneratedFor
    <3> QED BY <1>4, <2>1, <3>1, SameLowered
  <2>4. Reached'
    BY <1>1, <2>1, <2>2, <2>3 DEF Reached
  <2> QED BY <1>1, <1>2, <1>3, <2>1, <2>4 DEF IdentityInv
<1>5. CASE Clashing(t, RecordsOf(Declared) \cup X)
  <2>1. catalog' = t /\ progress' = "collision"
    BY <1>5, ContinuesIs DEF Clashing
  <2> DEFINE Q == RecordsOf(Declared) \cup Generated(catalog.ids)
  <2>2. Clashing(t, Q)
    <3>1. RecordsOf(Declared) \cup X \subseteq Q
      BY <1>1, <1>2, GeneratedWhole
    <3> QED BY <1>5, <3>1, ClashStays
  <2>3. Q' = Q
    <3>1. Generated(catalog.ids)' = Generated(catalog.ids)
      BY <2>1, SameGenerated
    <3>2. RecordsOf(Declared)' = RecordsOf(Declared)
      BY SameDeclared DEF RecordsOf
    <3> QED BY <3>1, <3>2
  <2>4. ~ (at'.module <= Len(revision'.modules))
    <3>1. at.module \in Nat /\ Len(revision.modules) \in Nat
      BY <1>1, Sources DEF AtPlace
    <3> QED BY <1>1, <3>1
  <2>5. Clashing(catalog, Q)'
    <3>1. Clashing(catalog', Q')
      BY <2>1, <2>2, <2>3
    <3> QED BY <3>1 DEF Clashing, CatalogIs, KeysClash
  <2>6. Reached'
    BY <2>1, <2>4, <2>5 DEF Reached
  <2> QED BY <1>1, <1>2, <1>3, <2>1, <2>6 DEF IdentityInv
<1> QED
  BY <1>4, <1>5 DEF LoweredOrClashing

LEMMA Lowering ==
  ASSUME IdentityInv, progress = "lowering"
  PROVE  /\ revision \in Revisions /\ fulfilled \in 0..Len(revision.demands)
         /\ Len(revision.demands) \in Nat
         /\ at.module > Len(revision.modules) /\ ~ Malformed /\ AtPlace
         /\ Identified(catalog) /\ Lowered(catalog, GeneratedFor(catalog.ids, fulfilled))
         /\ AllGenerated(GeneratedFor(catalog.ids, fulfilled))
<1>1. /\ revision \in Revisions /\ fulfilled \in 0..Len(revision.demands)
      /\ at.module > Len(revision.modules) /\ ~ Malformed /\ AtPlace
      /\ Lowered(catalog, GeneratedFor(catalog.ids, fulfilled))
  BY DEF IdentityInv, Reached
<1>2. Identified(catalog)
  BY <1>1 DEF Lowered
<1> QED
  BY <1>1, <1>2, GeneratedAll, DemandFacts

LEMMA DemandTypeKeeps ==
  ASSUME IdentityInv, DemandType
  PROVE  IdentityInv'
<1> DEFINE n == fulfilled
           demand == revision.demands[n + 1]
           X == GeneratedFor(catalog.ids, n)
           list == PostOrder(demand.type)
           t == InternTypes(catalog, list)
<1>1. /\ progress = "lowering" /\ n < Len(revision.demands) /\ demand.what = "type"
      /\ Continues(t, "lowering") /\ fulfilled' = n + 1 /\ UNCHANGED <<revision, at>>
  BY DEF DemandType, Asked, NextDemand
<1>2. /\ revision \in Revisions /\ n \in 0..Len(revision.demands) /\ Len(revision.demands) \in Nat
      /\ Lowered(catalog, X) /\ AllGenerated(X)
  BY <1>1, Lowering
<1>3. n \in 0..Len(revision.demands) - 1 /\ n + 1 \in 1..Len(revision.demands)
  BY <1>1, <1>2
<1>4. demand.type \in revision.types
  BY <1>1, <1>2, <1>3, DemandFacts
<1>5. list \in Seq(revision.types)
  BY <1>2, <1>4, PostOrderIs
<1>6. GeneratedFor(catalog.ids, n + 1) = X \cup AddingAll(catalog.ids, list)
  BY <1>1, <1>2, <1>3, GeneratedNext
<1> HIDE DEF X, list, demand
<1>7. t.ids = catalog.ids /\ LoweredOrClashing(t, X \cup AddingAll(catalog.ids, list))
  BY <1>2, <1>5, InternTypesKeeps
<1> HIDE DEF t
<1> QED
  BY <1>1, <1>6, <1>7, LoweringStep

LEMMA DemandSpecializationKeeps ==
  ASSUME IdentityInv, DemandSpecialization
  PROVE  IdentityInv'
<1> DEFINE n == fulfilled
           demand == revision.demands[n + 1]
           X == GeneratedFor(catalog.ids, n)
           r == SpecializationRecord(catalog.ids, demand)
           t == Push(Intern(catalog, r), r)
<1>1. /\ progress = "lowering" /\ n < Len(revision.demands) /\ demand.what = "specialization"
      /\ Continues(t, "lowering") /\ fulfilled' = n + 1 /\ UNCHANGED <<revision, at>>
  BY DEF DemandSpecialization, Asked, NextDemand
<1>2. /\ revision \in Revisions /\ n \in 0..Len(revision.demands) /\ Len(revision.demands) \in Nat
      /\ Lowered(catalog, X) /\ AllGenerated(X) /\ Identified(catalog)
  BY <1>1, Lowering
<1>3. n \in 0..Len(revision.demands) - 1 /\ n + 1 \in 1..Len(revision.demands)
  BY <1>1, <1>2
<1>4. demand.function \in PlacesOf(revision) /\ demand.arguments \in Seq(revision.types)
  BY <1>1, <1>2, <1>3, DemandFacts
<1>5. IsGenerated(r)
  BY <1>2, <1>4, SpecializationGenerated
<1>6. GeneratedFor(catalog.ids, n + 1) = X \cup {r}
  BY <1>1, <1>2, <1>3, GeneratedNext
<1>7. t = Push(Intern(catalog, r), r)
  OBVIOUS
<1> HIDE DEF X, r, demand, t
<1>8. t.ids = catalog.ids /\ LoweredOrClashing(t, X \cup {r})
  BY <1>2, <1>5, <1>7, AddKeeps DEF LoweredOrClashing
<1> QED
  BY <1>1, <1>6, <1>8, LoweringStep

LEMMA SpecializationDomain ==
  \A ids, demand : SpecializationRecord(ids, demand).domain = "specialization"
BY DEF SpecializationRecord, Record

(* Every body has a specialization that was demanded.                      *)
LEMMA BodiesDemanded ==
  ASSUME revision \in Revisions, NEW ids
  PROVE  \A d \in DOMAIN Bodies(ids) : \E r \in Specialized(Generated(ids)) : d = r.digest
<1> DEFINE S == DemandsOf("specialization")
           digest == [i \in S |-> SpecializationRecord(ids, revision.demands[i]).digest]
           whole == {i \in DOMAIN digest : revision.demands[i].body # 0}
<1>1. DOMAIN Bodies(ids) = {digest[i] : i \in whole}
  BY DEF Bodies
<1> SUFFICES ASSUME NEW d \in DOMAIN Bodies(ids)
             PROVE  \E r \in Specialized(Generated(ids)) : d = r.digest
  OBVIOUS
<1>2. PICK i \in S : d = digest[i]
  BY <1>1
<1> DEFINE r == SpecializationRecord(ids, revision.demands[i])
<1>3. d = r.digest
  BY <1>2
<1>4. r \in Generated(ids)
  BY <1>2 DEF Generated
<1>5. r.domain = "specialization"
  BY SpecializationDomain
<1> HIDE DEF r
<1> QED
  BY <1>3, <1>4, <1>5 DEF Specialized

(* The fingerprints of the bodies are put where the index finds them.      *)
LEMMA FingerprintedIs ==
  ASSUME revision \in Revisions, NEW X, NEW s, Lowered(s, X), X = Generated(s.ids),
         NEW t, t = Fingerprinted(s)
  PROVE  /\ CatalogIs(t) /\ t.full = s.full /\ t.ids = s.ids /\ t.clash = s.clash
         /\ t.records = [i \in DOMAIN s.records |-> WithBody(Bodies(s.ids), s.records[i])]
<1> DEFINE bodies == Bodies(s.ids)
           bodyAt(i) == {d \in DOMAIN bodies : s.index[d] = i}
           list == [i \in DOMAIN s.records |->
                      IF bodyAt(i) = {} THEN s.records[i]
                      ELSE [s.records[i] EXCEPT
                              !.fingerprint = <<"body", bodies[CHOOSE d \in bodyAt(i) : TRUE]>>]]
<1>0. CatalogIs(s)
  BY DEF Lowered, Identified
<1>1. t = [s EXCEPT !.records = list]
  BY DEF Fingerprinted
<1>2. /\ s.records \in Seq(RecordsOf(Declared) \cup X)
      /\ ToSet(s.records) = RecordsOf(Declared) \cup X /\ IndexOf(s)
  BY DEF Lowered
<1>3. \A d \in DOMAIN bodies : \E r \in Specialized(X) : d = r.digest
  BY BodiesDemanded
<1> HIDE DEF bodies
<1>4. ASSUME NEW i \in DOMAIN s.records, NEW d \in bodyAt(i)
      PROVE  s.records[i].domain = "specialization" /\ s.records[i].digest = d
  <2>1. PICK r \in X : r.domain = "specialization" /\ r.digest = d
    BY <1>3 DEF Specialized
  <2>2. PICK j \in DOMAIN s.records : s.records[j] = r
    BY <1>2, <2>1 DEF ToSet
  <2>3. s.index[d] = j
    BY <1>2, <2>1, <2>2 DEF IndexOf
  <2>4. s.index[d] = i
    BY <1>4
  <2> QED BY <2>1, <2>2, <2>3, <2>4
<1>5. ASSUME NEW i \in DOMAIN s.records PROVE list[i] = WithBody(bodies, s.records[i])
  <2> DEFINE r == s.records[i]
  <2>1. CASE bodyAt(i) = {}
    <3>1. ~ (r.domain = "specialization" /\ r.digest \in DOMAIN bodies)
      <4>1. r.domain = "specialization" => s.index[r.digest] = i
        BY <1>2 DEF IndexOf
      <4> QED BY <2>1, <4>1
    <3>2. list[i] = r
      BY <2>1
    <3> QED BY <3>1, <3>2 DEF WithBody
  <2>2. CASE bodyAt(i) # {}
    <3> DEFINE c == CHOOSE d \in bodyAt(i) : TRUE
    <3>1. c \in bodyAt(i)
      BY <2>2
    <3>2. list[i] = [r EXCEPT !.fingerprint = <<"body", bodies[c]>>]
      BY <2>2
    <3> HIDE DEF c
    <3>3. r.domain = "specialization" /\ r.digest = c
      BY <1>4, <3>1
    <3>4. c \in DOMAIN bodies
      BY <3>1
    <3> HIDE DEF r, list
    <3> QED BY <3>2, <3>3, <3>4 DEF WithBody, r
  <2> QED BY <2>1, <2>2
<1>6. list = [i \in DOMAIN s.records |-> WithBody(bodies, s.records[i])]
  BY <1>5
<1> HIDE DEF list
<1>7. CatalogIs(t) /\ t.full = s.full /\ t.ids = s.ids /\ t.clash = s.clash /\ t.records = list
  BY <1>0, <1>1 DEF CatalogIs
<1> QED
  BY <1>6, <1>7 DEF bodies

(* Finalize sorts the records and finds the specializations again.         *)
LEMMA FinalizeIs ==
  ASSUME NEW s, CatalogIs(s), NEW sorted, sorted = InKeyOrder(s.records), NEW t, t = Finalize(s)
  PROVE  /\ CatalogIs(t) /\ t.full = s.full /\ t.ids = s.ids /\ t.clash = s.clash
         /\ t.records = sorted /\ t.index = RebuiltIndex(sorted)
<1> DEFINE found == RebuiltIndex(sorted)
<1>1. t = [s EXCEPT !.records = sorted, !.index = found]
  BY DEF Finalize
<1> HIDE DEF found
<1>2. /\ CatalogIs(t) /\ t.full = s.full /\ t.ids = s.ids /\ t.clash = s.clash
      /\ t.records = sorted /\ t.index = found
  BY <1>1 DEF CatalogIs
<1> QED
  BY <1>2 DEF found

LEMMA RebuiltFinds ==
  ASSUME NEW list, \A i, k \in DOMAIN list : list[i].digest = list[k].digest => i = k,
         NEW i \in DOMAIN list, list[i].domain = "specialization"
  PROVE  RebuiltIndex(list)[list[i].digest] = i
<1> DEFINE own == {k \in DOMAIN list : list[k].domain = "specialization"}
           d == list[i].digest
           c == CHOOSE k \in own : list[k].digest = d
<1>1. i \in own
  OBVIOUS
<1>2. c \in own /\ list[c].digest = d
  BY <1>1
<1>3. c = i
  BY <1>2
<1>4. RebuiltIndex(list)[d] = c
  BY <1>1 DEF RebuiltIndex
<1> QED
  BY <1>3, <1>4

(* The final catalog has everything once, in the order of the keys.        *)
LEMMA LoweringEnds ==
  ASSUME revision \in Revisions, NEW X, AllGenerated(X), NEW s, Lowered(s, X),
         X = Generated(s.ids), NEW t, t = Finalize(Fingerprinted(s))
  PROVE  ~ t.clash /\ t.ids = s.ids /\ Finished(t, X, Bodies(s.ids))
<1> DEFINE bodies == Bodies(s.ids)
           u == Fingerprinted(s)
           R == RecordsOf(Declared) \cup X
           Q == {WithBody(bodies, r) : r \in R}
           list == u.records
           sorted == InKeyOrder(list)
<1>1. /\ CatalogIs(u) /\ u.full = s.full /\ u.ids = s.ids /\ u.clash = s.clash
      /\ list = [i \in DOMAIN s.records |-> WithBody(bodies, s.records[i])]
  BY FingerprintedIs
<1>2. /\ Identified(s) /\ ~ s.clash /\ s.records \in Seq(R) /\ ToSet(s.records) = R
      /\ KeysOnce(s.records) /\ \A r \in R : s.full[r.digest] = r.key
  BY DEF Lowered
<1>3. \A r \in R : RecordIs(r) /\ r.key \in Seq(Nat)
  BY DeclaredKeys DEF AllGenerated, IsGenerated
<1>4. \A r \in RecordsOf(Declared) : r.domain # "specialization" /\ RecordIs(r)
  BY DeclaredKeys
<1>5. t = Finalize(u) /\ sorted = InKeyOrder(u.records)
  OBVIOUS
<1> HIDE DEF u, bodies
<1>6. Q = RecordsOf(Declared) \cup {WithBody(bodies, r) : r \in X}
  <2>1. \A r \in RecordsOf(Declared) : WithBody(bodies, r) = r
    BY <1>4, BodySame
  <2> QED BY <2>1
<1> HIDE DEF R
<1>7. Keyed(Q)
  BY <1>3, BodySame DEF Keyed
<1>8. \A r \in Q : s.full[r.digest] = r.key
  BY <1>2, <1>3, BodySame
<1> DEFINE N == Len(s.records)
<1>9. /\ N \in Nat /\ DOMAIN s.records = 1..N /\ \A i \in 1..N : s.records[i] \in R
  BY <1>2
<1> HIDE DEF N
<1>10. list \in Seq(Q) /\ DOMAIN list = 1..N
  <2>1. list = [i \in 1..N |-> WithBody(bodies, s.records[i])]
    BY <1>1, <1>9
  <2>2. \A i \in 1..N : WithBody(bodies, s.records[i]) \in Q
    BY <1>9
  <2> HIDE DEF list, Q
  <2> QED BY <1>9, <2>1, <2>2
<1>11. KeysOnce(list)
  <2>1. \A i \in 1..N : list[i].key = s.records[i].key
    BY <1>1, <1>3, <1>9, BodySame
  <2> HIDE DEF list
  <2> QED BY <1>2, <1>9, <1>10, <2>1 DEF KeysOnce
<1>12. ToSet(list) = Q
  <2>1. ToSet(s.records) = {s.records[i] : i \in 1..N}
    BY <1>9 DEF ToSet
  <2>2. list = [i \in 1..N |-> WithBody(bodies, s.records[i])]
    BY <1>1, <1>9
  <2> HIDE DEF list
  <2>3. ToSet(list) = {WithBody(bodies, s.records[i]) : i \in 1..N}
    BY <1>10, <2>2 DEF ToSet
  <2> QED BY <1>2, <2>1, <2>3
<1> HIDE DEF list, Q
<1>13. /\ sorted \in Seq(Q) /\ ToSet(sorted) = Q /\ KeysOrdered(sorted) /\ KeysOnce(sorted)
  BY <1>7, <1>10, <1>11, <1>12, KeyOrderFacts
<1> HIDE DEF sorted
<1>14. KeysRise(sorted)
  BY <1>7, <1>13, OrderedOnce
<1>15. /\ CatalogIs(t) /\ t.full = u.full /\ t.ids = u.ids /\ t.clash = u.clash
       /\ t.records = sorted /\ t.index = RebuiltIndex(sorted)
  BY <1>1, <1>5, FinalizeIs
<1>16. IndexOf(t)
  <2>1. \A i \in DOMAIN sorted : sorted[i] \in Q
    BY <1>13
  <2>2. \A i, k \in DOMAIN sorted : sorted[i].digest = sorted[k].digest => i = k
    BY <1>8, <1>13, <2>1 DEF KeysOnce
  <2>3. \A i \in DOMAIN sorted : sorted[i].domain = "specialization" =>
          RebuiltIndex(sorted)[sorted[i].digest] = i
    BY <2>2, RebuiltFinds
  <2> QED BY <1>15, <2>3 DEF IndexOf
<1>17. Told(t)
  BY <1>1, <1>8, <1>13, <1>15 DEF Told
<1>18. Identified(t)
  BY <1>1, <1>2, <1>15 DEF Identified
<1>19. ToSet(t.records) = RecordsOf(Declared) \cup {WithBody(bodies, r) : r \in X}
       /\ t.records \in Seq(ToSet(t.records)) /\ KeysRise(t.records)
  BY <1>6, <1>13, <1>14, <1>15
<1>20. Finished(t, X, bodies)
  BY <1>16, <1>17, <1>18, <1>19 DEF Finished
<1> QED
  BY <1>1, <1>2, <1>15, <1>20 DEF bodies

LEMMA EndLoweringKeeps ==
  ASSUME IdentityInv, EndLowering
  PROVE  IdentityInv'
<1> DEFINE ids == catalog.ids
           X == Generated(ids)
           bodies == Bodies(ids)
           t == Finalize(Fingerprinted(catalog))
<1>1. /\ progress = "lowering" /\ fulfilled = Len(revision.demands)
      /\ revision' = revision /\ at' = at /\ fulfilled' = fulfilled
  BY DEF EndLowering
<1>2. /\ revision \in Revisions /\ fulfilled \in 0..Len(revision.demands)
      /\ at.module > Len(revision.modules) /\ AtPlace
      /\ Lowered(catalog, GeneratedFor(ids, fulfilled)) /\ AllGenerated(GeneratedFor(ids, fulfilled))
  BY <1>1, Lowering
<1>3. GeneratedFor(ids, fulfilled) = X
  BY <1>1, <1>2, GeneratedWhole
<1>4. Lowered(catalog, X) /\ AllGenerated(X)
  BY <1>2, <1>3
<1>5. DOMAIN bodies \subseteq DOMAIN catalog.index
  <2>1. DOMAIN catalog.index = {r.digest : r \in Specialized(X)}
    BY <1>4 DEF Lowered
  <2>2. \A d \in DOMAIN bodies : \E r \in Specialized(X) : d = r.digest
    BY <1>2, BodiesDemanded
  <2> HIDE DEF bodies, X
  <2> QED BY <2>1, <2>2
<1>6. Continues(t, "final")
  BY <1>5 DEF EndLowering
<1>7. ~ t.clash /\ t.ids = ids /\ Finished(t, X, bodies)
  BY <1>2, <1>4, LoweringEnds
<1> HIDE DEF t
<1>8. catalog' = t /\ progress' = "final"
  BY <1>6, <1>7, ContinuesIs
<1>9. AtPlace'
  BY <1>1, <1>2 DEF AtPlace
<1>10. Finished(catalog, Generated(catalog.ids), Bodies(catalog.ids))'
  <2>1. Generated(catalog.ids)' = X
    BY <1>1, <1>7, <1>8, SameGenerated
  <2>2. Bodies(catalog.ids)' = bodies
    BY <1>1, <1>7, <1>8, SameBodies
  <2> QED BY <1>1, <1>7, <1>8, <2>1, <2>2, SameFinished
<1>11. Reached'
  BY <1>1, <1>2, <1>8, <1>10 DEF Reached
<1> QED
  BY <1>1, <1>2, <1>8, <1>9, <1>11 DEF IdentityInv

(* What does nothing keeps the invariant.                                  *)
LEMMA StutterKeeps ==
  ASSUME IdentityInv, UNCHANGED identityVars
  PROVE  IdentityInv'
<1> DEFINE Q == IF at.module <= Len(revision.modules) THEN RecordsOf(Declared)
                ELSE RecordsOf(Declared) \cup Generated(catalog.ids)
<1>1. /\ revision' = revision /\ at' = at /\ fulfilled' = fulfilled
      /\ progress' = progress /\ catalog' = catalog
  BY DEF identityVars
<1>2. AtPlace'
  BY <1>1 DEF IdentityInv, AtPlace
<1>3. Generated(catalog.ids)' = Generated(catalog.ids) /\ Bodies(catalog.ids)' = Bodies(catalog.ids)
      /\ GeneratedFor(catalog.ids, fulfilled)' = GeneratedFor(catalog.ids, fulfilled)
  BY <1>1, SameGenerated, SameBodies, SameGeneratedFor
<1>4. RecordsOf(Declared)' = RecordsOf(Declared)
  BY <1>1, SameDeclared DEF RecordsOf
<1>5. ASSUME progress = "catalog"
      PROVE  Catalogued(catalog, EntriesUntil(at.module, at.declaration))'
  <2> DEFINE E == EntriesUntil(at.module, at.declaration)
  <2>1. E' = E
    BY <1>1, SameUntil
  <2>2. Catalogued(catalog, E)
    BY <1>5 DEF IdentityInv, Reached
  <2>3. Catalogued(catalog', E')
    BY <1>1, <2>1, <2>2
  <2> QED BY <2>3 DEF Catalogued, CatalogIs, OneKey
<1>6. ASSUME progress = "lowering"
      PROVE  ~ Malformed' /\ Lowered(catalog, GeneratedFor(catalog.ids, fulfilled))'
  BY <1>1, <1>3, <1>6, SameMalformed, SameLowered DEF IdentityInv, Reached
<1>7. ASSUME progress = "final"
      PROVE  Finished(catalog, Generated(catalog.ids), Bodies(catalog.ids))'
  BY <1>1, <1>3, <1>7, SameFinished DEF IdentityInv, Reached
<1>8. ASSUME progress = "diagnosed"
      PROVE  Identified(catalog)' /\ Told(catalog)'
  BY <1>1, <1>8, SameIdentified DEF IdentityInv, Reached, Told
<1>9. ASSUME progress = "collision"
      PROVE  Clashing(catalog, Q)'
  <2>1. Q' = Q
    BY <1>1, <1>3, <1>4
  <2>2. Clashing(catalog, Q)
    BY <1>9 DEF IdentityInv, Reached
  <2>3. Clashing(catalog', Q')
    BY <1>1, <2>1, <2>2
  <2> QED BY <2>3 DEF Clashing, CatalogIs, KeysClash
<1>10. ASSUME progress = "cancelled" PROVE Told(catalog)'
  BY <1>1, <1>10 DEF IdentityInv, Reached, Told
<1>11. progress = "lowering" => at.module > Len(revision.modules) /\ ~ Malformed
  BY DEF IdentityInv, Reached
<1>12. progress = "final" => at.module > Len(revision.modules)
  BY DEF IdentityInv, Reached
<1>13. Reached'
  BY <1>1, <1>5, <1>6, <1>7, <1>8, <1>9, <1>10, <1>11, <1>12 DEF Reached
<1> QED
  BY <1>1, <1>2, <1>13 DEF IdentityInv

LEMMA IdentitiesStart == IdentityInit => IdentityInv
<1> SUFFICES ASSUME IdentityInit PROVE IdentityInv
  OBVIOUS
<1>1. /\ revision \in Revisions /\ progress = "catalog" /\ catalog = Empty /\ fulfilled = 0
      /\ at = [module |-> 1, declaration |-> 0]
  BY DEF IdentityInit
<1>2. Len(revision.modules) \in Nat /\ Len(revision.demands) \in Nat
  BY <1>1, Sources, DemandFacts
<1>3. AtPlace
  <2>1. at.module = 1 /\ at.declaration = 0
    BY <1>1
  <2>2. at.module <= Len(revision.modules) =>
          at.declaration \in 0..Len(revision.modules[at.module].declarations) + 1
    <3> SUFFICES ASSUME 1 <= Len(revision.modules)
                 PROVE  0 \in 0..Len(revision.modules[1].declarations) + 1
      BY <2>1
    <3>1. revision.modules[1] \in ToSet(revision.modules)
      BY <1>1, <1>2, Sources DEF ToSet
    <3> QED BY <1>1, <3>1, Sources
  <2> QED BY <1>1, <1>2, <2>1, <2>2 DEF AtPlace
<1>4. Catalogued(catalog, EntriesUntil(at.module, at.declaration))
  <2>1. EntriesUntil(1, 0) = {}
    BY <1>1, <1>2 DEF EntriesUntil, EntriesBefore
  <2>2. Catalogued(Empty, {})
    <3> DEFINE s == Empty
    <3>1. CatalogIs(s) /\ ~ s.clash
      BY DEF Empty, CatalogIs
    <3>2. s.records = <<>> /\ s.ids = <<>> /\ s.full = <<>> /\ s.interned = <<>> /\ s.index = <<>>
      BY DEF Empty
    <3>3. DOMAIN <<>> = {} /\ \A S : <<>> \in Seq(S)
      OBVIOUS
    <3> DEFINE e == <<>>
    <3>4. ToSet(e) = {} /\ e \in Seq({}) /\ DOMAIN e = {}
      BY <3>3 DEF ToSet
    <3>5. RecordsOf({}) = {}
      BY DEF RecordsOf
    <3> HIDE DEF s, e
    <3>6. s.records = e /\ DOMAIN s.ids = {} /\ DOMAIN s.full = {} /\ DOMAIN s.interned = {}
          /\ DOMAIN s.index = {}
      BY <3>2, <3>4 DEF e
    <3>7. Catalogued(s, {})
      BY <3>1, <3>4, <3>5, <3>6 DEF Catalogued
    <3> QED BY <3>7 DEF s
  <2> QED BY <1>1, <2>1, <2>2
<1> QED
  BY <1>1, <1>2, <1>3, <1>4 DEF IdentityInv, Reached

LEMMA IdentitiesKept == IdentityInv /\ [IdentityNext \/ CancelIdentities]_identityVars => IdentityInv'
BY CatalogModuleKeeps, CatalogDeclarationKeeps, EndModuleKeeps, EndCatalogKeeps, CancelKeeps,
   DemandTypeKeeps, DemandSpecializationKeeps, EndLoweringKeeps, StutterKeeps
   DEF IdentityNext

(* The identity catalog keeps its promise (IdentitiesUnique) whatever is   *)
(* declared and demanded: a digest never stands for two keys, a collision is*)
(* reported only where there is one, what semantic analysis looks up is there*)
(* and is no other's, set_specialization_fingerprint never misses its record,*)
(* and the final catalog has every identity once, in the order of the keys,*)
(* its specializations indexed and with the fingerprints of their bodies.  *)
THEOREM IdentitiesAreUnique == IdentitySpec => []IdentitiesUnique
BY IdentitiesStart, IdentitiesKept, UniqueEnough, PTL DEF IdentitySpec

=============================================================================
