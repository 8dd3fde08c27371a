---------------------------- MODULE SourceProofs ----------------------------
(***************************************************************************)
(* The scan of layout and delimiters is exact: it reports nothing exactly  *)
(* if the language's layout is kept, and its levels are the blocks.        *)
(***************************************************************************)
EXTENDS SourceGrammar, Fundamentals

-----------------------------------------------------------------------------
(***************************************************************************)
(* How many elements of a sequence are in a set.                           *)
(***************************************************************************)

Hits(s, P) == {k \in DOMAIN s : s[k] \in P}

LEMMA HitsCount ==
  ASSUME NEW T, NEW s \in Seq(T), NEW P
  PROVE  /\ IsFiniteSet(Hits(s, P)) /\ Cardinality(Hits(s, P)) \in Nat
         /\ (\A k \in DOMAIN s : s[k] \notin P) => Cardinality(Hits(s, P)) = 0
         /\ (\A k \in DOMAIN s : s[k] \in P) => Cardinality(Hits(s, P)) = Len(s)
<1>1. Len(s) \in Nat /\ DOMAIN s = 1..Len(s)
  OBVIOUS
<1>2. IsFiniteSet(1..Len(s)) /\ Cardinality(1..Len(s)) = Len(s)
  BY <1>1, FS_Interval
<1>3. Hits(s, P) \subseteq 1..Len(s)
  BY <1>1 DEF Hits
<1>4. IsFiniteSet(Hits(s, P))
  BY <1>2, <1>3, FS_Subset
<1>5. Cardinality(Hits(s, P)) \in Nat
  BY <1>4, FS_CardinalityType
<1>6. ASSUME \A k \in DOMAIN s : s[k] \notin P PROVE Cardinality(Hits(s, P)) = 0
  <2>1. Hits(s, P) = {}
    BY <1>6 DEF Hits
  <2> QED BY <2>1, FS_EmptySet
<1>7. ASSUME \A k \in DOMAIN s : s[k] \in P PROVE Cardinality(Hits(s, P)) = Len(s)
  <2>1. Hits(s, P) = 1..Len(s)
    BY <1>1, <1>7 DEF Hits
  <2> QED BY <1>2, <2>1
<1> QED
  BY <1>4, <1>5, <1>6, <1>7

LEMMA HitsAppend ==
  ASSUME NEW T, NEW a \in Seq(T), NEW b \in Seq(T), NEW P
  PROVE  Cardinality(Hits(a \o b, P)) = Cardinality(Hits(a, P)) + Cardinality(Hits(b, P))
<1> DEFINE A == Hits(a, P)
           B == Hits(b, P)
           C == {k + Len(a) : k \in B}
<1>1. /\ Len(a) \in Nat /\ Len(b) \in Nat
      /\ DOMAIN a = 1..Len(a) /\ DOMAIN b = 1..Len(b) /\ DOMAIN (a \o b) = 1..Len(a) + Len(b)
      /\ \A k \in 1..Len(a) : (a \o b)[k] = a[k]
      /\ \A k \in 1..Len(b) : (a \o b)[k + Len(a)] = b[k]
  OBVIOUS
<1>2. IsFiniteSet(A) /\ IsFiniteSet(B) /\ Cardinality(A) \in Nat /\ Cardinality(B) \in Nat
  BY HitsCount
<1>3. A \subseteq 1..Len(a) /\ B \subseteq 1..Len(b)
  BY <1>1 DEF Hits
<1>4. IsFiniteSet(C) /\ Cardinality(C) = Cardinality(B)
  <2> DEFINE f == [k \in B |-> k + Len(a)]
  <2>1. \A k \in B : k \in Int /\ f[k] = k + Len(a) /\ f[k] \in C
    BY <1>1, <1>3
  <2>2. f \in [B -> C]
    BY <2>1
  <2>3. \A k, l \in B : f[k] = f[l] => k = l
    BY <1>1, <2>1
  <2>4. \A c \in C : \E k \in B : f[k] = c
    BY <2>1
  <2> HIDE DEF f, C
  <2>5. f \in Bijection(B, C)
    BY <2>2, <2>3, <2>4 DEF Bijection, Injection, Surjection, IsInjective
  <2> QED BY <1>2, <2>5, FS_Bijection DEF ExistsBijection
<1>5. Hits(a \o b, P) = A \cup C
  <2>1. ASSUME NEW k \in Hits(a \o b, P) PROVE k \in A \cup C
    <3>1. k \in 1..Len(a) + Len(b) /\ (a \o b)[k] \in P
      BY <1>1 DEF Hits
    <3>2. CASE k \in 1..Len(a)
      BY <1>1, <3>1, <3>2 DEF Hits
    <3>3. CASE k \notin 1..Len(a)
      <4>1. k - Len(a) \in 1..Len(b) /\ k = (k - Len(a)) + Len(a)
        BY <1>1, <3>1, <3>3
      <4>2. b[k - Len(a)] = (a \o b)[k]
        BY <1>1, <4>1
      <4>3. k - Len(a) \in B
        BY <1>1, <3>1, <4>1, <4>2 DEF Hits
      <4> QED BY <4>1, <4>3
    <3> QED BY <3>2, <3>3
  <2>2. ASSUME NEW k \in A PROVE k \in Hits(a \o b, P)
    BY <1>1 DEF Hits
  <2>3. ASSUME NEW j \in B PROVE j + Len(a) \in Hits(a \o b, P)
    <3>1. j \in 1..Len(b) /\ b[j] \in P
      BY <1>1 DEF Hits
    <3>2. j + Len(a) \in 1..Len(a) + Len(b) /\ (a \o b)[j + Len(a)] = b[j]
      BY <1>1, <3>1
    <3> QED BY <1>1, <3>1, <3>2 DEF Hits
  <2> QED BY <2>1, <2>2, <2>3
<1>6. A \cap C = {}
  BY <1>1, <1>3
<1> HIDE DEF A, B, C
<1>7. Cardinality(A \cup C) = Cardinality(A) + Cardinality(C)
  <2>1. Cardinality(A \cap C) = 0
    BY <1>6, FS_EmptySet
  <2>2. Cardinality(A \cup C) = Cardinality(A) + Cardinality(C) - Cardinality(A \cap C)
    BY <1>2, <1>4, FS_Union
  <2> QED BY <1>2, <1>4, <2>1, <2>2
<1> QED
  BY <1>4, <1>5, <1>7 DEF A, B

-----------------------------------------------------------------------------
(***************************************************************************)
(* Depths.                                                                 *)
(***************************************************************************)

LEMMA NestingHits ==
  ASSUME NEW t
  PROVE  Nesting(t) = Cardinality(Hits(t, Openers)) - Cardinality(Hits(t, Closers))
BY DEF Nesting, Hits

LEMMA NestingAppend ==
  ASSUME NEW T, NEW t \in Seq(T), NEW u \in Seq(T)
  PROVE  Nesting(t) \in Int /\ Nesting(t \o u) = Nesting(t) + Nesting(u)
<1>1. /\ Cardinality(Hits(t \o u, Openers)) = Cardinality(Hits(t, Openers)) + Cardinality(Hits(u, Openers))
      /\ Cardinality(Hits(t \o u, Closers)) = Cardinality(Hits(t, Closers)) + Cardinality(Hits(u, Closers))
  BY HitsAppend
<1>2. /\ Cardinality(Hits(t, Openers)) \in Nat /\ Cardinality(Hits(u, Openers)) \in Nat
      /\ Cardinality(Hits(t, Closers)) \in Nat /\ Cardinality(Hits(u, Closers)) \in Nat
  BY HitsCount
<1> QED
  BY <1>1, <1>2, NestingHits

(* What a token does to the depth.                                         *)
Deeper(token) == IF token \in Openers THEN 1 ELSE IF token \in Closers THEN -1 ELSE 0

LEMMA NestingOne ==
  ASSUME NEW token
  PROVE  Nesting(<<token>>) = Deeper(token) /\ Nesting(<<>>) = 0
<1>1. <<token>> \in Seq({token}) /\ <<>> \in Seq({token}) /\ Len(<<token>>) = 1
      /\ DOMAIN <<token>> = {1} /\ <<token>>[1] = token /\ DOMAIN (<<>>) = {}
  OBVIOUS
<1>2. /\ token \in Openers => Cardinality(Hits(<<token>>, Openers)) = 1
      /\ token \notin Openers => Cardinality(Hits(<<token>>, Openers)) = 0
      /\ token \in Closers => Cardinality(Hits(<<token>>, Closers)) = 1
      /\ token \notin Closers => Cardinality(Hits(<<token>>, Closers)) = 0
  BY <1>1, HitsCount
<1>3. /\ Cardinality(Hits(<<>>, Openers)) = 0 /\ Cardinality(Hits(<<>>, Closers)) = 0
  BY <1>1, HitsCount
<1>4. token \in Openers => token \notin Closers
  BY DEF Openers, Closers
<1> QED
  BY <1>2, <1>3, <1>4, NestingHits DEF Deeper

LEMMA DepthSteps ==
  ASSUME NEW t \in Seq(Token)
  PROVE  /\ Depth(t, 0) = 0 /\ Depth(t, Len(t)) = Nesting(t)
         /\ \A k \in 0..Len(t) : Depth(t, k) \in Int
         /\ \A k \in 1..Len(t) : Depth(t, k) = Depth(t, k - 1) + Deeper(t[k])
<1>1. SubSeq(t, 1, 0) = <<>> /\ SubSeq(t, 1, Len(t)) = t
  OBVIOUS
<1>2. Depth(t, 0) = 0 /\ Depth(t, Len(t)) = Nesting(t)
  BY <1>1, NestingOne DEF Depth
<1>3. ASSUME NEW k \in 0..Len(t) PROVE Depth(t, k) \in Int
  <2>1. SubSeq(t, 1, k) \in Seq(Token)
    OBVIOUS
  <2> QED BY <2>1, NestingAppend DEF Depth
<1>4. ASSUME NEW k \in 1..Len(t) PROVE Depth(t, k) = Depth(t, k - 1) + Deeper(t[k])
  <2>1. /\ SubSeq(t, 1, k - 1) \in Seq(Token) /\ <<t[k]>> \in Seq(Token)
        /\ SubSeq(t, 1, k) = SubSeq(t, 1, k - 1) \o <<t[k]>>
    OBVIOUS
  <2> QED BY <2>1, NestingAppend, NestingOne DEF Depth
<1> QED
  BY <1>2, <1>3, <1>4

LEMMA DepthOfPrefix ==
  ASSUME NEW t \in Seq(Token), NEW u \in Seq(Token), NEW k \in 0..Len(t)
  PROVE  Depth(t \o u, k) = Depth(t, k)
<1>1. SubSeq(t \o u, 1, k) = SubSeq(t, 1, k)
  OBVIOUS
<1> QED
  BY <1>1 DEF Depth

-----------------------------------------------------------------------------
(***************************************************************************)
(* The stack of delimiters: each opener stands where its level begins, and *)
(* nothing since is less deep.                                             *)
(***************************************************************************)

Opened == [token : Token, at : Int]

(* The token opened level d, which is open since.                          *)
Raises(t, n, token, d) ==
  \E p \in 1..n : /\ t[p] = token /\ token \in Openers /\ Depth(t, p - 1) = d - 1
                  /\ \A m \in p..n : Depth(t, m) >= d

(* The stack has one opener for each level of the first n tokens.          *)
Stacked(t, n, st) ==
  /\ st \in Seq(Opened) /\ Len(st) = Depth(t, n)
  /\ \A m \in 0..n : Depth(t, m) >= 0
  /\ \A d \in 1..Len(st) : Raises(t, n, st[d].token, d)

Allowed(t, k) == Matched(t, k) /\ Depth(t, k) <= MAX_NESTING

(* The opener of a closer is the one on top of the stack.                  *)
LEMMA TopOpens ==
  ASSUME NEW t \in Seq(Token), NEW n \in 1..Len(t), NEW d \in Int,
         NEW token, Raises(t, n - 1, token, d), Depth(t, n) = d - 1, t[n] \in Closers
  PROVE  Matched(t, n) <=> token = OpenerOf(t[n])
<1>1. PICK p \in 1..n-1 : /\ t[p] = token /\ token \in Openers /\ Depth(t, p - 1) = d - 1
                          /\ \A m \in p..n-1 : Depth(t, m) >= d
  BY DEF Raises
<1>2. \A k \in 0..n : Depth(t, k) \in Int
  BY DepthSteps
<1>3. Opens(t, p, n) <=> token = OpenerOf(t[n])
  BY <1>1, <1>2 DEF Opens
<1>4. ASSUME NEW j \in 1..n-1, Opens(t, j, n) PROVE j = p
  <2>1. Depth(t, j - 1) = d - 1 /\ \A m \in j..n-1 : Depth(t, m) > d - 1
    BY <1>4 DEF Opens
  <2>2. ~ (j < p)
    <3>1. SUFFICES ASSUME j < p PROVE FALSE
      OBVIOUS
    <3>2. p - 1 \in j..n-1
      BY <3>1
    <3> QED BY <1>1, <1>2, <2>1, <3>2
  <2>3. ~ (p < j)
    <3>1. SUFFICES ASSUME p < j PROVE FALSE
      OBVIOUS
    <3>2. j - 1 \in p..n-1
      BY <3>1
    <3> QED BY <1>1, <1>2, <2>1, <3>2
  <2> QED BY <2>2, <2>3
<1> QED
  BY <1>1, <1>3, <1>4 DEF Matched

LEMMA RaisesOn ==
  ASSUME NEW t \in Seq(Token), NEW n \in 1..Len(t), NEW d \in Int,
         NEW token, Raises(t, n - 1, token, d), Depth(t, n) >= d
  PROVE  Raises(t, n, token, d)
<1>1. PICK p \in 1..n-1 : /\ t[p] = token /\ token \in Openers /\ Depth(t, p - 1) = d - 1
                          /\ \A m \in p..n-1 : Depth(t, m) >= d
  BY DEF Raises
<1>2. p \in 1..n /\ \A m \in p..n : m \in p..n-1 \/ m = n
  OBVIOUS
<1> QED
  BY <1>1, <1>2 DEF Raises

LayoutReports == [code : LayoutCodes, at : Int, opener : Int]

Scans == [open : Seq(Opened), reports : SUBSET LayoutReports]

(* One token: allowed and stacked, or reported.                            *)
LEMMA DelimiterScans ==
  ASSUME NEW scan \in Scans, NEW token \in Token, NEW at \in Int
  PROVE  Delimiter(scan, token, at) \in Scans
<1>1. Report("nesting_limit_exceeded", at) \in LayoutReports /\ Report("unmatched_closer", at) \in LayoutReports
  BY DEF Report, LayoutReports, LayoutCodes
<1>2. [token |-> token, at |-> at] \in Opened
  BY DEF Opened
<1>3. scan.open \in Seq(Opened) /\ scan.reports \in SUBSET LayoutReports
  BY DEF Scans
<1>4. Append(scan.open, [token |-> token, at |-> at]) \in Seq(Opened)
  BY <1>2, <1>3
<1>5. scan.open # <<>> => Front(scan.open) \in Seq(Opened)
  BY <1>3 DEF Front
<1>6. /\ [scan EXCEPT !.reports = @ \cup {Report("nesting_limit_exceeded", at)}] \in Scans
      /\ [scan EXCEPT !.reports = @ \cup {Report("unmatched_closer", at)}] \in Scans
  BY <1>1, <1>3 DEF Scans
<1>7. [scan EXCEPT !.open = Append(@, [token |-> token, at |-> at])] \in Scans
  BY <1>4 DEF Scans
<1>8. scan.open # <<>> => [scan EXCEPT !.open = Front(@)] \in Scans
  BY <1>5 DEF Scans
<1> QED
  BY <1>6, <1>7, <1>8 DEF Delimiter

(* One token: what is reported, and the stack as long as nothing is.       *)
LEMMA DelimiterExact ==
  ASSUME NEW t \in Seq(Token), NEW n \in 1..Len(t), NEW scan \in Scans, NEW at \in Int,
         Stacked(t, n - 1, scan.open), Depth(t, n - 1) <= MAX_NESTING
  PROVE  LET new == Delimiter(scan, t[n], at)
         IN \/ Allowed(t, n) /\ new.reports = scan.reports /\ Stacked(t, n, new.open)
            \/ ~ Allowed(t, n) /\ new.reports # {}
<1> DEFINE new == Delimiter(scan, t[n], at)
           st  == scan.open
<1>0. MAX_NESTING \in Nat
  BY TextAssumption
<1>1. /\ st \in Seq(Opened) /\ Len(st) = Depth(t, n - 1) /\ Len(st) \in Nat
      /\ \A d \in 1..Len(st) : Raises(t, n - 1, st[d].token, d)
      /\ \A m \in 0..n-1 : Depth(t, m) >= 0
  BY DEF Stacked
<1>2. /\ Depth(t, n - 1) \in Int /\ Depth(t, n) \in Int
      /\ Depth(t, n) = Depth(t, n - 1) + Deeper(t[n]) /\ t[n] \in Token
  BY DepthSteps
<1>3. Openers \cap Closers = {}
  BY DEF Openers, Closers
<1>4. CASE t[n] \in Openers
  <2>1. Depth(t, n) = Len(st) + 1 /\ Matched(t, n)
    BY <1>1, <1>2, <1>3, <1>4 DEF Deeper, Matched
  <2>2. CASE Len(st) = MAX_NESTING
    <3>1. new = [scan EXCEPT !.reports = @ \cup {Report("nesting_limit_exceeded", at)}]
      BY <1>3, <1>4, <2>2 DEF Delimiter
    <3>2. new.reports # {}
      BY <3>1 DEF Scans
    <3>3. ~ Allowed(t, n)
      BY <1>0, <1>1, <2>1, <2>2 DEF Allowed
    <3> QED BY <3>2, <3>3
  <2>3. CASE Len(st) # MAX_NESTING
    <3> DEFINE top == [token |-> t[n], at |-> at]
    <3>1. new = [scan EXCEPT !.open = Append(@, top)]
      BY <1>3, <1>4, <2>3 DEF Delimiter
    <3>2. new.reports = scan.reports /\ new.open = Append(st, top)
      BY <3>1 DEF Scans
    <3>3. Allowed(t, n)
      BY <1>0, <1>1, <2>1, <2>3 DEF Allowed
    <3>4. top \in Opened /\ top.token = t[n]
      BY <1>2 DEF Opened
    <3> HIDE DEF top
    <3>5. Append(st, top) \in Seq(Opened) /\ Len(Append(st, top)) = Len(st) + 1
      BY <1>1, <3>4
    <3>6. ASSUME NEW d \in 1..Len(st) + 1 PROVE Raises(t, n, Append(st, top)[d].token, d)
      <4>1. CASE d \in 1..Len(st)
        <5>1. Append(st, top)[d] = st[d]
          BY <1>1, <4>1
        <5> QED BY <1>1, <1>2, <2>1, <4>1, <5>1, RaisesOn
      <4>2. CASE d = Len(st) + 1
        <5>1. Append(st, top)[d].token = t[n]
          BY <1>1, <3>4, <4>2
        <5>2. \A m \in n..n : Depth(t, m) >= d
          BY <1>1, <1>2, <2>1, <4>2
        <5>3. Depth(t, n - 1) = d - 1 /\ n \in 1..n
          BY <1>1, <4>2
        <5> QED BY <1>4, <5>1, <5>2, <5>3 DEF Raises
      <4> QED BY <1>1, <4>1, <4>2
    <3>7. \A m \in 0..n : Depth(t, m) >= 0
      BY <1>1, <2>1
    <3>8. Stacked(t, n, Append(st, top))
      BY <2>1, <3>5, <3>6, <3>7 DEF Stacked
    <3> QED BY <3>2, <3>3, <3>8
  <2> QED BY <2>2, <2>3
<1>5. CASE t[n] \in Closers
  <2>1. Depth(t, n) = Len(st) - 1
    BY <1>1, <1>2, <1>3, <1>5 DEF Deeper
  <2>2. Depth(t, n) <= MAX_NESTING
    BY <1>0, <1>1, <2>1
  <2>3. CASE st = <<>>
    <3>1. new = [scan EXCEPT !.reports = @ \cup {Report("unmatched_closer", at)}]
      BY <1>3, <1>5, <2>3 DEF Delimiter
    <3>2. new.reports # {}
      BY <3>1 DEF Scans
    <3>3. ~ Matched(t, n)
      <4>1. SUFFICES ASSUME NEW j \in 1..n-1, Opens(t, j, n) PROVE FALSE
        BY <1>5 DEF Matched
      <4>2. Depth(t, j - 1) = Depth(t, n) /\ j - 1 \in 0..n-1
        BY <4>1 DEF Opens
      <4> QED BY <1>1, <1>2, <2>1, <2>3, <4>2
    <3> QED BY <3>2, <3>3 DEF Allowed
  <2>4. CASE st # <<>> /\ Last(st).token # OpenerOf(t[n])
    <3>1. new = [scan EXCEPT !.reports = @ \cup {Report("unmatched_closer", at)}]
      BY <1>3, <1>5, <2>4 DEF Delimiter
    <3>2. new.reports # {}
      BY <3>1 DEF Scans
    <3>3. Len(st) \in 1..Len(st) /\ Raises(t, n - 1, Last(st).token, Len(st))
      BY <1>1, <2>4 DEF Last
    <3>4. ~ Matched(t, n)
      BY <1>5, <2>1, <2>4, <3>3, TopOpens
    <3> QED BY <3>2, <3>4 DEF Allowed
  <2>5. CASE st # <<>> /\ Last(st).token = OpenerOf(t[n])
    <3>1. new = [scan EXCEPT !.open = Front(@)]
      BY <1>3, <1>5, <2>5 DEF Delimiter
    <3>2. new.reports = scan.reports /\ new.open = Front(st)
      BY <3>1 DEF Scans
    <3>3. Len(st) \in 1..Len(st) /\ Raises(t, n - 1, Last(st).token, Len(st))
      BY <1>1, <2>5 DEF Last
    <3>4. Allowed(t, n)
      BY <1>5, <2>1, <2>2, <2>5, <3>3, TopOpens DEF Allowed
    <3>5. /\ Front(st) \in Seq(Opened) /\ Len(Front(st)) = Len(st) - 1
          /\ \A d \in 1..Len(st) - 1 : Front(st)[d] = st[d]
      BY <1>1, <3>3 DEF Front
    <3>6. ASSUME NEW d \in 1..Len(st) - 1 PROVE Raises(t, n, Front(st)[d].token, d)
      <4>1. d \in 1..Len(st) /\ Depth(t, n) >= d /\ Front(st)[d] = st[d]
        BY <1>1, <2>1, <3>5
      <4>2. Raises(t, n - 1, st[d].token, d)
        BY <1>1, <4>1
      <4>3. Raises(t, n, st[d].token, d)
        BY <4>1, <4>2, RaisesOn
      <4> QED BY <4>1, <4>3
    <3>7. \A m \in 0..n : Depth(t, m) >= 0
      BY <1>1, <2>1, <3>3
    <3>8. Stacked(t, n, Front(st))
      BY <2>1, <3>5, <3>6, <3>7 DEF Stacked
    <3> QED BY <3>2, <3>4, <3>8
  <2> QED BY <2>3, <2>4, <2>5
<1>6. CASE t[n] \notin Openers \cup Closers
  <2>1. Depth(t, n) = Len(st) /\ Matched(t, n)
    BY <1>1, <1>2, <1>6 DEF Deeper, Matched
  <2>2. new = scan
    BY <1>6 DEF Delimiter
  <2>3. Allowed(t, n)
    BY <1>1, <2>1 DEF Allowed
  <2>4. \A d \in 1..Len(st) : Raises(t, n, st[d].token, d)
    BY <1>1, <2>1, RaisesOn
  <2>5. \A m \in 0..n : Depth(t, m) >= 0
    BY <1>1, <2>1
  <2>6. Stacked(t, n, st)
    BY <1>1, <2>1, <2>4, <2>5 DEF Stacked
  <2> QED BY <2>2, <2>3, <2>6
<1> QED
  BY <1>4, <1>5, <1>6

-----------------------------------------------------------------------------
(***************************************************************************)
(* Lines and the tokens up to them.                                        *)
(***************************************************************************)

SeenLines(ls) == [i \in DOMAIN ls |-> Seen(ls[i].tokens)]

Sofar(ls, n) == FlattenSeq(SubSeq(SeenLines(ls), 1, n))

LEMMA MinMember ==
  ASSUME NEW S, S \subseteq Nat, S # {}
  PROVE  Min(S) \in S /\ \A k \in S : Min(S) <= k
BY LeastNumber DEF Min

LEMMA MaxMember ==
  ASSUME NEW n \in Nat, NEW S, S \subseteq 0..n, S # {}
  PROVE  Max(S) \in S /\ \A k \in S : k <= Max(S)
<1> DEFINE T == {m \in Nat : \A k \in S : k <= m}
<1>1. n \in T
  OBVIOUS
<1>2. PICK m \in T : \A j \in T : m <= j
  BY <1>1, LeastNumber
<1>3. m \in S
  <2>1. SUFFICES ASSUME m \notin S PROVE FALSE
    OBVIOUS
  <2>2. PICK x \in S : TRUE
    OBVIOUS
  <2>3. \A k \in S : k \in Nat /\ k <= m - 1
    BY <1>2, <2>1
  <2>4. m - 1 \in T
    BY <1>2, <2>2, <2>3
  <2> QED BY <1>2, <2>4
<1>4. \A k \in S : k \in Int /\ m >= k
  BY <1>2
<1>5. \E x \in S : \A k \in S : x >= k
  BY <1>3, <1>4
<1>6. Max(S) \in S /\ \A k \in S : Max(S) >= k
  BY <1>5 DEF Max
<1> QED
  BY <1>6

LEMMA QuoteIsToken == "quote" \in Token
BY DEF Token

LEMMA QuoteBehind ==
  ASSUME NEW s \in Seq(Token)
  PROVE  s \o <<"quote">> \in Seq(Token) /\ s \o <<"quote">> # <<>>
<1>1. "quote" \in Token
  BY QuoteIsToken
<1>2. \A x \in Token : <<x>> \in Seq(Token) /\ Len(<<x>>) = 1
  OBVIOUS
<1>3. ASSUME NEW u \in Seq(Token), Len(u) = 1 PROVE s \o u \in Seq(Token) /\ s \o u # <<>>
  <2>1. s \o u \in Seq(Token) /\ Len(s \o u) = Len(s) + Len(u) /\ Len(s) \in Nat
    OBVIOUS
  <2> QED BY <1>3, <2>1
<1> QED
  BY <1>1, <1>2, <1>3

LEMMA SeenTokens ==
  ASSUME NEW tokens \in Seq(Token)
  PROVE  Seen(tokens) \in Seq(Token) /\ (Seen(tokens) = <<>> <=> tokens = <<>>)
<1> DEFINE markers == {k \in DOMAIN tokens : tokens[k] = "marked"}
<1>1. CASE markers = {}
  BY <1>1 DEF Seen
<1>2. CASE markers # {}
  <2>1. Min(markers) \in 1..Len(tokens)
    <3>1. markers \subseteq Nat
      OBVIOUS
    <3>2. Min(markers) \in markers
      BY <1>2, <3>1, MinMember
    <3> QED BY <3>2
  <2>2. Seen(tokens) = SubSeq(tokens, 1, Min(markers) - 1) \o <<"quote">>
    BY <1>2 DEF Seen
  <2> HIDE DEF markers
  <2> DEFINE before == SubSeq(tokens, 1, Min(markers) - 1)
  <2>3. before \in Seq(Token)
    BY <2>1
  <2> HIDE DEF before
  <2>4. before \o <<"quote">> \in Seq(Token) /\ before \o <<"quote">> # <<>>
    BY <2>3, QuoteBehind
  <2>5. tokens # <<>> /\ Seen(tokens) = before \o <<"quote">>
    BY <2>1, <2>2 DEF before
  <2> QED BY <2>4, <2>5
<1> QED
  BY <1>1, <1>2

LEMMA LinesTyped ==
  ASSUME NEW ls \in Seq(SourceLine)
  PROVE  /\ Len(ls) \in Nat /\ DOMAIN ls = 1..Len(ls)
         /\ \A i \in DOMAIN ls : /\ ls[i].indent \in Nat /\ ls[i].tokens \in Seq(Token)
                                 /\ SeenLines(ls)[i] = Seen(ls[i].tokens)
                                 /\ Seen(ls[i].tokens) \in Seq(Token)
         /\ SeenLines(ls) \in Seq(Seq(Token)) /\ Len(SeenLines(ls)) = Len(ls)
         /\ DOMAIN SeenLines(ls) = 1..Len(ls)
<1>1. Len(ls) \in Nat /\ DOMAIN ls = 1..Len(ls)
  OBVIOUS
<1>2. ASSUME NEW i \in DOMAIN ls PROVE ls[i].indent \in Nat /\ ls[i].tokens \in Seq(Token)
  <2>1. ls[i] \in SourceLine
    OBVIOUS
  <2> QED BY <2>1 DEF SourceLine
<1>3. \A i \in DOMAIN ls : Seen(ls[i].tokens) \in Seq(Token)
  BY <1>2, SeenTokens
<1>4. SeenLines(ls) = [i \in 1..Len(ls) |-> Seen(ls[i].tokens)]
  BY <1>1 DEF SeenLines
<1>5. SeenLines(ls) \in [1..Len(ls) -> Seq(Token)]
  BY <1>1, <1>3, <1>4
<1>6. SeenLines(ls) \in Seq(Seq(Token)) /\ Len(SeenLines(ls)) = Len(ls)
  BY <1>1, <1>5
<1> QED
  BY <1>1, <1>2, <1>3, <1>4, <1>5, <1>6

LEMMA InToSet == ASSUME NEW T, NEW s \in Seq(T) PROVE s \in Seq(ToSet(s))
<1>1. s \in [1..Len(s) -> ToSet(s)]
  BY DEF ToSet
<1> QED
  BY <1>1

LEMMA FlattenNothing == FlattenSeq(<<>>) = <<>>
<1> DEFINE s == [i \in 1..0 |-> 0]
<1>1. s = <<>>
  OBVIOUS
<1>2. s = [i \in 1..0 |-> s[i]] /\ \A i \in 1..0 : s[i] \in Seq(ToSet(s[i]))
  OBVIOUS
<1> HIDE DEF s
<1>3. FlattenSeq(s) = <<>>
  BY <1>2, FlattenLast
<1> QED
  BY <1>1, <1>3

(* Flattening a sequence that is one longer.                               *)
LEMMA FlattenMore ==
  ASSUME NEW v \in Seq(Seq(Token)), NEW a \in 1..Len(v), NEW n \in a..Len(v)
  PROVE  /\ FlattenSeq(SubSeq(v, a, a - 1)) = <<>>
         /\ FlattenSeq(SubSeq(v, a, n)) = FlattenSeq(SubSeq(v, a, n - 1)) \o v[n]
<1>1. \A i \in 1..Len(v) : v[i] \in Seq(Token) /\ v[i] \in Seq(ToSet(v[i]))
  BY InToSet
<1> DEFINE s == SubSeq(v, a, n)
<1>2. /\ s \in Seq(Seq(Token)) /\ Len(s) = n - a + 1 /\ DOMAIN s = 1 .. n - a + 1
      /\ \A i \in 1 .. n - a + 1 : s[i] = v[a + i - 1] /\ a + i - 1 \in 1..Len(v)
  OBVIOUS
<1>3. s = [i \in 1 .. n - a + 1 |-> s[i]]
  BY <1>2
<1>4. [i \in 1 .. (n - a + 1) - 1 |-> s[i]] = SubSeq(v, a, n - 1)
  BY <1>2
<1>5. n - a + 1 \in Nat /\ n - a + 1 > 0 /\ s[n - a + 1] = v[n]
  BY <1>2
<1>6. \A i \in 1 .. n - a + 1 : s[i] \in Seq(ToSet(s[i]))
  BY <1>1, <1>2
<1> HIDE DEF s
<1>7. FlattenSeq(s) = FlattenSeq([i \in 1 .. (n - a + 1) - 1 |-> s[i]]) \o s[n - a + 1]
  BY <1>3, <1>5, <1>6, FlattenLast
<1>8. FlattenSeq(SubSeq(v, a, a - 1)) = <<>>
  <2>1. SubSeq(v, a, a - 1) = <<>>
    OBVIOUS
  <2> QED BY <2>1, FlattenNothing
<1> QED
  BY <1>4, <1>5, <1>7, <1>8 DEF s

LEMMA SofarSteps ==
  ASSUME NEW ls \in Seq(SourceLine)
  PROVE  /\ Sofar(ls, 0) = <<>>
         /\ \A n \in 1..Len(ls) : Sofar(ls, n) = Sofar(ls, n - 1) \o Seen(ls[n].tokens)
         /\ \A n \in 0..Len(ls) : Sofar(ls, n) \in Seq(Token)
         /\ Sofar(ls, Len(ls)) = FlattenSeq(SeenLines(ls))
<1> DEFINE v == SeenLines(ls)
<1>1. /\ Len(ls) \in Nat /\ v \in Seq(Seq(Token)) /\ Len(v) = Len(ls)
      /\ \A n \in 1..Len(ls) : v[n] = Seen(ls[n].tokens) /\ v[n] \in Seq(Token)
  BY LinesTyped
<1> HIDE DEF v
<1>2. FlattenSeq(SubSeq(v, 1, 0)) = <<>>
  <2>1. SubSeq(v, 1, 0) = <<>>
    BY <1>1
  <2> QED BY <2>1, FlattenNothing
<1>3. Sofar(ls, 0) = <<>>
  BY <1>2 DEF Sofar, v
<1>4. ASSUME NEW n \in 1..Len(ls) PROVE Sofar(ls, n) = Sofar(ls, n - 1) \o Seen(ls[n].tokens)
  <2>1. 1 \in 1..Len(v) /\ n \in 1..Len(v)
    BY <1>1
  <2>2. FlattenSeq(SubSeq(v, 1, n)) = FlattenSeq(SubSeq(v, 1, n - 1)) \o v[n]
    BY <1>1, <2>1, FlattenMore
  <2> QED BY <1>1, <2>2 DEF Sofar, v
<1>5. ASSUME NEW n \in 0..Len(ls) PROVE Sofar(ls, n) \in Seq(Token)
  <2> DEFINE G == {k \in 0..n : Sofar(ls, k) \in Seq(Token)}
  <2>3. n \in Nat
    BY <1>1
  <2>1. 0 \in G
    <3>1. Sofar(ls, 0) \in Seq(Token)
      <4>1. <<>> \in Seq(Token)
        OBVIOUS
      <4> QED BY <1>3, <4>1, Zenon
    <3>2. 0 \in 0..n
      BY <2>3
    <3> QED BY <3>1, <3>2
  <2>2. ASSUME NEW k \in 1..n, k - 1 \in G PROVE k \in G
    <3>1. k \in 1..Len(ls) /\ k \in 0..n
      BY <1>1, <2>3
    <3>2. Sofar(ls, k) = Sofar(ls, k - 1) \o Seen(ls[k].tokens) /\ Seen(ls[k].tokens) \in Seq(Token)
      BY <1>1, <1>4, <3>1
    <3>3. Sofar(ls, k - 1) \in Seq(Token)
      BY <2>2
    <3>4. Sofar(ls, k - 1) \o Seen(ls[k].tokens) \in Seq(Token)
      BY <3>2, <3>3
    <3> QED BY <3>1, <3>2, <3>4
  <2> HIDE DEF G
  <2>4. n \in G
    BY <2>1, <2>2, <2>3, Upto
  <2> QED BY <2>4 DEF G
<1>6. Sofar(ls, Len(ls)) = FlattenSeq(SeenLines(ls))
  <2>1. SubSeq(v, 1, Len(ls)) = v
    BY <1>1
  <2> QED BY <2>1 DEF Sofar, v
<1> QED
  BY <1>3, <1>4, <1>5, <1>6

LEMMA SofarPrefix ==
  ASSUME NEW ls \in Seq(SourceLine), NEW n \in 0..Len(ls)
  PROVE  \E rest \in Seq(Token) : FlattenSeq(SeenLines(ls)) = Sofar(ls, n) \o rest
<1>1. /\ Len(ls) \in Nat
      /\ \A k \in 1..Len(ls) : Seen(ls[k].tokens) \in Seq(Token)
  BY LinesTyped
<1>2. /\ \A k \in 1..Len(ls) : Sofar(ls, k) = Sofar(ls, k - 1) \o Seen(ls[k].tokens)
      /\ \A k \in 0..Len(ls) : Sofar(ls, k) \in Seq(Token)
      /\ Sofar(ls, Len(ls)) = FlattenSeq(SeenLines(ls))
  BY SofarSteps
<1> DEFINE G == {k \in 0..Len(ls)-n : \E rest \in Seq(Token) : Sofar(ls, n + k) = Sofar(ls, n) \o rest}
<1>3. 0 \in G
  <2>1. Sofar(ls, n) = Sofar(ls, n) \o <<>> /\ <<>> \in Seq(Token) /\ 0 \in 0..Len(ls)-n /\ n + 0 = n
    BY <1>1, <1>2
  <2> QED BY <2>1
<1>4. ASSUME NEW k \in 1..Len(ls)-n, k - 1 \in G PROVE k \in G
  <2>1. PICK rest \in Seq(Token) : Sofar(ls, n + (k - 1)) = Sofar(ls, n) \o rest
    BY <1>4
  <2>2. n + k \in 1..Len(ls) /\ (n + k) - 1 = n + (k - 1)
    BY <1>1
  <2> DEFINE more == Seen(ls[n + k].tokens)
  <2>3. more \in Seq(Token)
    BY <1>1, <2>2
  <2> HIDE DEF more
  <2>4. Sofar(ls, n + k) = Sofar(ls, n + (k - 1)) \o more
    BY <1>2, <2>2 DEF more
  <2>5. (Sofar(ls, n) \o rest) \o more = Sofar(ls, n) \o (rest \o more) /\ rest \o more \in Seq(Token)
    BY <1>2, <2>3
  <2>6. Sofar(ls, n + k) = Sofar(ls, n) \o (rest \o more)
    BY <2>1, <2>4, <2>5
  <2>7. k \in 0..Len(ls)-n
    BY <1>1
  <2> QED BY <2>5, <2>6, <2>7
<1>5. Len(ls) - n \in Nat
  BY <1>1
<1> HIDE DEF G
<1>6. Len(ls) - n \in G
  BY <1>3, <1>4, <1>5, Upto
<1>7. n + (Len(ls) - n) = Len(ls)
  BY <1>1
<1> QED
  BY <1>2, <1>6, <1>7 DEF G

LEMMA AllowedInPrefix ==
  ASSUME NEW t \in Seq(Token), NEW u \in Seq(Token), NEW k \in 1..Len(t)
  PROVE  Allowed(t \o u, k) <=> Allowed(t, k)
<1>1. \A m \in 0..Len(t) : Depth(t \o u, m) = Depth(t, m)
  BY DepthOfPrefix
<1>2. \A m \in 1..Len(t) : (t \o u)[m] = t[m]
  OBVIOUS
<1>3. ASSUME NEW j \in 1..k-1 PROVE Opens(t \o u, j, k) <=> Opens(t, j, k)
  <2>1. j \in 1..Len(t) /\ j - 1 \in 0..Len(t) /\ k \in 0..Len(t) /\ \A m \in j..k-1 : m \in 0..Len(t)
    OBVIOUS
  <2>2. /\ (t \o u)[j] = t[j] /\ (t \o u)[k] = t[k]
        /\ Depth(t \o u, j - 1) = Depth(t, j - 1) /\ Depth(t \o u, k) = Depth(t, k)
        /\ \A m \in j..k-1 : Depth(t \o u, m) = Depth(t, m)
    BY <1>1, <1>2, <2>1
  <2> QED BY <2>2 DEF Opens
<1>4. (t \o u)[k] = t[k] /\ Depth(t \o u, k) = Depth(t, k)
  BY <1>1, <1>2
<1> QED
  BY <1>3, <1>4 DEF Allowed, Matched

LEMMA StackedInPrefix ==
  ASSUME NEW t \in Seq(Token), NEW u \in Seq(Token), NEW st, Stacked(t, Len(t), st)
  PROVE  Stacked(t \o u, Len(t), st)
<1>1. \A m \in 0..Len(t) : Depth(t \o u, m) = Depth(t, m)
  BY DepthOfPrefix
<1>2. \A m \in 1..Len(t) : (t \o u)[m] = t[m]
  OBVIOUS
<1>3. /\ st \in Seq(Opened) /\ Len(st) = Depth(t, Len(t))
      /\ \A m \in 0..Len(t) : Depth(t, m) >= 0
      /\ \A d \in 1..Len(st) : Raises(t, Len(t), st[d].token, d)
  BY DEF Stacked
<1>4. ASSUME NEW d \in 1..Len(st) PROVE Raises(t \o u, Len(t), st[d].token, d)
  <2>1. PICK p \in 1..Len(t) : /\ t[p] = st[d].token /\ st[d].token \in Openers /\ Depth(t, p - 1) = d - 1
                                /\ \A m \in p..Len(t) : Depth(t, m) >= d
    BY <1>3 DEF Raises
  <2>2. p - 1 \in 0..Len(t) /\ \A m \in p..Len(t) : m \in 0..Len(t)
    OBVIOUS
  <2> QED BY <1>1, <1>2, <2>1, <2>2 DEF Raises
<1>5. Len(t) \in 0..Len(t)
  OBVIOUS
<1> QED
  BY <1>1, <1>3, <1>4, <1>5 DEF Stacked

(* A line is scanned one token after another.                              *)
LEMMA DelimitRuns ==
  ASSUME NEW i, NEW seen, seen = Seen(lines[i].tokens), seen \in Seq(Token)
  PROVE  \E f : /\ f[0] = [open |-> open, reports |-> {}]
                /\ \A k \in 1..Len(seen) : f[k] = Delimiter(f[k - 1], seen[k], Position(i, k))
                /\ Delimit(i) = f[Len(seen)]
<1> DEFINE First    == [open |-> open, reports |-> {}]
           IsScan(f) == f = [k \in 0..Len(seen) |-> IF k = 0 THEN First
                               ELSE Delimiter(f[k - 1], seen[k], Position(i, k))]
           scan == CHOOSE f : IsScan(f)
           G == {n \in 0..Len(seen) :
                   \E f : f = [k \in 0..n |-> IF k = 0 THEN First
                                ELSE Delimiter(f[k - 1], seen[k], Position(i, k))]}
<1>0. Len(seen) \in Nat
  OBVIOUS
<1>1. 0 \in G
  <2> DEFINE f == [k \in 0..0 |-> First]
  <2>1. f = [k \in 0..0 |-> IF k = 0 THEN First ELSE Delimiter(f[k - 1], seen[k], Position(i, k))]
    OBVIOUS
  <2>2. 0 \in 0..Len(seen)
    BY <1>0
  <2> QED BY <2>1, <2>2
<1>2. ASSUME NEW n \in 1..Len(seen), n - 1 \in G PROVE n \in G
  <2>1. PICK f : f = [k \in 0..n-1 |-> IF k = 0 THEN First ELSE Delimiter(f[k - 1], seen[k], Position(i, k))]
    BY <1>2
  <2> DEFINE h == [k \in 0..n |-> IF k < n THEN f[k] ELSE Delimiter(f[k - 1], seen[k], Position(i, k))]
  <2>2. \A k \in 0..n-1 : f[k] = IF k = 0 THEN First ELSE Delimiter(f[k - 1], seen[k], Position(i, k))
    BY <2>1
  <2>3. ASSUME NEW k \in 0..n
        PROVE  h[k] = IF k = 0 THEN First ELSE Delimiter(h[k - 1], seen[k], Position(i, k))
    <3>1. k > 0 => k - 1 \in 0..n /\ k - 1 < n /\ h[k - 1] = f[k - 1]
      BY <1>0
    <3>2. CASE k < n
      <4>1. k \in 0..n-1 /\ h[k] = f[k]
        BY <1>0, <3>2
      <4>2. f[k] = IF k = 0 THEN First ELSE Delimiter(f[k - 1], seen[k], Position(i, k))
        BY <2>2, <4>1
      <4> HIDE DEF h, First
      <4>3. CASE k = 0
        BY <4>1, <4>2, <4>3
      <4>4. CASE k > 0
        BY <3>1, <4>1, <4>2, <4>4
      <4> QED BY <1>0, <4>1, <4>3, <4>4
    <3>3. CASE k = n
      <4>1. k # 0 /\ h[k] = Delimiter(f[k - 1], seen[k], Position(i, k))
        BY <1>0, <3>3
      <4> HIDE DEF h, First
      <4> QED BY <1>0, <3>1, <4>1
    <3> QED BY <1>0, <3>2, <3>3
  <2>4. h = [k \in 0..n |-> IF k = 0 THEN First ELSE Delimiter(h[k - 1], seen[k], Position(i, k))]
    <3>1. h = [k \in 0..n |-> h[k]]
      OBVIOUS
    <3> HIDE DEF h
    <3> QED BY <2>3, <3>1
  <2>5. n \in 0..Len(seen)
    BY <1>0
  <2> QED BY <2>4, <2>5
<1> HIDE DEF G
<1>3. Len(seen) \in G
  BY <1>0, <1>1, <1>2, Upto
<1>4. IsScan(scan)
  BY <1>3 DEF G
<1>5. Delimit(i) = scan[Len(seen)]
  BY DEF Delimit
<1> HIDE DEF scan
<1>6. scan[0] = First /\ \A k \in 1..Len(seen) : scan[k] = Delimiter(scan[k - 1], seen[k], Position(i, k))
  <2>1. \A k \in 0..Len(seen) : scan[k] = IF k = 0 THEN First ELSE Delimiter(scan[k - 1], seen[k], Position(i, k))
    BY <1>4
  <2> HIDE DEF First
  <2>2. 0 \in 0..Len(seen) /\ \A k \in 1..Len(seen) : k \in 0..Len(seen) /\ k # 0
    BY <1>0
  <2> QED BY <2>1, <2>2
<1> QED
  BY <1>5, <1>6

(* A line is without reports exactly if all its tokens are allowed.        *)
LEMMA DelimitExact ==
  ASSUME lines \in Seq(SourceLine), NEW i \in DOMAIN lines, open \in Seq(Opened),
         NEW t, t = Sofar(lines, i - 1), NEW u, u = Sofar(lines, i),
         Stacked(t, Len(t), open) /\ Len(open) <= MAX_NESTING
  PROVE  /\ Delimit(i).open \in Seq(Opened) /\ Delimit(i).reports \in SUBSET LayoutReports
         /\ \/ /\ Delimit(i).reports = {} /\ Stacked(u, Len(u), Delimit(i).open)
               /\ Depth(u, Len(u)) <= MAX_NESTING
               /\ \A k \in Len(t)+1..Len(u) : Allowed(u, k)
            \/ Delimit(i).reports # {} /\ \E k \in 1..Len(u) : ~ Allowed(u, k)
<1> DEFINE seen == Seen(lines[i].tokens)
<1>0. MAX_NESTING \in Nat
  BY TextAssumption
<1>1. seen \in Seq(Token) /\ i \in 1..Len(lines) /\ Len(lines) \in Nat
  BY LinesTyped
<1>2. t \in Seq(Token) /\ u \in Seq(Token) /\ u = t \o seen
  <2>1. i - 1 \in 0..Len(lines) /\ i \in 0..Len(lines)
    BY <1>1
  <2> QED BY <1>1, <2>1, SofarSteps
<1> HIDE DEF seen
<1>3. /\ Len(t) \in Nat /\ Len(seen) \in Nat /\ Len(u) = Len(t) + Len(seen)
      /\ \A k \in 1..Len(seen) : u[Len(t) + k] = seen[k] /\ seen[k] \in Token
  BY <1>1, <1>2
<1>4. PICK f : /\ f[0] = [open |-> open, reports |-> {}]
               /\ \A k \in 1..Len(seen) : f[k] = Delimiter(f[k - 1], seen[k], Position(i, k))
               /\ Delimit(i) = f[Len(seen)]
  BY <1>1, DelimitRuns DEF seen
<1>5. \A k \in 1..Len(seen) : Position(i, k) \in Int
  BY <1>1 DEF Position, LineStart
<1>6. Stacked(u, Len(t), open) /\ Depth(u, Len(t)) <= MAX_NESTING
  <2>1. Stacked(u, Len(t), open)
    BY <1>1, <1>2, StackedInPrefix
  <2> QED BY <2>1 DEF Stacked
<1> DEFINE Good(k) == /\ f[k].reports = {} /\ Stacked(u, Len(t) + k, f[k].open)
                      /\ Depth(u, Len(t) + k) <= MAX_NESTING
                      /\ \A m \in 1..k : Allowed(u, Len(t) + m)
           Bad(k)  == f[k].reports # {} /\ \E m \in 1..k : ~ Allowed(u, Len(t) + m)
           G == {k \in 0..Len(seen) : f[k] \in Scans /\ (Good(k) \/ Bad(k))}
<1>7. 0 \in G
  <2>1. f[0] \in Scans /\ f[0].open = open /\ f[0].reports = {}
    BY <1>4 DEF Scans
  <2>2. Len(t) + 0 = Len(t) /\ 0 \in 0..Len(seen)
    BY <1>3
  <2>3. Good(0)
    BY <1>6, <2>1, <2>2
  <2> QED BY <2>1, <2>2, <2>3
<1>8. ASSUME NEW k \in 1..Len(seen), k - 1 \in G PROVE k \in G
  <2>1. /\ f[k - 1] \in Scans /\ f[k] = Delimiter(f[k - 1], seen[k], Position(i, k))
        /\ k - 1 \in 0..Len(seen) /\ k \in 0..Len(seen)
    BY <1>3, <1>4, <1>8
  <2>2. f[k] \in Scans
    BY <1>3, <1>5, <2>1, DelimiterScans
  <2>3. /\ Len(t) + k \in 1..Len(u) /\ (Len(t) + k) - 1 = Len(t) + (k - 1)
        /\ u[Len(t) + k] = seen[k] /\ k \in 1..k
        /\ \A m \in 1..k : m \in 1..k-1 \/ m = k
        /\ \A m \in 1..k-1 : m \in 1..k
    <3>1. Len(t) + k \in 1..Len(u) /\ (Len(t) + k) - 1 = Len(t) + (k - 1) /\ k \in 1..k
      BY <1>3
    <3>2. /\ \A m \in 1..k : m \in 1..k-1 \/ m = k
          /\ \A m \in 1..k-1 : m \in 1..k
      BY <1>3
    <3> QED BY <1>3, <3>1, <3>2
  <2>4. CASE Bad(k - 1)
    <3>1. \E m \in 1..k : ~ Allowed(u, Len(t) + m)
      BY <2>3, <2>4
    <3>2. \A scan \in Scans : \A token, at : scan.reports # {} => Delimiter(scan, token, at).reports # {}
      <4> SUFFICES ASSUME NEW scan \in Scans, NEW token, NEW at, scan.reports # {}
                   PROVE  Delimiter(scan, token, at).reports # {}
        OBVIOUS
      <4>1. /\ [scan EXCEPT !.reports = @ \cup {Report("nesting_limit_exceeded", at)}].reports # {}
            /\ [scan EXCEPT !.reports = @ \cup {Report("unmatched_closer", at)}].reports # {}
            /\ [scan EXCEPT !.open = Front(@)].reports # {}
            /\ [scan EXCEPT !.open = Append(@, [token |-> token, at |-> at])].reports # {}
        BY DEF Scans
      <4> QED BY <4>1 DEF Delimiter
    <3>3. f[k].reports # {}
      BY <2>1, <2>4, <3>2
    <3> QED BY <2>1, <2>2, <3>1, <3>3
  <2>5. CASE Good(k - 1)
    <3>1. /\ Stacked(u, (Len(t) + k) - 1, f[k - 1].open) /\ Depth(u, (Len(t) + k) - 1) <= MAX_NESTING
          /\ f[k - 1].reports = {}
      BY <2>3, <2>5
    <3>2. \/ /\ Allowed(u, Len(t) + k) /\ f[k].reports = f[k - 1].reports
             /\ Stacked(u, Len(t) + k, f[k].open)
          \/ ~ Allowed(u, Len(t) + k) /\ f[k].reports # {}
      <4> DEFINE n == Len(t) + k
                 old == f[k - 1]
                 at == Position(i, k)
      <4>1. /\ n \in 1..Len(u) /\ old \in Scans /\ at \in Int /\ u \in Seq(Token)
            /\ Stacked(u, n - 1, old.open) /\ Depth(u, n - 1) <= MAX_NESTING
            /\ f[k] = Delimiter(old, u[n], at)
        BY <1>2, <1>5, <2>1, <2>3, <3>1
      <4> HIDE DEF n, old, at
      <4>2. \/ /\ Allowed(u, n) /\ Delimiter(old, u[n], at).reports = old.reports
               /\ Stacked(u, n, Delimiter(old, u[n], at).open)
            \/ ~ Allowed(u, n) /\ Delimiter(old, u[n], at).reports # {}
        BY <4>1, DelimiterExact
      <4> QED BY <4>1, <4>2 DEF n, old
    <3>3. CASE Allowed(u, Len(t) + k)
      <4>1. \A m \in 1..k : Allowed(u, Len(t) + m)
        BY <2>3, <2>5, <3>3
      <4>2. Depth(u, Len(t) + k) <= MAX_NESTING
        BY <3>3 DEF Allowed
      <4>3. Good(k)
        BY <3>1, <3>2, <3>3, <4>1, <4>2
      <4> QED BY <2>1, <2>2, <4>3
    <3>4. CASE ~ Allowed(u, Len(t) + k)
      <4>1. Bad(k)
        BY <2>3, <3>2, <3>4
      <4> QED BY <2>1, <2>2, <4>1
    <3> QED BY <3>3, <3>4
  <2>6. Good(k - 1) \/ Bad(k - 1)
    BY <1>8
  <2> HIDE DEF Good, Bad
  <2> QED BY <2>4, <2>5, <2>6
<1> HIDE DEF G
<1>9. Len(seen) \in G
  BY <1>3, <1>7, <1>8, Upto
<1>10. /\ Delimit(i) \in Scans
       /\ Good(Len(seen)) \/ Bad(Len(seen))
  BY <1>4, <1>9 DEF G
<1>11. /\ Delimit(i).open \in Seq(Opened) /\ Delimit(i).reports \in SUBSET LayoutReports
  BY <1>10 DEF Scans
<1>12. /\ \A k \in Len(t)+1..Len(u) : k - Len(t) \in 1..Len(seen) /\ Len(t) + (k - Len(t)) = k
       /\ \A m \in 1..Len(seen) : Len(t) + m \in 1..Len(u)
  BY <1>3
<1>13. CASE Good(Len(seen))
  <2>1. \A k \in Len(t)+1..Len(u) : Allowed(u, k)
    BY <1>12, <1>13
  <2> QED BY <1>3, <1>4, <1>11, <1>13, <2>1
<1>14. CASE Bad(Len(seen))
  BY <1>4, <1>11, <1>12, <1>14
<1> QED
  BY <1>10, <1>13, <1>14

-----------------------------------------------------------------------------
(***************************************************************************)
(* Logical lines.                                                          *)
(***************************************************************************)

HeadsOf(ls) == {i \in DOMAIN ls : ls[i].tokens # <<>> /\ Nesting(Sofar(ls, i - 1)) = 0}

HeadsBefore(ls, i) == {j \in HeadsOf(ls) : j < i}

(* The last line up to n that is not blank ends in a colon.                *)
Colon(ls, n) == \E q \in 1..n : /\ ls[q].tokens # <<>> /\ Last(Seen(ls[q].tokens)) = ":"
                                /\ \A m \in q+1..n : ls[m].tokens = <<>>

(* A line before i has the level, and no line since is less deep.          *)
Encloses(ls, i, level) ==
  \E c \in HeadsBefore(ls, i) : /\ ls[c].indent = level
                                /\ \A j \in HeadsBefore(ls, i) : j > c => ls[j].indent >= level

(* A line stands where the lines before it allow one.                      *)
Placed(ls, i) ==
  IF HeadsBefore(ls, i) = {} THEN ls[i].indent = 0
  ELSE IF Colon(ls, i - 1) THEN ls[i].indent = ls[Max(HeadsBefore(ls, i))].indent + 4
  ELSE ls[i].indent <= ls[Max(HeadsBefore(ls, i))].indent /\ Encloses(ls, i, ls[i].indent)

LEMMA ColonSteps ==
  ASSUME NEW ls \in Seq(SourceLine)
  PROVE  /\ ~ Colon(ls, 0)
         /\ \A n \in 1..Len(ls) :
              /\ ls[n].tokens = <<>> => (Colon(ls, n) <=> Colon(ls, n - 1))
              /\ ls[n].tokens # <<>> => (Colon(ls, n) <=> Last(Seen(ls[n].tokens)) = ":")
<1>1. ~ Colon(ls, 0)
  BY DEF Colon
<1>2. ASSUME NEW n \in 1..Len(ls), ls[n].tokens = <<>> PROVE Colon(ls, n) <=> Colon(ls, n - 1)
  <2>1. ASSUME NEW q \in 1..n-1 PROVE \A m \in q+1..n : m \in q+1..n-1 \/ m = n
    OBVIOUS
  <2>2. ASSUME NEW q \in 1..n, ls[q].tokens # <<>> PROVE q \in 1..n-1
    BY <1>2, <2>2
  <2>3. ASSUME NEW q \in 1..n-1 PROVE q \in 1..n /\ \A m \in q+1..n-1 : m \in q+1..n
    OBVIOUS
  <2> QED BY <1>2, <2>1, <2>2, <2>3 DEF Colon
<1>3. ASSUME NEW n \in 1..Len(ls), ls[n].tokens # <<>>
      PROVE  Colon(ls, n) <=> Last(Seen(ls[n].tokens)) = ":"
  <2>1. n \in 1..n /\ \A m \in n+1..n : FALSE
    OBVIOUS
  <2>2. ASSUME NEW q \in 1..n, q # n PROVE n \in q+1..n
    BY <2>2
  <2> QED BY <1>3, <2>1, <2>2 DEF Colon
<1> QED
  BY <1>1, <1>2, <1>3

(* The text of lines from one that is not blank, by its end.               *)
LEMMA TextGrows ==
  ASSUME NEW ls \in Seq(SourceLine), NEW h \in DOMAIN ls, ls[h].tokens # <<>>, NEW e \in h..Len(ls),
         NEW F, F[h - 1] = <<>>, \A n \in h..Len(ls) : F[n] = F[n - 1] \o Seen(ls[n].tokens)
  PROVE  F[e] \in Seq(Token) /\ F[e] # <<>> /\ (Last(F[e]) = ":" <=> Colon(ls, e))
<1>1. /\ Len(ls) \in Nat /\ h \in 1..Len(ls)
      /\ \A n \in 1..Len(ls) : Seen(ls[n].tokens) \in Seq(Token) /\ ls[n].tokens \in Seq(Token)
  BY LinesTyped
<1> DEFINE P(n) == F[n] \in Seq(Token) /\ F[n] # <<>> /\ (Last(F[n]) = ":" <=> Colon(ls, n))
           G == {k \in 0..Len(ls)-h : P(h + k)}
<1>4. ASSUME NEW n \in h..Len(ls), NEW before, before = F[n - 1], before \in Seq(Token),
             ls[n].tokens = <<>> => P(n - 1)
      PROVE  P(n)
  <2> DEFINE more == Seen(ls[n].tokens)
  <2>0. n \in 1..Len(ls)
    BY <1>1
  <2>1. F[n] = before \o more /\ n \in 1..Len(ls) /\ more \in Seq(Token)
    BY <1>1, <1>4, <2>0
  <2>2. more = <<>> <=> ls[n].tokens = <<>>
    BY <1>1, <2>1, SeenTokens
  <2> HIDE DEF more
  <2>3. CASE ls[n].tokens = <<>>
    <3>1. before \o <<>> = before
      BY <1>4
    <3>2. F[n] = F[n - 1]
      BY <1>4, <2>1, <2>2, <2>3, <3>1
    <3>3. Colon(ls, n) <=> Colon(ls, n - 1)
      BY <2>1, <2>3, ColonSteps
    <3> QED BY <1>4, <2>3, <3>2, <3>3
  <2>4. CASE ls[n].tokens # <<>>
    <3>1. more # <<>> /\ Len(more) \in Nat /\ Len(more) > 0 /\ Len(before) \in Nat
      BY <1>4, <2>1, <2>2, <2>4
    <3>2. /\ before \o more \in Seq(Token) /\ before \o more # <<>>
          /\ Last(before \o more) = Last(more)
      <4>1. before \o more \in Seq(Token) /\ Len(before \o more) = Len(before) + Len(more)
        BY <1>4, <2>1
      <4>2. (before \o more)[Len(before) + Len(more)] = more[Len(more)]
        BY <1>4, <2>1, <3>1
      <4> QED BY <3>1, <4>1, <4>2 DEF Last
    <3>3. Colon(ls, n) <=> Last(more) = ":"
      BY <2>1, <2>4, ColonSteps DEF more
    <3> QED BY <2>1, <3>2, <3>3
  <2> QED BY <2>3, <2>4
<1>5. 0 \in G
  <2>1. h \in h..Len(ls) /\ 0 \in 0..Len(ls)-h /\ h + 0 = h
    BY <1>1
  <2>2. <<>> \in Seq(Token)
    OBVIOUS
  <2>3. P(h)
    BY <1>4, <2>1, <2>2
  <2> HIDE DEF P
  <2> QED BY <2>1, <2>3
<1>6. ASSUME NEW k \in 1..Len(ls)-h, k - 1 \in G PROVE k \in G
  <2>1. h + k \in h..Len(ls) /\ (h + k) - 1 = h + (k - 1) /\ k \in 0..Len(ls)-h
    BY <1>1
  <2>2. P((h + k) - 1)
    BY <1>6, <2>1
  <2>3. P(h + k)
    BY <1>4, <2>1, <2>2
  <2> HIDE DEF P
  <2> QED BY <2>1, <2>3
<1> HIDE DEF G
<1>7. e - h \in 0..Len(ls)-h /\ Len(ls) - h \in Nat /\ h + (e - h) = e /\ e - h \in Nat
  BY <1>1
<1>8. e - h \in G
  <2>1. \A k \in 1..e-h : k \in 1..Len(ls)-h
    BY <1>1
  <2> QED BY <1>5, <1>6, <1>7, <2>1, Upto
<1>9. P(e)
  BY <1>7, <1>8 DEF G
<1> QED
  BY <1>9

LEMMA TextEnds ==
  ASSUME NEW ls \in Seq(SourceLine), NEW h \in DOMAIN ls, ls[h].tokens # <<>>, NEW e \in h..Len(ls)
  PROVE  Last(FlattenSeq(SubSeq(SeenLines(ls), h, e))) = ":" <=> Colon(ls, e)
<1> DEFINE v == SeenLines(ls)
           F == [n \in 0..Len(ls) |-> FlattenSeq(SubSeq(v, h, n))]
<1>1. /\ Len(ls) \in Nat /\ v \in Seq(Seq(Token)) /\ Len(v) = Len(ls) /\ h \in 1..Len(ls)
      /\ \A n \in 1..Len(ls) : v[n] = Seen(ls[n].tokens)
  BY LinesTyped
<1> HIDE DEF v
<1>2. F[h - 1] = <<>>
  <2>1. h - 1 \in 0..Len(ls) /\ h \in 1..Len(v) /\ h \in h..Len(v)
    BY <1>1
  <2>2. FlattenSeq(SubSeq(v, h, h - 1)) = <<>>
    BY <1>1, <2>1, FlattenMore
  <2> QED BY <2>1, <2>2
<1>3. ASSUME NEW n \in h..Len(ls) PROVE F[n] = F[n - 1] \o Seen(ls[n].tokens)
  <2>1. n \in h..Len(v) /\ n \in 1..Len(ls) /\ n \in 0..Len(ls) /\ n - 1 \in 0..Len(ls) /\ h \in 1..Len(v)
    BY <1>1
  <2>2. FlattenSeq(SubSeq(v, h, n)) = FlattenSeq(SubSeq(v, h, n - 1)) \o v[n]
    BY <1>1, <2>1, FlattenMore
  <2> QED BY <1>1, <2>1, <2>2
<1>4. e \in 0..Len(ls) /\ F[e] = FlattenSeq(SubSeq(v, h, e))
  BY <1>1
<1> HIDE DEF F
<1>5. Last(F[e]) = ":" <=> Colon(ls, e)
  BY <1>2, <1>3, TextGrows
<1> QED
  BY <1>4, <1>5 DEF v

(* Without a logical line there are only blank ones.                       *)
LEMMA FirstHead ==
  ASSUME NEW ls \in Seq(SourceLine), NEW n \in 0..Len(ls), \A i \in 1..n : i \notin HeadsOf(ls)
  PROVE  ~ Colon(ls, n)
<1>1. /\ Len(ls) \in Nat /\ DOMAIN ls = 1..Len(ls)
      /\ \A k \in 1..Len(ls) : ls[k].tokens \in Seq(Token) /\ Seen(ls[k].tokens) \in Seq(Token)
  BY LinesTyped
<1> DEFINE G == {k \in 0..n : Sofar(ls, k) = <<>> /\ ~ Colon(ls, k)}
<1>2. 0 \in G
  <2>1. 0 \in 0..n
    BY <1>1
  <2> QED BY <2>1, SofarSteps, ColonSteps
<1>3. ASSUME NEW k \in 1..n, k - 1 \in G PROVE k \in G
  <2>1. k \in 1..Len(ls) /\ k \in 0..n
    BY <1>1
  <2>2. ls[k].tokens = <<>>
    <3>1. Nesting(Sofar(ls, k - 1)) = 0
      BY <1>3, NestingOne
    <3> QED BY <1>1, <2>1, <3>1 DEF HeadsOf
  <2>3. Seen(ls[k].tokens) = <<>>
    BY <1>1, <2>1, <2>2, SeenTokens
  <2>4. Sofar(ls, k) = <<>>
    <3>1. Sofar(ls, k) = Sofar(ls, k - 1) \o Seen(ls[k].tokens)
      BY <2>1, SofarSteps
    <3>2. <<>> \o <<>> = <<>>
      OBVIOUS
    <3> QED BY <1>3, <2>3, <3>1, <3>2
  <2>5. ~ Colon(ls, k)
    BY <1>3, <2>1, <2>2, ColonSteps
  <2> QED BY <2>1, <2>4, <2>5
<1>4. n \in Nat
  BY <1>1
<1> HIDE DEF G
<1>5. n \in G
  BY <1>2, <1>3, <1>4, Upto
<1> QED
  BY <1>5 DEF G

LEMMA HeadsTyped ==
  ASSUME NEW ls \in Seq(SourceLine), NEW i \in Nat
  PROVE  /\ HeadsOf(ls) \subseteq 1..Len(ls) /\ HeadsBefore(ls, i) \subseteq HeadsOf(ls)
         /\ \A j \in HeadsBefore(ls, i) : j < i /\ j \in 1..Len(ls) /\ ls[j].indent \in Nat
         /\ HeadsBefore(ls, i) # {} => /\ Max(HeadsBefore(ls, i)) \in HeadsBefore(ls, i)
                                       /\ \A j \in HeadsBefore(ls, i) : j <= Max(HeadsBefore(ls, i))
<1>1. /\ Len(ls) \in Nat /\ DOMAIN ls = 1..Len(ls) /\ \A j \in 1..Len(ls) : ls[j].indent \in Nat
  BY LinesTyped
<1>2. HeadsOf(ls) \subseteq 1..Len(ls) /\ HeadsBefore(ls, i) \subseteq HeadsOf(ls)
  BY <1>1 DEF HeadsOf, HeadsBefore
<1>3. \A j \in HeadsBefore(ls, i) : j < i /\ j \in 1..Len(ls) /\ ls[j].indent \in Nat
  BY <1>1, <1>2 DEF HeadsBefore
<1>4. HeadsBefore(ls, i) \subseteq 0..Len(ls)
  BY <1>1, <1>3
<1> QED
  BY <1>1, <1>2, <1>3, <1>4, MaxMember

-----------------------------------------------------------------------------
(***************************************************************************)
(* The language's layout, put as the scan meets it.                        *)
(***************************************************************************)

(* What the scan finds out, without its stacks.                            *)
Regular(ls) ==
  LET all == FlattenSeq(SeenLines(ls))
  IN /\ \A k \in 1..Len(all) : Allowed(all, k)
     /\ Nesting(all) = 0
     /\ \A i \in HeadsOf(ls) : Placed(ls, i)
     /\ ~ Colon(ls, Len(ls))

LEMMA HeadsScanned ==
  ASSUME lines \in Seq(SourceLine)
  PROVE  Scanned = SeenLines(lines) /\ Heads(Scanned) = HeadsOf(lines)
BY DEF Scanned, SeenLines, Heads, HeadsOf, IsBlank, Sofar

(* A logical line goes on to the next one.                                 *)
LEMMA FollowingEnds ==
  ASSUME lines \in Seq(SourceLine), NEW j \in HeadsOf(lines), NEW stop \in Nat,
         \/ stop \in HeadsOf(lines) /\ stop > j
         \/ stop = Len(lines) + 1,
         \A k \in HeadsOf(lines) : k <= j \/ k >= stop
  PROVE  Announces(Scanned, j) <=> Colon(lines, stop - 1)
<1> DEFINE S == {k \in HeadsOf(lines) : k > j} \cup {Len(lines) + 1}
<1>1. /\ Len(lines) \in Nat /\ DOMAIN lines = 1..Len(lines) /\ HeadsOf(lines) \subseteq 1..Len(lines)
      /\ lines[j].tokens # <<>>
  BY LinesTyped, HeadsTyped DEF HeadsOf
<1>2. S \subseteq Nat /\ stop \in S /\ \A k \in S : k >= stop
  BY <1>1
<1>3. Min(S) = stop
  <2>1. Min(S) \in S /\ \A k \in S : Min(S) <= k
    BY <1>2, MinMember
  <2> HIDE DEF S
  <2>2. Min(S) \in Nat /\ Min(S) <= stop /\ Min(S) >= stop
    BY <1>2, <2>1
  <2> QED BY <2>2
<1>4. Following(Scanned, j) = stop
  BY <1>3, HeadsScanned DEF Following
<1>5. stop - 1 \in j..Len(lines) /\ j \in DOMAIN lines
  BY <1>1
<1>6. Last(FlattenSeq(SubSeq(SeenLines(lines), j, stop - 1))) = ":" <=> Colon(lines, stop - 1)
  BY <1>1, <1>5, TextEnds
<1> QED
  BY <1>4, <1>6, HeadsScanned DEF Announces, Entire

(* That is the layout of the language.                                     *)
LEMMA RegularExact ==
  ASSUME lines \in Seq(SourceLine)
  PROVE  Regular(lines) <=> Delimited(Scanned) /\ LaidOut(Scanned)
<1> DEFINE all == FlattenSeq(SeenLines(lines))
           H == HeadsOf(lines)
<1>1. /\ Len(lines) \in Nat /\ DOMAIN lines = 1..Len(lines) /\ all \in Seq(Token)
  BY LinesTyped, SofarSteps
<1>2. Delimited(Scanned) <=> (\A k \in 1..Len(all) : Allowed(all, k)) /\ Nesting(all) = 0
  <2>1. Scanned = SeenLines(lines) /\ DOMAIN all = 1..Len(all)
    BY <1>1, HeadsScanned
  <2> QED BY <2>1 DEF Delimited, Allowed
<1>3. H \subseteq 1..Len(lines) /\ H \subseteq Nat /\ H \subseteq 0..Len(lines)
  BY <1>1, HeadsTyped
<1>4. H # {} => /\ Min(H) \in H /\ \A k \in H : Min(H) <= k
                /\ Max(H) \in H /\ \A k \in H : k <= Max(H)
  BY <1>1, <1>3, MinMember, MaxMember
<1>5. \A i \in H : {j \in H : j < i} = HeadsBefore(lines, i)
  BY DEF HeadsBefore
<1>6. \A i \in H : i = Min(H) <=> HeadsBefore(lines, i) = {}
  BY <1>3, <1>4 DEF HeadsBefore
<1>7. ASSUME NEW i \in H, HeadsBefore(lines, i) # {}
      PROVE  Announces(Scanned, Max(HeadsBefore(lines, i))) <=> Colon(lines, i - 1)
  <2> DEFINE j == Max(HeadsBefore(lines, i))
  <2>1. i \in Nat
    BY <1>3
  <2>2. j \in HeadsBefore(lines, i) /\ \A k \in HeadsBefore(lines, i) : k <= j
    BY <1>7, <2>1, HeadsTyped
  <2> HIDE DEF j
  <2>3. j \in H /\ i > j /\ \A k \in H : k <= j \/ k >= i
    BY <1>3, <2>1, <2>2 DEF HeadsBefore
  <2>4. Announces(Scanned, j) <=> Colon(lines, i - 1)
    BY <2>1, <2>3, FollowingEnds
  <2> QED BY <2>4 DEF j
<1>8. ASSUME H # {} PROVE Announces(Scanned, Max(H)) <=> Colon(lines, Len(lines))
  <2> DEFINE j == Max(H)
             e == Len(lines) + 1
  <2>1. j \in H /\ e \in Nat /\ \A k \in H : k <= j \/ k >= e
    BY <1>1, <1>4, <1>8
  <2>2. e - 1 = Len(lines)
    BY <1>1
  <2> HIDE DEF j
  <2>3. Announces(Scanned, j) <=> Colon(lines, e - 1)
    BY <2>1, FollowingEnds
  <2> QED BY <2>2, <2>3 DEF j
<1>9. ASSUME H = {} PROVE ~ Colon(lines, Len(lines))
  <2>1. Len(lines) \in 0..Len(lines)
    BY <1>1
  <2> QED BY <1>9, <2>1, FirstHead
<1>10. ASSUME NEW i \in H
       PROVE  Placed(lines, i) <=>
                LET before == {j \in H : j < i}
                IN /\ i = Min(H) => lines[i].indent = 0
                   /\ before # {} =>
                        IF Announces(Scanned, Max(before)) THEN lines[i].indent = lines[Max(before)].indent + 4
                        ELSE /\ lines[i].indent <= lines[Max(before)].indent
                             /\ \E c \in before : /\ lines[c].indent = lines[i].indent
                                                  /\ \A j \in before : j > c => lines[j].indent >= lines[i].indent
  BY <1>5, <1>6, <1>7, <1>10 DEF Placed, Encloses
<1>11. LaidOut(Scanned) <=> /\ \A i \in H : Placed(lines, i)
                            /\ H # {} => ~ Announces(Scanned, Max(H))
  <2>1. Heads(Scanned) = H
    BY HeadsScanned
  <2> HIDE DEF H
  <2> QED BY <1>4, <1>10, <2>1 DEF LaidOut
<1> HIDE DEF all
<1> QED
  BY <1>2, <1>8, <1>9, <1>11 DEF Regular, all

-----------------------------------------------------------------------------
(***************************************************************************)
(* The elements of the scan and the stack of levels.                       *)
(***************************************************************************)

Elements == [kind : {"Indent", "UnexpectedIndentBlock", "Missing", "Dedent", "Closer"}, line : Nat]

Marks(lay, kinds, i) == Cardinality({k \in DOMAIN lay : lay[k].kind \in kinds /\ lay[k].line <= i})

LEMMA MarksAppend ==
  ASSUME NEW a \in Seq(Elements), NEW b \in Seq(Elements), NEW kinds, NEW i \in Nat
  PROVE  /\ Marks(a, kinds, i) \in Nat
         /\ Marks(a \o b, kinds, i) = Marks(a, kinds, i) + Marks(b, kinds, i)
         /\ (\A k \in 1..Len(b) : b[k].kind \notin kinds \/ b[k].line > i) => Marks(b, kinds, i) = 0
         /\ (\A k \in 1..Len(b) : b[k].kind \in kinds /\ b[k].line <= i) => Marks(b, kinds, i) = Len(b)
<1> DEFINE P == {x \in Elements : x.kind \in kinds /\ x.line <= i}
<1>1. ASSUME NEW s \in Seq(Elements)
      PROVE  Marks(s, kinds, i) = Cardinality(Hits(s, P)) /\ \A k \in DOMAIN s : s[k] \in Elements
  <2>1. \A k \in DOMAIN s : s[k] \in Elements
    OBVIOUS
  <2>2. Hits(s, P) = {k \in DOMAIN s : s[k].kind \in kinds /\ s[k].line <= i}
    BY <2>1 DEF Hits
  <2> QED BY <2>1, <2>2 DEF Marks
<1>2. a \o b \in Seq(Elements) /\ DOMAIN b = 1..Len(b)
  OBVIOUS
<1>3. ASSUME \A k \in 1..Len(b) : b[k].kind \notin kinds \/ b[k].line > i
      PROVE  \A k \in DOMAIN b : b[k] \notin P
  <2> SUFFICES ASSUME NEW k \in DOMAIN b, b[k] \in P PROVE FALSE
    OBVIOUS
  <2>1. b[k].line \in Nat /\ b[k].line <= i /\ b[k].kind \in kinds /\ k \in 1..Len(b)
    BY <1>2 DEF Elements
  <2> QED BY <1>3, <2>1
<1>4. ASSUME \A k \in 1..Len(b) : b[k].kind \in kinds /\ b[k].line <= i
      PROVE  \A k \in DOMAIN b : b[k] \in P
  BY <1>1, <1>2, <1>4
<1> HIDE DEF P
<1>5. Marks(a, kinds, i) \in Nat
  BY <1>1, HitsCount
<1>6. Marks(a \o b, kinds, i) = Marks(a, kinds, i) + Marks(b, kinds, i)
  <2>1. Cardinality(Hits(a \o b, P)) = Cardinality(Hits(a, P)) + Cardinality(Hits(b, P))
    BY HitsAppend
  <2> QED BY <1>1, <1>2, <2>1
<1>7. /\ (\A k \in DOMAIN b : b[k] \notin P) => Marks(b, kinds, i) = 0
      /\ (\A k \in DOMAIN b : b[k] \in P) => Marks(b, kinds, i) = Len(b)
  BY <1>1, HitsCount
<1> QED
  BY <1>3, <1>4, <1>5, <1>6, <1>7

(* Elements of one line; those of one kind; none that was not expected.    *)
AtLine(b, n)        == b \in Seq(Elements) /\ \A k \in 1..Len(b) : b[k].line = n
OneKind(b, kind, n) == b \in Seq(Elements) /\ \A k \in 1..Len(b) : b[k] = Element(kind, n)
Expected(b)         == \A k \in 1..Len(b) : b[k].kind # "UnexpectedIndentBlock"

LEMMA MarksOf ==
  ASSUME NEW b, NEW kind, NEW n \in Nat, OneKind(b, kind, n), NEW i \in Nat, n <= i, NEW kinds
  PROVE  /\ kind \in kinds => Marks(b, kinds, i) = Len(b)
         /\ kind \notin kinds => Marks(b, kinds, i) = 0
<1>1. b \in Seq(Elements) /\ \A k \in 1..Len(b) : b[k].kind = kind /\ b[k].line = n
  BY DEF Element, OneKind
<1>2. CASE kind \in kinds
  <2>1. \A k \in 1..Len(b) : b[k].kind \in kinds /\ b[k].line <= i
    BY <1>1, <1>2
  <2> QED BY <1>1, <1>2, <2>1, MarksAppend
<1>3. CASE kind \notin kinds
  <2>1. \A k \in 1..Len(b) : b[k].kind \notin kinds \/ b[k].line > i
    BY <1>1, <1>3
  <2> QED BY <1>1, <1>3, <2>1, MarksAppend
<1> QED
  BY <1>2, <1>3

LEMMA OneKindIs ==
  ASSUME NEW b, NEW kind, NEW n \in Nat, OneKind(b, kind, n)
  PROVE  /\ AtLine(b, n) /\ b \in Seq(Elements) /\ Len(b) \in Nat
         /\ kind # "UnexpectedIndentBlock" => Expected(b)
BY DEF OneKind, AtLine, Expected, Element

LEMMA OneKindOf ==
  ASSUME NEW kind \in {"Indent", "UnexpectedIndentBlock", "Missing", "Dedent", "Closer"}, NEW n \in Nat
  PROVE  OneKind(<<>>, kind, n) /\ OneKind(<<Element(kind, n)>>, kind, n)
<1>1. Element(kind, n) \in Elements
  BY DEF Element, Elements
<1> QED
  BY <1>1 DEF OneKind

LEMMA Repeated ==
  ASSUME NEW kind \in {"Indent", "UnexpectedIndentBlock", "Missing", "Dedent", "Closer"}, NEW n \in Nat,
         NEW d \in Nat, NEW s, s = [k \in 1..d |-> Element(kind, n)]
  PROVE  OneKind(s, kind, n) /\ Len(s) = d
<1> DEFINE x == Element(kind, n)
<1>1. x \in Elements
  BY DEF Element, Elements
<1> HIDE DEF x
<1>2. s = [k \in 1..d |-> x]
  BY DEF x
<1>3. s \in Seq(Elements) /\ Len(s) = d /\ \A k \in 1..d : s[k] = x
  BY <1>1, <1>2
<1> QED
  BY <1>3 DEF x, OneKind

LEMMA Joined ==
  ASSUME NEW p \in Seq(Elements), NEW q \in Seq(Elements)
  PROVE  /\ p \o q \in Seq(Elements) /\ Len(p \o q) = Len(p) + Len(q)
         /\ \A n : AtLine(p, n) /\ AtLine(q, n) => AtLine(p \o q, n)
         /\ Expected(p) /\ Expected(q) => Expected(p \o q)
<1>1. /\ p \o q \in Seq(Elements) /\ Len(p) \in Nat /\ Len(q) \in Nat /\ Len(p \o q) = Len(p) + Len(q)
  OBVIOUS
<1>2. ASSUME NEW k \in 1..Len(p \o q)
      PROVE  \/ k \in 1..Len(p) /\ (p \o q)[k] = p[k]
             \/ k - Len(p) \in 1..Len(q) /\ (p \o q)[k] = q[k - Len(p)]
  <2>1. CASE k \in 1..Len(p)
    BY <1>1, <2>1
  <2>2. CASE k \notin 1..Len(p)
    <3>1. k - Len(p) \in 1..Len(q) /\ (p \o q)[k] = q[k - Len(p)]
      BY <1>1, <2>2
    <3> QED BY <3>1
  <2> QED BY <2>1, <2>2
<1>3. ASSUME NEW n, AtLine(p, n), AtLine(q, n) PROVE AtLine(p \o q, n)
  BY <1>1, <1>2, <1>3 DEF AtLine
<1>4. ASSUME Expected(p), Expected(q) PROVE Expected(p \o q)
  BY <1>2, <1>4 DEF Expected
<1> QED
  BY <1>1, <1>3, <1>4

(* Each level that is begun is on the stack or ended.                      *)
Begun == {"Indent", "UnexpectedIndentBlock"}

Balanced(lay, ind, n) ==
  /\ lay \in Seq(Elements) /\ \A k \in 1..Len(lay) : lay[k].line < n
  /\ \A j \in Nat : j >= n - 1 => Marks(lay, Begun, j) = Marks(lay, {"Dedent"}, j) + Len(ind) - 1

Rising(ind) ==
  /\ ind \in Seq(Nat) /\ Len(ind) >= 1 /\ ind[1] = 0
  /\ \A j, k \in 1..Len(ind) : j < k => ind[j] < ind[k]

LEMMA StandingIs ==
  ASSUME Rising(indents), NEW level \in Nat
  PROVE  \E m \in 1..Len(indents) :
           /\ Standing(level) \in Seq(Nat) /\ Len(Standing(level)) = m
           /\ \A k \in 1..m : Standing(level)[k] = indents[k]
           /\ indents[m] <= level /\ Last(Standing(level)) = indents[m]
           /\ \A k \in 1..Len(indents) : indents[k] <= level => k <= m
<1> DEFINE S == {k \in DOMAIN indents : indents[k] <= level}
<1>1. indents \in Seq(Nat) /\ Len(indents) \in Nat /\ DOMAIN indents = 1..Len(indents)
  BY DEF Rising
<1>2. S \subseteq 0..Len(indents) /\ 1 \in S
  BY <1>1 DEF Rising
<1>3. Max(S) \in S /\ \A k \in S : k <= Max(S)
  BY <1>1, <1>2, MaxMember
<1>4. PICK m \in 1..Len(indents) : m = Max(S) /\ indents[m] <= level
  BY <1>1, <1>3
<1>5. Standing(level) = SubSeq(indents, 1, m)
  BY <1>4 DEF Standing
<1>6. /\ SubSeq(indents, 1, m) \in Seq(Nat) /\ Len(SubSeq(indents, 1, m)) = m
      /\ \A k \in 1..m : SubSeq(indents, 1, m)[k] = indents[k]
  BY <1>1
<1>7. m \in 1..m
  OBVIOUS
<1>8. \A k \in 1..Len(indents) : indents[k] <= level => k <= m
  BY <1>1, <1>3, <1>4
<1> QED
  BY <1>4, <1>5, <1>6, <1>7, <1>8 DEF Last

-----------------------------------------------------------------------------
(***************************************************************************)
(* The stack of levels when nothing was reported: every four spaces, down  *)
(* to the level of the last logical line, and all of them enclose what     *)
(* comes next.                                                             *)
(***************************************************************************)

Fourfold(ind) == \A k \in 1..Len(ind) : ind[k] = 4 * (k - 1)

Nested(ls, n, ind) ==
  /\ Fourfold(ind)
  /\ HeadsBefore(ls, n) = {} => Len(ind) = 1
  /\ HeadsBefore(ls, n) # {} => /\ Last(ind) = ls[Max(HeadsBefore(ls, n))].indent
                                /\ \A k \in 1..Len(ind) : Encloses(ls, n, ind[k])

LEMMA HeadsNext ==
  ASSUME NEW ls \in Seq(SourceLine), NEW n \in 1..Len(ls)
  PROVE  /\ n \notin HeadsOf(ls) => HeadsBefore(ls, n + 1) = HeadsBefore(ls, n)
         /\ n \in HeadsOf(ls) => /\ HeadsBefore(ls, n + 1) = HeadsBefore(ls, n) \cup {n}
                                 /\ Max(HeadsBefore(ls, n + 1)) = n
<1>1. HeadsOf(ls) \subseteq 1..Len(ls) /\ Len(ls) \in Nat
  BY HeadsTyped
<1>2. n \notin HeadsOf(ls) => HeadsBefore(ls, n + 1) = HeadsBefore(ls, n)
  BY <1>1 DEF HeadsBefore
<1>3. ASSUME n \in HeadsOf(ls)
      PROVE  /\ HeadsBefore(ls, n + 1) = HeadsBefore(ls, n) \cup {n}
             /\ Max(HeadsBefore(ls, n + 1)) = n
  <2>1. HeadsBefore(ls, n + 1) = HeadsBefore(ls, n) \cup {n}
    BY <1>1, <1>3 DEF HeadsBefore
  <2>2. n + 1 \in Nat /\ HeadsBefore(ls, n + 1) # {} /\ n \in HeadsBefore(ls, n + 1)
    BY <1>1, <2>1
  <2>3. /\ Max(HeadsBefore(ls, n + 1)) \in HeadsBefore(ls, n + 1)
        /\ \A j \in HeadsBefore(ls, n + 1) : j <= Max(HeadsBefore(ls, n + 1)) /\ j < n + 1 /\ j \in 1..Len(ls)
    BY <2>2, HeadsTyped
  <2> QED BY <2>1, <2>2, <2>3
<1> QED
  BY <1>2, <1>3

LEMMA NoHeadNoColon ==
  ASSUME NEW ls \in Seq(SourceLine), NEW n \in 1..Len(ls), HeadsBefore(ls, n) = {}
  PROVE  ~ Colon(ls, n - 1)
<1>1. n - 1 \in 0..Len(ls) /\ \A i \in 1..n-1 : i \notin HeadsOf(ls)
  BY LinesTyped DEF HeadsBefore
<1> QED
  BY <1>1, FirstHead

(* A deeper line is placed exactly if it begins an announced block, another *)
(* one exactly if no block is announced and its level is on the stack.     *)
LEMMA HeadPlaced ==
  ASSUME NEW ls \in Seq(SourceLine), NEW n \in HeadsOf(ls), NEW ind, Rising(ind), Nested(ls, n, ind),
         \A j \in HeadsBefore(ls, n) : \E q \in Int : ls[j].indent = 4 * q
  PROVE  /\ Last(ind) \in Nat
         /\ ls[n].indent > Last(ind) =>
              (Placed(ls, n) <=> Colon(ls, n - 1) /\ ls[n].indent = Last(ind) + 4)
         /\ ls[n].indent <= Last(ind) =>
              (Placed(ls, n) <=> ~ Colon(ls, n - 1) /\ \E m \in 1..Len(ind) : ind[m] = ls[n].indent)
<1> DEFINE level == ls[n].indent
           B == HeadsBefore(ls, n)
<1>1. /\ Len(ls) \in Nat /\ n \in 1..Len(ls) /\ level \in Nat
  BY LinesTyped, HeadsTyped
<1>2. /\ ind \in Seq(Nat) /\ Len(ind) \in Nat /\ Len(ind) >= 1 /\ ind[1] = 0
      /\ \A k \in 1..Len(ind) : ind[k] \in Nat
  BY DEF Rising
<1>3. \A k \in 1..Len(ind) : ind[k] = 4 * (k - 1)
  BY DEF Nested, Fourfold
<1>4. Last(ind) = ind[Len(ind)] /\ Last(ind) = 4 * (Len(ind) - 1) /\ Last(ind) \in Nat
  BY <1>2, <1>3 DEF Last
<1>5. CASE B = {}
  <2>1. ~ Colon(ls, n - 1) /\ Len(ind) = 1 /\ Last(ind) = 0
    <3>1. ~ Colon(ls, n - 1)
      BY <1>1, <1>5, NoHeadNoColon
    <3>2. Len(ind) = 1
      BY <1>5 DEF Nested
    <3> QED BY <1>4, <3>1, <3>2
  <2>2. Placed(ls, n) <=> level = 0
    BY <1>5 DEF Placed
  <2>3. 1 \in 1..Len(ind) /\ \A m \in 1..Len(ind) : ind[m] = 0
    BY <1>2, <2>1
  <2> QED BY <1>1, <1>4, <2>1, <2>2, <2>3
<1>6. CASE B # {}
  <2>1. ls[Max(B)].indent = Last(ind) /\ \A k \in 1..Len(ind) : Encloses(ls, n, ind[k])
    BY <1>6 DEF Nested
  <2>2. Placed(ls, n) <=> IF Colon(ls, n - 1) THEN level = Last(ind) + 4
                          ELSE level <= Last(ind) /\ Encloses(ls, n, level)
    BY <1>6, <2>1 DEF Placed
  <2>3. ASSUME level <= Last(ind), Encloses(ls, n, level) PROVE \E m \in 1..Len(ind) : ind[m] = level
    <3>1. PICK q \in Int : level = 4 * q
      BY <2>3 DEF Encloses
    <3>2. q + 1 \in 1..Len(ind) /\ (q + 1) - 1 = q
      BY <1>1, <1>2, <1>4, <2>3, <3>1
    <3>3. ind[q + 1] = level
      BY <1>3, <3>1, <3>2
    <3> QED BY <3>2, <3>3
  <2>4. ASSUME NEW m \in 1..Len(ind), ind[m] = level PROVE Encloses(ls, n, level)
    BY <2>1, <2>4
  <2> HIDE DEF B
  <2> QED BY <1>1, <1>4, <2>2, <2>3, <2>4
<1> QED
  BY <1>5, <1>6

LEMMA NestedSkips ==
  ASSUME NEW ls \in Seq(SourceLine), NEW n \in 1..Len(ls), NEW ind, Nested(ls, n, ind), n \notin HeadsOf(ls)
  PROVE  Nested(ls, n + 1, ind)
<1>1. HeadsBefore(ls, n + 1) = HeadsBefore(ls, n)
  BY HeadsNext
<1> QED
  BY <1>1 DEF Nested, Encloses

LEMMA NestedOn ==
  ASSUME NEW ls \in Seq(SourceLine), NEW n \in 1..Len(ls), NEW ind, Nested(ls, n, ind),
         n \in HeadsOf(ls), NEW new, Rising(new), Fourfold(new), Last(new) = ls[n].indent,
         \A k \in 1..Len(new)-1 : k \in 1..Len(ind) /\ new[k] = ind[k],
         HeadsBefore(ls, n) = {} => Len(new) = 1
  PROVE  Nested(ls, n + 1, new)
<1> DEFINE B == HeadsBefore(ls, n)
<1>1. HeadsBefore(ls, n + 1) = B \cup {n} /\ Max(HeadsBefore(ls, n + 1)) = n
  BY HeadsNext
<1>2. \A j \in B : j < n /\ j \in 1..Len(ls)
  BY HeadsTyped
<1>3. /\ Len(new) \in Nat /\ Len(new) >= 1 /\ Len(ls) \in Nat /\ ls[n].indent \in Nat
      /\ \A j, k \in 1..Len(new) : j < k => new[j] < new[k]
      /\ \A k \in 1..Len(new) : new[k] \in Nat
      /\ new[Len(new)] = ls[n].indent
  BY LinesTyped DEF Rising, Last
<1>4. ASSUME NEW k \in 1..Len(new) PROVE Encloses(ls, n + 1, new[k])
  <2>1. CASE k = Len(new)
    <3>1. ls[n].indent = new[k] /\ n \in B \cup {n}
      BY <1>3, <2>1
    <3>2. \A j \in B \cup {n} : ~ (j > n)
      BY <1>2
    <3> QED BY <1>1, <3>1, <3>2 DEF Encloses
  <2>2. CASE k # Len(new)
    <3>1. k \in 1..Len(new)-1 /\ Len(new) # 1 /\ Len(new) \in 1..Len(new) /\ k < Len(new)
      BY <1>3, <2>2
    <3>2. k \in 1..Len(ind) /\ new[k] = ind[k] /\ B # {}
      BY <3>1
    <3>3. PICK c \in B : /\ ls[c].indent = ind[k]
                         /\ \A j \in B : j > c => ls[j].indent >= ind[k]
      BY <3>2 DEF Nested, Encloses
    <3>4. new[k] < ls[n].indent
      BY <1>3, <3>1
    <3>5. \A j \in B \cup {n} : j > c => ls[j].indent >= new[k]
      BY <1>3, <3>2, <3>3, <3>4
    <3> QED BY <1>1, <3>2, <3>3, <3>5 DEF Encloses
  <2> QED BY <2>1, <2>2
<1> QED
  BY <1>1, <1>4 DEF Nested

-----------------------------------------------------------------------------
(***************************************************************************)
(* What the scan knows.  Before a line: the delimiters that are open, the  *)
(* elements of the lines so far, and the levels.                           *)
(***************************************************************************)

Delved(ls, n, st) ==
  LET t == Sofar(ls, n - 1)
  IN /\ Stacked(t, Len(t), st) /\ Len(st) <= MAX_NESTING
     /\ \A k \in 1..Len(t) : Allowed(t, k)

Ranked(ls, n, lay) ==
  /\ Expected(lay)
  /\ \A i \in HeadsBefore(ls, n) :
       /\ Placed(ls, i)
       /\ ls[i].indent = 4 * (Marks(lay, {"Indent"}, i) - Marks(lay, {"Dedent"}, i))

(* What comes of a line changes nothing before it.                         *)
Before(lay, all, n) == \A kinds : \A i \in Nat : i < n => Marks(all, kinds, i) = Marks(lay, kinds, i)

LEMMA BalancedOn ==
  ASSUME NEW n \in Nat \ {0}, NEW lay, NEW ind, NEW new, Balanced(lay, ind, n),
         Len(ind) \in Nat, Len(new) \in Nat,
         NEW b, AtLine(b, n),
         \A j \in Nat : j >= n => Marks(b, Begun, j) + Len(ind) = Marks(b, {"Dedent"}, j) + Len(new)
  PROVE  Balanced(lay \o b, new, n + 1) /\ Before(lay, lay \o b, n)
<1>0. b \in Seq(Elements) /\ \A k \in 1..Len(b) : b[k].line = n
  BY DEF AtLine
<1>1. lay \in Seq(Elements) /\ lay \o b \in Seq(Elements) /\ Len(lay) \in Nat /\ Len(b) \in Nat
  BY <1>0 DEF Balanced
<1>2. ASSUME NEW k \in 1..Len(lay \o b) PROVE (lay \o b)[k].line < n + 1
  <2>1. CASE k \in 1..Len(lay)
    <3>1. (lay \o b)[k] = lay[k] /\ lay[k] \in Elements
      BY <1>1, <2>1
    <3>2. lay[k].line < n /\ lay[k].line \in Nat
      BY <2>1, <3>1 DEF Balanced, Elements
    <3> QED BY <3>1, <3>2
  <2>2. CASE k \notin 1..Len(lay)
    <3>1. k - Len(lay) \in 1..Len(b) /\ (lay \o b)[k] = b[k - Len(lay)]
      BY <1>0, <1>1, <2>2
    <3> QED BY <1>0, <3>1
  <2> QED BY <2>1, <2>2
<1>3. ASSUME NEW j \in Nat, j >= (n + 1) - 1
      PROVE  Marks(lay \o b, Begun, j) = Marks(lay \o b, {"Dedent"}, j) + Len(new) - 1
  <2>1. /\ Marks(lay \o b, Begun, j) = Marks(lay, Begun, j) + Marks(b, Begun, j)
        /\ Marks(lay \o b, {"Dedent"}, j) = Marks(lay, {"Dedent"}, j) + Marks(b, {"Dedent"}, j)
        /\ Marks(lay, Begun, j) \in Nat /\ Marks(lay, {"Dedent"}, j) \in Nat
        /\ Marks(b, Begun, j) \in Nat /\ Marks(b, {"Dedent"}, j) \in Nat
    BY <1>0, <1>1, MarksAppend
  <2>2. Marks(lay, Begun, j) = Marks(lay, {"Dedent"}, j) + Len(ind) - 1
    BY <1>3 DEF Balanced
  <2>3. Marks(b, Begun, j) + Len(ind) = Marks(b, {"Dedent"}, j) + Len(new)
    BY <1>3
  <2> QED BY <2>1, <2>2, <2>3
<1>4. ASSUME NEW kinds, NEW i \in Nat, i < n PROVE Marks(lay \o b, kinds, i) = Marks(lay, kinds, i)
  <2>1. \A k \in 1..Len(b) : b[k].kind \notin kinds \/ b[k].line > i
    BY <1>0, <1>4
  <2>2. Marks(b, kinds, i) = 0
    BY <1>0, <2>1, MarksAppend
  <2>3. Marks(lay \o b, kinds, i) = Marks(lay, kinds, i) + Marks(b, kinds, i) /\ Marks(lay, kinds, i) \in Nat
    BY <1>0, <1>1, MarksAppend
  <2> QED BY <2>2, <2>3
<1>5. Balanced(lay \o b, new, n + 1)
  BY <1>1, <1>2, <1>3 DEF Balanced
<1>6. Before(lay, lay \o b, n)
  BY <1>4 DEF Before
<1> QED
  BY <1>5, <1>6

LEMMA OnlyIndents ==
  ASSUME NEW lay \in Seq(Elements), Expected(lay), NEW i \in Nat
  PROVE  Marks(lay, {"Indent"}, i) = Marks(lay, Begun, i)
<1>1. {k \in DOMAIN lay : lay[k].kind \in {"Indent"} /\ lay[k].line <= i}
      = {k \in DOMAIN lay : lay[k].kind \in Begun /\ lay[k].line <= i}
  BY DEF Begun, Expected
<1> QED
  BY <1>1 DEF Marks

LEMMA RankedOn ==
  ASSUME NEW ls \in Seq(SourceLine), NEW n \in HeadsOf(ls), NEW lay \in Seq(Elements), Ranked(ls, n, lay),
         Placed(ls, n), NEW new, Rising(new), Fourfold(new), Last(new) = ls[n].indent,
         NEW b, b \in Seq(Elements), Expected(b), Balanced(lay \o b, new, n + 1), Before(lay, lay \o b, n)
  PROVE  Ranked(ls, n + 1, lay \o b)
<1> DEFINE all == lay \o b
<1>1. n \in 1..Len(ls) /\ n \in Nat
  BY HeadsTyped, LinesTyped
<1>2. all \in Seq(Elements)
  OBVIOUS
<1>3. Expected(all)
  BY Joined DEF Ranked
<1>4. ls[n].indent = 4 * (Marks(all, {"Indent"}, n) - Marks(all, {"Dedent"}, n))
  <2>1. Len(new) \in Nat /\ Len(new) >= 1 /\ Last(new) = 4 * (Len(new) - 1)
    <3>1. Len(new) \in Nat /\ Len(new) >= 1
      BY DEF Rising
    <3>2. new[Len(new)] = 4 * (Len(new) - 1)
      BY <3>1 DEF Fourfold
    <3> QED BY <3>1, <3>2 DEF Last
  <2>2. Marks(all, {"Indent"}, n) = Marks(all, Begun, n)
    BY <1>1, <1>2, <1>3, OnlyIndents
  <2>3. Marks(all, Begun, n) = Marks(all, {"Dedent"}, n) + Len(new) - 1
    BY <1>1 DEF Balanced
  <2>4. Marks(all, {"Dedent"}, n) \in Nat
    BY <1>1, <1>2, MarksAppend
  <2> HIDE DEF all
  <2> QED BY <2>1, <2>2, <2>3, <2>4
<1>5. ASSUME NEW i \in HeadsBefore(ls, n)
      PROVE  /\ Placed(ls, i)
             /\ ls[i].indent = 4 * (Marks(all, {"Indent"}, i) - Marks(all, {"Dedent"}, i))
  <2>1. i \in Nat /\ i < n
    BY <1>1, HeadsTyped
  <2> QED BY <2>1 DEF Ranked, Before
<1>6. HeadsBefore(ls, n + 1) = HeadsBefore(ls, n) \cup {n}
  BY <1>1, HeadsNext
<1> HIDE DEF all
<1>7. Ranked(ls, n + 1, all)
  BY <1>3, <1>4, <1>5, <1>6 DEF Ranked
<1> QED
  BY <1>7 DEF all

LEMMA RankedFours ==
  ASSUME NEW ls \in Seq(SourceLine), NEW n \in Nat, NEW lay \in Seq(Elements), Ranked(ls, n, lay)
  PROVE  \A j \in HeadsBefore(ls, n) : \E q \in Int : ls[j].indent = 4 * q
<1> SUFFICES ASSUME NEW j \in HeadsBefore(ls, n) PROVE \E q \in Int : ls[j].indent = 4 * q
  OBVIOUS
<1>1. j \in Nat
  BY HeadsTyped
<1>2. Marks(lay, {"Indent"}, j) \in Nat /\ Marks(lay, {"Dedent"}, j) \in Nat
  BY <1>1, MarksAppend
<1>3. ls[j].indent = 4 * (Marks(lay, {"Indent"}, j) - Marks(lay, {"Dedent"}, j))
  BY DEF Ranked
<1>4. Marks(lay, {"Indent"}, j) - Marks(lay, {"Dedent"}, j) \in Int
  BY <1>2
<1> QED
  BY <1>3, <1>4

(* A line at which levels may change: `found` is what is reported of it    *)
(* besides its delimiters.                                                 *)
Advances(n, found) ==
  /\ \A r \in found : r.code \in LayoutCodes
  /\ Rising(indents') /\ Balanced(layout', indents', n + 1)
  /\ /\ n \in HeadsOf(lines) /\ Nested(lines, n, indents) /\ Ranked(lines, n, layout)
     /\ expecting <=> Colon(lines, n - 1)
     => /\ found = {} <=> Placed(lines, n)
        /\ found = {} => Nested(lines, n + 1, indents') /\ Ranked(lines, n + 1, layout')

LEMMA DeepenAdvances ==
  ASSUME lines \in Seq(SourceLine), NEW n \in 1..Len(lines), Rising(indents),
         Balanced(layout, indents, n), Deepen(n)
  PROVE  \E found : reports' = reports \cup found \cup Delimit(n).reports /\ Advances(n, found)
<1> DEFINE level == lines[n].indent
           ok    == expecting /\ level = Last(indents) + 4
           kind  == IF ok THEN "Indent" ELSE "UnexpectedIndentBlock"
           b     == <<Element(kind, n)>>
           found == WidthReports(n)
                    \cup (IF ok THEN {} ELSE {Report("unexpected_indentation", LineStart(n))})
           new   == Append(indents, level)
<1>1. /\ Len(lines) \in Nat /\ level \in Nat /\ n \in Nat \ {0} /\ layout \in Seq(Elements)
      /\ indents \in Seq(Nat) /\ Len(indents) \in Nat /\ Len(indents) >= 1
      /\ Last(indents) = indents[Len(indents)] /\ Last(indents) \in Nat
  BY LinesTyped DEF Rising, Balanced, Last
<1>2. /\ level > Last(indents) /\ indents' = new /\ layout' = layout \o b
      /\ reports' = reports \cup found \cup Delimit(n).reports
  BY DEF Deepen, Levelled
<1>3. /\ new \in Seq(Nat) /\ Len(new) = Len(indents) + 1 /\ new[Len(indents) + 1] = level
      /\ \A k \in 1..Len(indents) : new[k] = indents[k]
  BY <1>1
<1>4. Last(new) = level
  BY <1>3 DEF Last
<1>5. Element(kind, n) \in Elements /\ kind \in Begun /\ kind # "Dedent"
  BY <1>1 DEF Element, Elements, Begun
<1>6. OneKind(b, kind, n) /\ Len(b) = 1
  <2> DEFINE x == kind
  <2>1. x \in {"Indent", "UnexpectedIndentBlock", "Missing", "Dedent", "Closer"}
    OBVIOUS
  <2> HIDE DEF x
  <2>2. OneKind(<<Element(x, n)>>, x, n)
    BY <1>1, <2>1, OneKindOf
  <2> QED BY <2>2 DEF x
<1>7. \A r \in found : r.code \in LayoutCodes
  BY DEF WidthReports, Report, LayoutCodes
<1>f. found = {} <=> ok /\ level % 4 = 0
  BY DEF WidthReports
<1>k. ok => kind # "UnexpectedIndentBlock"
  OBVIOUS
<1> HIDE DEF new, level, found, b, kind
<1>8. Rising(new)
  <2>1. \A j, k \in 1..Len(indents) : j < k => indents[j] < indents[k]
    BY DEF Rising
  <2>2. \A k \in 1..Len(indents) : indents[k] <= Last(indents)
    <3> SUFFICES ASSUME NEW k \in 1..Len(indents) PROVE indents[k] <= Last(indents)
      OBVIOUS
    <3>1. indents[k] \in Nat /\ Len(indents) \in 1..Len(indents) /\ (k = Len(indents) \/ k < Len(indents))
      BY <1>1
    <3> QED BY <1>1, <2>1, <3>1
  <2>3. \A k \in 1..Len(indents) : indents[k] \in Nat
    BY <1>1
  <2>4. ASSUME NEW j \in 1..Len(new), NEW k \in 1..Len(new), j < k PROVE new[j] < new[k]
    <3>1. j \in 1..Len(indents) /\ (k \in 1..Len(indents) \/ k = Len(indents) + 1)
      BY <1>1, <1>3, <2>4
    <3> QED BY <1>1, <1>2, <1>3, <2>1, <2>2, <2>3, <2>4, <3>1
  <2>5. new[1] = 0 /\ Len(new) >= 1
    <3>1. 1 \in 1..Len(indents) /\ indents[1] = 0
      BY <1>1 DEF Rising
    <3> QED BY <1>1, <1>3, <3>1
  <2> QED BY <1>3, <2>4, <2>5 DEF Rising
<1>9. AtLine(b, n) /\ b \in Seq(Elements) /\ (ok => Expected(b))
  BY <1>1, <1>6, <1>k, OneKindIs
<1>10. ASSUME NEW j \in Nat, j >= n
       PROVE  Marks(b, Begun, j) + Len(indents) = Marks(b, {"Dedent"}, j) + Len(new)
  <2>1. n <= j /\ n \in Nat
    BY <1>1, <1>10
  <2>2. Marks(b, Begun, j) = Len(b)
    BY <1>5, <1>6, <2>1, MarksOf
  <2>3. Marks(b, {"Dedent"}, j) = 0
    BY <1>5, <1>6, <2>1, MarksOf
  <2> QED BY <1>1, <1>3, <1>6, <2>2, <2>3
<1>11. /\ Balanced(layout \o b, new, n + 1)
       /\ Before(layout, layout \o b, n)
  <2>1. Len(new) \in Nat
    BY <1>1, <1>3
  <2> QED BY <1>1, <1>9, <1>10, <2>1, BalancedOn
<1>12. ASSUME n \in HeadsOf(lines), Nested(lines, n, indents), Ranked(lines, n, layout),
              expecting <=> Colon(lines, n - 1)
       PROVE  /\ found = {} <=> Placed(lines, n)
              /\ found = {} => Nested(lines, n + 1, new) /\ Ranked(lines, n + 1, layout \o b)
  <2>1. Placed(lines, n) <=> ok
    <3>1. \A j \in HeadsBefore(lines, n) : \E q \in Int : lines[j].indent = 4 * q
      BY <1>1, <1>12, RankedFours
    <3>2. Placed(lines, n) <=> Colon(lines, n - 1) /\ lines[n].indent = Last(indents) + 4
      BY <1>2, <1>12, <3>1, HeadPlaced DEF level
    <3> QED BY <1>12, <3>2 DEF level
  <2>2. ASSUME ok PROVE level % 4 = 0 /\ Fourfold(new)
    <3>1. \A k \in 1..Len(indents) : indents[k] = 4 * (k - 1)
      BY <1>12 DEF Nested, Fourfold
    <3>2. level = 4 * Len(indents)
      BY <1>1, <2>2, <3>1
    <3>3. level % 4 = 0
      BY <1>1, <3>2
    <3>4. ASSUME NEW k \in 1..Len(new) PROVE new[k] = 4 * (k - 1)
      <4>1. CASE k \in 1..Len(indents)
        BY <1>3, <3>1, <4>1
      <4>2. CASE k = Len(indents) + 1
        BY <1>1, <1>3, <3>2, <4>2
      <4> QED BY <1>1, <1>3, <4>1, <4>2
    <3> QED BY <3>3, <3>4 DEF Fourfold
  <2>3. found = {} <=> ok
    BY <1>f, <2>2
  <2>4. ASSUME ok PROVE Nested(lines, n + 1, new) /\ Ranked(lines, n + 1, layout \o b)
    <3>1. HeadsBefore(lines, n) # {}
      BY <1>12, <2>4, NoHeadNoColon
    <3>2. \A k \in 1..Len(new)-1 : k \in 1..Len(indents) /\ new[k] = indents[k]
      BY <1>1, <1>3
    <3>3. Nested(lines, n + 1, new)
      BY <1>4, <1>8, <1>12, <2>2, <2>4, <3>1, <3>2, NestedOn DEF level
    <3>4. Placed(lines, n) /\ Fourfold(new)
      BY <2>1, <2>2, <2>4
    <3>5. Expected(b) /\ b \in Seq(Elements)
      BY <1>9, <2>4
    <3>6. Ranked(lines, n + 1, layout \o b)
      BY <1>1, <1>4, <1>8, <1>11, <1>12, <3>4, <3>5, RankedOn DEF level
    <3> QED BY <3>3, <3>6
  <2> QED BY <2>1, <2>3, <2>4
<1>13. Advances(n, found)
  BY <1>2, <1>7, <1>8, <1>11, <1>12 DEF Advances
<1> QED
  BY <1>2, <1>13

LEMMA ReturnAdvances ==
  ASSUME lines \in Seq(SourceLine), NEW n \in 1..Len(lines), Rising(indents),
         Balanced(layout, indents, n), Return(n)
  PROVE  \E found : reports' = reports \cup found \cup Delimit(n).reports /\ Advances(n, found)
<1> DEFINE level  == lines[n].indent
           new    == Standing(level)
           absent == IF expecting THEN <<Element("Missing", n)>> ELSE <<>>
           ends   == [k \in 1 .. Len(indents) - Len(new) |-> Element("Dedent", n)]
           b      == absent \o ends
           found  == WidthReports(n)
                     \cup ((IF expecting THEN {Report("missing_block", Position(n, 1))} ELSE {})
                           \cup (IF Last(new) # level THEN {Report("inconsistent_dedent", LineStart(n))}
                                 ELSE {}))
<1>1. /\ Len(lines) \in Nat /\ level \in Nat /\ n \in Nat /\ n \in Nat \ {0} /\ layout \in Seq(Elements)
      /\ indents \in Seq(Nat) /\ Len(indents) \in Nat /\ Len(indents) >= 1
  BY LinesTyped DEF Rising, Balanced
<1>l. level \in Nat
  BY <1>1
<1>n. n \in Nat
  BY <1>1
<1>i. /\ \A j, k \in 1..Len(indents) : j < k => indents[j] < indents[k]
      /\ \A k \in 1..Len(indents) : indents[k] \in Nat
      /\ indents[1] = 0
  BY DEF Rising
<1>2. /\ level <= Last(indents) /\ indents' = new /\ layout' = layout \o b
      /\ reports' = reports \cup found \cup Delimit(n).reports
  BY DEF Return, Levelled
<1>3. PICK m \in 1..Len(indents) :
        /\ new \in Seq(Nat) /\ Len(new) = m /\ \A k \in 1..m : new[k] = indents[k]
        /\ indents[m] <= level /\ Last(new) = indents[m]
        /\ \A k \in 1..Len(indents) : indents[k] <= level => k <= m
  <2> HIDE DEF level
  <2> QED BY <1>l, StandingIs
<1>4. Element("Dedent", n) \in Elements /\ Element("Missing", n) \in Elements
  BY <1>1 DEF Element, Elements
<1>5. Len(indents) - Len(new) \in Nat
  BY <1>1, <1>3
<1>6. OneKind(ends, "Dedent", n) /\ Len(ends) = Len(indents) - Len(new)
  <2> DEFINE d == Len(indents) - Len(new)
  <2>1. d \in Nat /\ ends = [k \in 1..d |-> Element("Dedent", n)]
    BY <1>5
  <2> HIDE DEF d, ends
  <2> QED BY <1>n, <2>1, Repeated DEF d
<1>7. OneKind(absent, "Missing", n)
  BY <1>n, OneKindOf
<1>8. \A r \in found : r.code \in LayoutCodes
  BY DEF WidthReports, Report, LayoutCodes
<1>9. found = {} <=> ~ expecting /\ Last(new) = level /\ level % 4 = 0
  BY DEF WidthReports
<1> HIDE DEF new, level, found, absent, ends
<1>10. /\ AtLine(ends, n) /\ ends \in Seq(Elements) /\ Len(ends) \in Nat /\ Expected(ends)
       /\ AtLine(absent, n) /\ absent \in Seq(Elements) /\ Expected(absent)
  BY <1>n, <1>6, <1>7, OneKindIs
<1>11. AtLine(b, n) /\ b \in Seq(Elements) /\ Expected(b)
  BY <1>10, Joined
<1>12. Rising(new)
  <2>1. ASSUME NEW j \in 1..m, NEW k \in 1..m, j < k PROVE new[j] < new[k]
    <3>1. j \in 1..Len(indents) /\ k \in 1..Len(indents)
      BY <1>1
    <3>2. indents[j] < indents[k]
      BY <1>i, <2>1, <3>1
    <3> QED BY <1>3, <3>2
  <2>2. 1 \in 1..m /\ m \in Nat /\ m >= 1
    BY <1>1
  <2>3. new[1] = 0
    BY <1>3, <1>i, <2>2
  <2>4. new \in Seq(Nat) /\ Len(new) = m
    BY <1>3
  <2> QED BY <2>1, <2>2, <2>3, <2>4 DEF Rising
<1>13. ASSUME NEW j \in Nat, j >= n
       PROVE  Marks(b, Begun, j) + Len(indents) = Marks(b, {"Dedent"}, j) + Len(new)
  <2>1. n <= j
    BY <1>13
  <2>2. Marks(absent, Begun, j) = 0 /\ Marks(absent, {"Dedent"}, j) = 0
    <3>1. "Missing" \notin Begun /\ "Missing" \notin {"Dedent"}
      BY DEF Begun
    <3>2. Marks(absent, Begun, j) = 0
      BY <1>n, <1>7, <2>1, <3>1, MarksOf
    <3>3. Marks(absent, {"Dedent"}, j) = 0
      BY <1>n, <1>7, <2>1, <3>1, MarksOf
    <3> QED BY <3>2, <3>3
  <2>3. Marks(ends, Begun, j) = 0 /\ Marks(ends, {"Dedent"}, j) = Len(ends)
    <3>1. "Dedent" \notin Begun /\ "Dedent" \in {"Dedent"}
      BY DEF Begun
    <3>2. Marks(ends, Begun, j) = 0
      BY <1>n, <1>6, <2>1, <3>1, MarksOf
    <3>3. Marks(ends, {"Dedent"}, j) = Len(ends)
      BY <1>n, <1>6, <2>1, <3>1, MarksOf
    <3> QED BY <3>2, <3>3
  <2>4. ASSUME NEW kinds PROVE Marks(absent \o ends, kinds, j) = Marks(absent, kinds, j) + Marks(ends, kinds, j)
    BY <1>10, MarksAppend
  <2>5. Marks(b, Begun, j) = 0 + 0 /\ Marks(b, {"Dedent"}, j) = 0 + Len(ends)
    BY <2>2, <2>3, <2>4
  <2> HIDE DEF b
  <2> QED BY <1>1, <1>3, <1>6, <1>10, <2>5
<1> HIDE DEF b
<1>14. /\ Balanced(layout \o b, new, n + 1)
       /\ Before(layout, layout \o b, n)
  <2>1. Len(new) \in Nat
    BY <1>3
  <2>2. n \in Nat \ {0} /\ Len(indents) \in Nat
    BY <1>1
  <2>3. \A j \in Nat : j >= n => Marks(b, Begun, j) + Len(indents) = Marks(b, {"Dedent"}, j) + Len(new)
    BY <1>13
  <2> QED BY <1>11, <2>1, <2>2, <2>3, BalancedOn
<1>15. ASSUME n \in HeadsOf(lines), Nested(lines, n, indents), Ranked(lines, n, layout),
              expecting <=> Colon(lines, n - 1)
       PROVE  /\ found = {} <=> Placed(lines, n)
              /\ found = {} => Nested(lines, n + 1, new) /\ Ranked(lines, n + 1, layout \o b)
  <2>1. Placed(lines, n) <=> ~ expecting /\ \E q \in 1..Len(indents) : indents[q] = level
    <3>1. \A j \in HeadsBefore(lines, n) : \E q \in Int : lines[j].indent = 4 * q
      BY <1>1, <1>15, RankedFours
    <3>2. Placed(lines, n) <=> ~ Colon(lines, n - 1) /\ \E q \in 1..Len(indents) : indents[q] = lines[n].indent
      BY <1>2, <1>15, <3>1, HeadPlaced DEF level
    <3> QED BY <1>15, <3>2 DEF level
  <2>2. (\E q \in 1..Len(indents) : indents[q] = level) <=> Last(new) = level
    <3>1. ASSUME NEW q \in 1..Len(indents), indents[q] = level PROVE indents[m] = level
      <4>1. q <= m
        BY <1>3, <1>l, <3>1
      <4>2. q = m \/ indents[q] < indents[m]
        BY <1>1, <1>i, <4>1
      <4> QED BY <1>3, <1>i, <1>l, <3>1, <4>2
    <3> QED BY <1>3, <3>1
  <2>3. \A k \in 1..Len(indents) : indents[k] = 4 * (k - 1)
    BY <1>15 DEF Nested, Fourfold
  <2>4. Fourfold(new)
    <3>1. ASSUME NEW k \in 1..m PROVE new[k] = 4 * (k - 1)
      <4>1. k \in 1..Len(indents)
        BY <1>1
      <4> QED BY <1>3, <2>3, <4>1
    <3>2. Len(new) = m
      BY <1>3
    <3> QED BY <3>1, <3>2 DEF Fourfold
  <2>5. Last(new) = level => level % 4 = 0
    <3>1. Last(new) = 4 * (m - 1) /\ m - 1 \in Nat
      BY <1>1, <1>3, <2>3
    <3> QED BY <3>1
  <2>6. found = {} <=> Placed(lines, n)
    BY <1>9, <2>1, <2>2, <2>5
  <2>7. ASSUME found = {} PROVE Nested(lines, n + 1, new) /\ Ranked(lines, n + 1, layout \o b)
    <3>1. Last(new) = lines[n].indent /\ Placed(lines, n)
      BY <1>9, <2>6, <2>7 DEF level
    <3>2. \A k \in 1..Len(new)-1 : k \in 1..Len(indents) /\ new[k] = indents[k]
      BY <1>1, <1>3
    <3>3. HeadsBefore(lines, n) = {} => Len(new) = 1
      <4>1. HeadsBefore(lines, n) = {} => Len(indents) = 1
        BY <1>15 DEF Nested
      <4>2. Len(indents) = 1 => m = 1
        BY <1>1
      <4>3. Len(new) = m
        BY <1>3
      <4> QED BY <4>1, <4>2, <4>3
    <3>4. Nested(lines, n + 1, new)
      BY <1>12, <1>15, <2>4, <3>1, <3>2, <3>3, NestedOn
    <3>6. Ranked(lines, n + 1, layout \o b)
      BY <1>1, <1>11, <1>12, <1>14, <1>15, <2>4, <3>1, RankedOn
    <3> QED BY <3>4, <3>6
  <2> QED BY <2>6, <2>7
<1>16. Advances(n, found)
  BY <1>2, <1>8, <1>12, <1>14, <1>15 DEF Advances
<1> QED
  BY <1>2, <1>16

-----------------------------------------------------------------------------
(***************************************************************************)
(* A line and its delimiters.                                              *)
(***************************************************************************)

LEMMA DelimitTyped ==
  ASSUME lines \in Seq(SourceLine), NEW i \in DOMAIN lines, open \in Seq(Opened)
  PROVE  /\ Delimit(i).open \in Seq(Opened) /\ Delimit(i).reports \in SUBSET LayoutReports
         /\ lines[i].tokens = <<>> => Delimit(i).open = open
<1> DEFINE seen == Seen(lines[i].tokens)
<1>1. seen \in Seq(Token) /\ lines[i].tokens \in Seq(Token) /\ i \in 1..Len(lines)
  BY LinesTyped
<1>2. lines[i].tokens = <<>> => seen = <<>>
  BY <1>1, SeenTokens
<1>3. PICK f : /\ f[0] = [open |-> open, reports |-> {}]
               /\ \A k \in 1..Len(seen) : f[k] = Delimiter(f[k - 1], seen[k], Position(i, k))
               /\ Delimit(i) = f[Len(seen)]
  BY <1>1, DelimitRuns
<1>4. \A k \in 1..Len(seen) : Position(i, k) \in Int
  BY <1>1 DEF Position, LineStart
<1> HIDE DEF seen
<1> DEFINE G == {k \in 0..Len(seen) : f[k] \in Scans}
<1>5. Len(seen) \in Nat /\ \A k \in 1..Len(seen) : seen[k] \in Token
  BY <1>1
<1>6. 0 \in G
  <2>1. f[0] \in Scans /\ 0 \in 0..Len(seen)
    BY <1>3, <1>5 DEF Scans
  <2> QED BY <2>1
<1>7. ASSUME NEW k \in 1..Len(seen), k - 1 \in G PROVE k \in G
  <2>1. f[k] = Delimiter(f[k - 1], seen[k], Position(i, k)) /\ f[k - 1] \in Scans /\ k \in 0..Len(seen)
    BY <1>3, <1>5, <1>7
  <2>2. f[k] \in Scans
    BY <1>4, <1>5, <2>1, DelimiterScans
  <2> QED BY <2>1, <2>2
<1> HIDE DEF G
<1>8. Len(seen) \in G
  BY <1>5, <1>6, <1>7, Upto
<1>9. Delimit(i) \in Scans
  BY <1>3, <1>8 DEF G
<1>10. ASSUME lines[i].tokens = <<>> PROVE Delimit(i).open = open
  <2>1. Len(seen) = 0
    BY <1>2, <1>10
  <2> QED BY <1>3, <2>1
<1> QED
  BY <1>9, <1>10 DEF Scans

LEMMA DelvedOn ==
  ASSUME lines \in Seq(SourceLine), NEW n \in 1..Len(lines), Delved(lines, n, open)
  PROVE  \/ Delimit(n).reports = {} /\ Delved(lines, n + 1, Delimit(n).open)
         \/ Delimit(n).reports # {} /\ ~ Regular(lines)
<1> DEFINE t == Sofar(lines, n - 1)
           u == Sofar(lines, n)
           all == FlattenSeq(SeenLines(lines))
<1>1. /\ Len(lines) \in Nat /\ n \in DOMAIN lines /\ n \in 0..Len(lines) /\ n - 1 \in 0..Len(lines)
      /\ (n + 1) - 1 = n
  BY LinesTyped
<1>2. t \in Seq(Token) /\ u \in Seq(Token) /\ u = t \o Seen(lines[n].tokens)
      /\ Seen(lines[n].tokens) \in Seq(Token)
  BY <1>1, SofarSteps, LinesTyped
<1>3. /\ Stacked(t, Len(t), open) /\ Len(open) <= MAX_NESTING /\ \A k \in 1..Len(t) : Allowed(t, k)
      /\ open \in Seq(Opened)
  BY DEF Delved, Stacked
<1> HIDE DEF t, u, all
<1>4. /\ Delimit(n).open \in Seq(Opened)
      /\ \/ /\ Delimit(n).reports = {} /\ Stacked(u, Len(u), Delimit(n).open)
            /\ Depth(u, Len(u)) <= MAX_NESTING
            /\ \A k \in Len(t)+1..Len(u) : Allowed(u, k)
         \/ Delimit(n).reports # {} /\ \E k \in 1..Len(u) : ~ Allowed(u, k)
  BY <1>1, <1>3, DelimitExact DEF t, u
<1>5. ASSUME Delimit(n).reports = {} PROVE Delved(lines, n + 1, Delimit(n).open)
  <2>1. /\ Stacked(u, Len(u), Delimit(n).open) /\ Depth(u, Len(u)) <= MAX_NESTING
        /\ \A k \in Len(t)+1..Len(u) : Allowed(u, k)
    BY <1>4, <1>5
  <2>2. Len(Delimit(n).open) <= MAX_NESTING
    BY <2>1 DEF Stacked
  <2>3. \A k \in 1..Len(t) : Allowed(u, k)
    BY <1>2, <1>3, AllowedInPrefix
  <2>4. \A k \in 1..Len(u) : Allowed(u, k)
    <3>1. \A k \in 1..Len(u) : k \in 1..Len(t) \/ k \in Len(t)+1..Len(u)
      BY <1>2
    <3> QED BY <2>1, <2>3, <3>1
  <2>5. u = Sofar(lines, (n + 1) - 1)
    BY <1>1 DEF u
  <2> QED BY <2>1, <2>2, <2>4, <2>5 DEF Delved
<1>6. ASSUME Delimit(n).reports # {} PROVE ~ Regular(lines)
  <2>1. PICK k \in 1..Len(u) : ~ Allowed(u, k)
    BY <1>4, <1>6
  <2>2. PICK rest \in Seq(Token) : all = u \o rest
    BY <1>1, SofarPrefix DEF u, all
  <2>3. ~ Allowed(all, k)
    BY <1>2, <2>1, <2>2, AllowedInPrefix
  <2>4. k \in 1..Len(all)
    BY <1>2, <2>2
  <2> QED BY <2>3, <2>4 DEF Regular, all
<1> QED
  BY <1>5, <1>6

(* A logical line starts where nothing is open.                            *)
LEMMA HeadHere ==
  ASSUME NEW ls \in Seq(SourceLine), NEW n \in 1..Len(ls)+1, NEW st, Delved(ls, n, st)
  PROVE  /\ st = <<>> <=> Nesting(Sofar(ls, n - 1)) = 0
         /\ n \in 1..Len(ls) => (n \in HeadsOf(ls) <=> ls[n].tokens # <<>> /\ st = <<>>)
<1> DEFINE t == Sofar(ls, n - 1)
<1>1. Len(ls) \in Nat /\ DOMAIN ls = 1..Len(ls) /\ n - 1 \in 0..Len(ls)
  BY LinesTyped
<1>2. t \in Seq(Token)
  BY <1>1, SofarSteps
<1>3. st \in Seq(Opened) /\ Len(st) = Depth(t, Len(t))
  BY DEF Delved, Stacked
<1>4. Depth(t, Len(t)) = Nesting(t)
  BY <1>2, DepthSteps
<1>5. st = <<>> <=> Len(st) = 0
  BY <1>3
<1> QED
  BY <1>1, <1>3, <1>4, <1>5 DEF HeadsOf

-----------------------------------------------------------------------------
(***************************************************************************)
(* The invariant.  As long as the scan has reported nothing, all lines so  *)
(* far are laid out; what it has reported rules the source out.            *)
(***************************************************************************)

Sound(ls, n, ind, st, exp, lay) ==
  /\ Delved(ls, n, st) /\ Nested(ls, n, ind) /\ Ranked(ls, n, lay)
  /\ st = <<>> => (exp <=> Colon(ls, n - 1))

Scanning ==
  /\ next \in 1..Len(lines)+1 /\ open \in Seq(Opened)
  /\ Rising(indents) /\ Balanced(layout, indents, next)
  /\ LayoutSound => Sound(lines, next, indents, open, expecting, layout)
  /\ ~ LayoutSound => ~ Regular(lines)

TextInv ==
  /\ lines \in Seq(SourceLine)
  /\ parsing = "layout" => Scanning
  /\ LayoutExact

LEMMA LevelStep ==
  ASSUME lines \in Seq(SourceLine), NEW n \in 1..Len(lines), n = next, Scanning,
         Continue(n) \/ Deepen(n) \/ Return(n)
  PROVE  \E found :
           /\ reports' = reports \cup found \cup Delimit(n).reports
           /\ \A r \in found : r.code \in LayoutCodes
           /\ Rising(indents') /\ Balanced(layout', indents', n + 1)
           /\ LayoutSound =>
                \/ found = {} /\ Nested(lines, n + 1, indents') /\ Ranked(lines, n + 1, layout')
                \/ found # {} /\ ~ Regular(lines)
<1>1. Len(lines) \in Nat /\ DOMAIN lines = 1..Len(lines) /\ n \in Nat
  BY LinesTyped
<1>2. Rising(indents) /\ Balanced(layout, indents, n)
  BY DEF Scanning
<1>3. ASSUME LayoutSound
      PROVE  /\ Delved(lines, n, open) /\ Nested(lines, n, indents) /\ Ranked(lines, n, layout)
             /\ open = <<>> => (expecting <=> Colon(lines, n - 1))
             /\ n \in HeadsOf(lines) <=> ~ IsBlank(n) /\ open = <<>>
  <2>1. /\ Delved(lines, n, open) /\ Nested(lines, n, indents) /\ Ranked(lines, n, layout)
        /\ open = <<>> => (expecting <=> Colon(lines, n - 1))
    BY <1>3 DEF Scanning, Sound
  <2>2. n \in 1..Len(lines)+1
    BY <1>1
  <2>3. n \in HeadsOf(lines) <=> lines[n].tokens # <<>> /\ open = <<>>
    BY <2>1, <2>2, HeadHere
  <2> QED BY <2>1, <2>3 DEF IsBlank
<1>4. CASE Continue(n)
  <2>1. /\ IsBlank(n) \/ open # <<>>
        /\ indents' = indents /\ layout' = layout /\ reports' = reports \cup {} \cup Delimit(n).reports
    BY <1>4 DEF Continue
  <2>2. Balanced(layout, indents, n + 1)
    <3>1. ASSUME NEW k \in 1..Len(layout) PROVE layout[k].line < n + 1
      <4>1. layout[k] \in Elements /\ layout[k].line < n
        BY <1>2 DEF Balanced
      <4> QED BY <1>1, <4>1 DEF Elements
    <3>2. \A j \in Nat : j >= (n + 1) - 1 => j >= n - 1
      BY <1>1
    <3> QED BY <1>2, <3>1, <3>2 DEF Balanced
  <2>3. ASSUME LayoutSound PROVE Nested(lines, n + 1, indents) /\ Ranked(lines, n + 1, layout)
    <3>1. n \notin HeadsOf(lines)
      BY <1>3, <2>1, <2>3
    <3>2. Nested(lines, n + 1, indents)
      BY <1>3, <2>3, <3>1, NestedSkips
    <3>3. HeadsBefore(lines, n + 1) = HeadsBefore(lines, n)
      BY <3>1, HeadsNext
    <3> QED BY <1>3, <2>3, <3>2, <3>3 DEF Ranked
  <2> QED BY <1>2, <2>1, <2>2, <2>3
<1>5. CASE Deepen(n) \/ Return(n)
  <2>1. PICK found : reports' = reports \cup found \cup Delimit(n).reports /\ Advances(n, found)
    BY <1>2, <1>5, DeepenAdvances, ReturnAdvances
  <2>2. ~ IsBlank(n) /\ open = <<>>
    BY <1>5 DEF Deepen, Return
  <2>3. ASSUME LayoutSound
        PROVE  \/ found = {} /\ Nested(lines, n + 1, indents') /\ Ranked(lines, n + 1, layout')
               \/ found # {} /\ ~ Regular(lines)
    <3>1. n \in HeadsOf(lines) /\ Nested(lines, n, indents) /\ Ranked(lines, n, layout)
          /\ (expecting <=> Colon(lines, n - 1))
      BY <1>3, <2>2, <2>3
    <3>2. /\ found = {} <=> Placed(lines, n)
          /\ found = {} => Nested(lines, n + 1, indents') /\ Ranked(lines, n + 1, layout')
      BY <2>1, <3>1 DEF Advances
    <3>3. ~ Placed(lines, n) => ~ Regular(lines)
      BY <3>1 DEF Regular
    <3> QED BY <3>2, <3>3
  <2>4. /\ \A r \in found : r.code \in LayoutCodes
        /\ Rising(indents') /\ Balanced(layout', indents', n + 1)
    BY <2>1 DEF Advances
  <2> QED BY <2>1, <2>3, <2>4
<1> QED
  BY <1>4, <1>5

LEMMA LineKeepsInv == TextInv /\ ScanLine => TextInv'
<1> SUFFICES ASSUME TextInv, ScanLine PROVE TextInv'
  OBVIOUS
<1> DEFINE n == next
<1>1. /\ lines \in Seq(SourceLine) /\ lines' = lines /\ parsing = "layout" /\ parsing' = "layout" /\ Scanning
      /\ next' = n + 1 /\ open' = Delimit(n).open
      /\ expecting' = IF IsBlank(n) \/ open' # <<>> THEN expecting ELSE Last(Seen(lines[n].tokens)) = ":"
      /\ Continue(n) \/ Deepen(n) \/ Return(n)
  BY DEF TextInv, ScanLine
<1>2. n \in 1..Len(lines) /\ Len(lines) \in Nat /\ DOMAIN lines = 1..Len(lines) /\ open \in Seq(Opened)
  BY <1>1, LinesTyped DEF Scanning, ScanLine
<1> DEFINE more == Delimit(n).reports
           rest == Delimit(n).open
<1>3. /\ rest \in Seq(Opened) /\ more \in SUBSET LayoutReports
      /\ IsBlank(n) => rest = open
  BY <1>1, <1>2, DelimitTyped DEF IsBlank
<1>4. PICK found :
        /\ reports' = reports \cup found \cup more
        /\ \A r \in found : r.code \in LayoutCodes
        /\ Rising(indents') /\ Balanced(layout', indents', n + 1)
        /\ LayoutSound =>
             \/ found = {} /\ Nested(lines, n + 1, indents') /\ Ranked(lines, n + 1, layout')
             \/ found # {} /\ ~ Regular(lines)
  BY <1>1, <1>2, LevelStep
<1>5. LayoutSound' <=> LayoutSound /\ found = {} /\ more = {}
  <2>1. \A r \in more : r.code \in LayoutCodes
    BY <1>3 DEF LayoutReports
  <2> HIDE DEF more
  <2> QED BY <1>4, <2>1 DEF LayoutSound
<1>6. LayoutSound => \/ more = {} /\ Delved(lines, n + 1, rest)
                     \/ more # {} /\ ~ Regular(lines)
  <2>1. LayoutSound => Delved(lines, n, open)
    BY <1>1 DEF Scanning, Sound
  <2> QED BY <1>1, <1>2, <2>1, DelvedOn
<1>7. ASSUME LayoutSound, rest = <<>> PROVE expecting' <=> Colon(lines, n)
  <2>1. IsBlank(n) => (Colon(lines, n) <=> Colon(lines, n - 1))
    BY <1>1, <1>2, ColonSteps DEF IsBlank
  <2>2. ~ IsBlank(n) => (Colon(lines, n) <=> Last(Seen(lines[n].tokens)) = ":")
    BY <1>1, <1>2, ColonSteps DEF IsBlank
  <2>3. open = <<>> => (expecting <=> Colon(lines, n - 1))
    BY <1>1, <1>7 DEF Scanning, Sound
  <2>4. CASE IsBlank(n)
    <3>1. expecting' = expecting /\ open = <<>>
      BY <1>1, <1>3, <1>7, <2>4
    <3> QED BY <2>1, <2>3, <2>4, <3>1
  <2>5. CASE ~ IsBlank(n)
    <3>1. expecting' = (Last(Seen(lines[n].tokens)) = ":")
      BY <1>1, <1>7, <2>5
    <3> QED BY <2>2, <2>5, <3>1
  <2> QED BY <2>4, <2>5
<1> HIDE DEF more, rest
<1>8. (n + 1) - 1 = n /\ n + 1 \in 1..Len(lines)+1
  BY <1>2
<1>9. ASSUME LayoutSound' PROVE Sound(lines, n + 1, indents', rest, expecting', layout')
  <2>1. Delved(lines, n + 1, rest) /\ Nested(lines, n + 1, indents') /\ Ranked(lines, n + 1, layout')
    BY <1>4, <1>5, <1>6, <1>9
  <2>2. rest = <<>> => (expecting' <=> Colon(lines, (n + 1) - 1))
    BY <1>5, <1>7, <1>8, <1>9
  <2> QED BY <2>1, <2>2 DEF Sound
<1>10. ASSUME ~ LayoutSound' PROVE ~ Regular(lines)
  <2>1. ~ LayoutSound => ~ Regular(lines)
    BY <1>1 DEF Scanning
  <2> QED BY <1>4, <1>5, <1>6, <1>10, <2>1
<1>11. Scanning'
  <2>1. open' = rest /\ next' = n + 1 /\ lines' = lines
    BY <1>1 DEF rest
  <2>2. next' \in 1..Len(lines')+1 /\ open' \in Seq(Opened) /\ Rising(indents')
        /\ Balanced(layout', indents', next')
    BY <1>3, <1>4, <1>8, <2>1
  <2>3. LayoutSound' => Sound(lines', next', indents', open', expecting', layout')
    BY <1>9, <2>1
  <2>4. ~ LayoutSound' => ~ Regular(lines')
    BY <1>10, <2>1
  <2> QED BY <2>2, <2>3, <2>4 DEF Scanning
<1> QED
  BY <1>1, <1>11 DEF TextInv, LayoutExact

(* The text is read once.                                                  *)
LEMMA SameText ==
  ASSUME lines' = lines
  PROVE  /\ Delimited(Scanned)' <=> Delimited(Scanned)
         /\ LaidOut(Scanned)' <=> LaidOut(Scanned)
         /\ Heads(Scanned)' = Heads(Scanned)
<1>1. Scanned' = Scanned
  BY DEF Scanned
<1>2. Heads(Scanned)' = Heads(Scanned)
  BY <1>1 DEF Heads, IsBlank
<1>3. Delimited(Scanned)' <=> Delimited(Scanned)
  BY <1>1 DEF Delimited
<1>4. LaidOut(Scanned)' <=> LaidOut(Scanned)
  BY <1>1, <1>2 DEF LaidOut, Announces, Entire, Following, Heads, IsBlank
<1> QED
  BY <1>2, <1>3, <1>4

LEMMA ConcatAssociates ==
  ASSUME NEW T, NEW p \in Seq(T), NEW q \in Seq(T), NEW r \in Seq(T)
  PROVE  (p \o q) \o r = p \o (q \o r)
OBVIOUS

(* At the end of the text all levels end.                                  *)
LEMMA EndBalanced ==
  ASSUME NEW n \in Nat \ {0}, NEW lay, NEW ind, Balanced(lay, ind, n), Rising(ind),
         NEW absent, OneKind(absent, "Missing", n),
         NEW ends, OneKind(ends, "Dedent", n), Len(ends) = Len(ind) - 1,
         NEW closers, OneKind(closers, "Closer", n),
         NEW all, all = ((lay \o absent) \o ends) \o closers
  PROVE  Balanced(all, <<0>>, n + 1) /\ Before(lay, all, n)
<1> DEFINE tail == ends \o closers
           b    == absent \o tail
           new  == <<0>>
<1>1. n \in Nat
  OBVIOUS
<1>2. lay \in Seq(Elements) /\ ind \in Seq(Nat) /\ Len(ind) \in Nat /\ Len(ind) >= 1
  BY DEF Balanced, Rising
<1>3. /\ AtLine(absent, n) /\ absent \in Seq(Elements)
      /\ AtLine(ends, n) /\ ends \in Seq(Elements) /\ Len(ends) \in Nat
      /\ AtLine(closers, n) /\ closers \in Seq(Elements)
  BY <1>1, OneKindIs
<1>4. tail \in Seq(Elements) /\ AtLine(tail, n)
  BY <1>3, Joined
<1>m. ASSUME NEW p \in Seq(Elements), NEW q \in Seq(Elements), NEW kinds, NEW j \in Nat
      PROVE  Marks(p \o q, kinds, j) = Marks(p, kinds, j) + Marks(q, kinds, j)
  BY ONLY MarksAppend
<1>5. \A kinds : \A j \in Nat : Marks(tail, kinds, j) = Marks(ends, kinds, j) + Marks(closers, kinds, j)
  BY <1>3, <1>m
<1>6. all = (lay \o absent) \o tail
  <2> DEFINE p == lay \o absent
  <2>1. p \in Seq(Elements) /\ all = (p \o ends) \o closers
    BY <1>2, <1>3
  <2> HIDE DEF p
  <2>2. (p \o ends) \o closers = p \o (ends \o closers)
    BY <1>3, <2>1, ConcatAssociates
  <2> QED BY <2>1, <2>2 DEF p
<1> HIDE DEF tail
<1>7. AtLine(b, n)
  BY <1>3, <1>4, Joined
<1>8. all = lay \o b
  <2>1. lay \in Seq(Elements) /\ absent \in Seq(Elements) /\ tail \in Seq(Elements)
    BY <1>2, <1>3, <1>4
  <2>2. (lay \o absent) \o tail = lay \o (absent \o tail)
    BY ONLY <2>1, ConcatAssociates
  <2> QED BY <1>6, <2>2
<1>9. \A kinds : \A j \in Nat : Marks(b, kinds, j) = Marks(absent, kinds, j) + Marks(tail, kinds, j)
  BY <1>3, <1>4, <1>m
<1> HIDE DEF b
<1>10. ASSUME NEW j \in Nat, n <= j
       PROVE  /\ Marks(absent, Begun, j) = 0 /\ Marks(absent, {"Dedent"}, j) = 0
              /\ Marks(ends, Begun, j) = 0 /\ Marks(ends, {"Dedent"}, j) = Len(ends)
              /\ Marks(closers, Begun, j) = 0 /\ Marks(closers, {"Dedent"}, j) = 0
  <2>1. /\ "Missing" \notin Begun /\ "Missing" \notin {"Dedent"}
        /\ "Dedent" \notin Begun /\ "Dedent" \in {"Dedent"}
        /\ "Closer" \notin Begun /\ "Closer" \notin {"Dedent"}
    BY DEF Begun
  <2>2. Marks(absent, Begun, j) = 0 /\ Marks(absent, {"Dedent"}, j) = 0
    BY <1>1, <1>10, <2>1, MarksOf
  <2>3. Marks(ends, Begun, j) = 0 /\ Marks(ends, {"Dedent"}, j) = Len(ends)
    BY <1>1, <1>10, <2>1, MarksOf
  <2>4. Marks(closers, Begun, j) = 0 /\ Marks(closers, {"Dedent"}, j) = 0
    BY <1>1, <1>10, <2>1, MarksOf
  <2> QED BY <2>2, <2>3, <2>4
<1>11. Len(new) = 1
  OBVIOUS
<1> HIDE DEF new
<1>12. ASSUME NEW j \in Nat, j >= n
       PROVE  Marks(b, Begun, j) + Len(ind) = Marks(b, {"Dedent"}, j) + Len(new)
  <2>1. n <= j
    BY <1>12
  <2>2. Marks(b, Begun, j) = 0 + (0 + 0) /\ Marks(b, {"Dedent"}, j) = 0 + (Len(ends) + 0)
    BY <1>5, <1>9, <1>10, <2>1
  <2> QED BY <1>2, <1>3, <1>11, <2>2
<1>13. Balanced(lay \o b, new, n + 1) /\ Before(lay, lay \o b, n)
  <2>1. Len(ind) \in Nat /\ Len(new) \in Nat /\ n \in Nat \ {0}
    BY <1>2, <1>11
  <2>2. \A j \in Nat : j >= n => Marks(b, Begun, j) + Len(ind) = Marks(b, {"Dedent"}, j) + Len(new)
    BY <1>12
  <2>3. Balanced(lay, ind, n)
    OBVIOUS
  <2> QED BY ONLY <2>1, <2>2, <2>3, <1>7, BalancedOn
<1> QED
  BY <1>8, <1>13 DEF new

LEMMA EndKeepsInv == TextInv /\ EndScan => TextInv'
<1> SUFFICES ASSUME TextInv, EndScan PROVE TextInv'
  OBVIOUS
<1> DEFINE n       == next
           missing == expecting /\ open = <<>>
           absent  == IF missing THEN <<Element("Missing", n)>> ELSE <<>>
           ends    == [k \in 1 .. Len(indents) - 1 |-> Element("Dedent", n)]
           closers == [k \in DOMAIN open |-> Element("Closer", n)]
           last    == Len(lines) + 1
<1>1. /\ lines \in Seq(SourceLine) /\ lines' = lines /\ parsing = "layout" /\ parsing' = "declarations" /\ Scanning
      /\ reports' = reports
           \cup (IF missing THEN {Report("missing_block", End)} ELSE {})
           \cup {[Report("missing_closer", End) EXCEPT !.opener = open[k].at] : k \in DOMAIN open}
      /\ layout' = ((layout \o absent) \o ends) \o closers
  BY DEF TextInv, EndScan
<1>2. /\ Len(lines) \in Nat /\ DOMAIN lines = 1..Len(lines) /\ n = last /\ n \in Nat /\ n \in Nat \ {0}
      /\ n - 1 = Len(lines)
  BY <1>1, LinesTyped DEF Scanning, EndScan
<1>n. n \in Nat
  BY <1>2
<1>h. HeadsOf(lines) \subseteq 1..Len(lines)
  BY <1>1, <1>n, HeadsTyped
<1>3. /\ open \in Seq(Opened) /\ Rising(indents) /\ Balanced(layout, indents, n) /\ layout \in Seq(Elements)
      /\ indents \in Seq(Nat) /\ Len(indents) \in Nat /\ Len(indents) >= 1
  BY <1>1 DEF Scanning, Balanced, Rising
<1>7. ~ missing /\ open = <<>> <=> reports' = reports \cup {} /\ ~ missing /\ open = <<>>
  <2>1. open = <<>> => DOMAIN open = {}
    BY <1>3
  <2> QED BY <1>1, <2>1
<1>8. missing \/ open # <<>> => \E r \in reports' : r.code \in LayoutCodes
  <2>1. ASSUME missing PROVE \E r \in reports' : r.code \in LayoutCodes
    <3>1. Report("missing_block", End) \in reports' /\ Report("missing_block", End).code \in LayoutCodes
      BY <1>1, <2>1 DEF Report, LayoutCodes
    <3> QED BY <3>1
  <2>2. ASSUME open # <<>> PROVE \E r \in reports' : r.code \in LayoutCodes
    <3> DEFINE r == [Report("missing_closer", End) EXCEPT !.opener = open[1].at]
    <3>1. 1 \in DOMAIN open
      BY <1>3, <2>2
    <3>2. r \in reports' /\ r.code \in LayoutCodes
      BY <1>1, <3>1 DEF Report, LayoutCodes
    <3> QED BY <3>2
  <2> QED BY <2>1, <2>2
<1>9. reports \subseteq reports'
  BY <1>1
<1>10. LayoutSound' <=> LayoutSound /\ ~ missing /\ open = <<>>
  <2>1. LayoutSound' => LayoutSound /\ ~ missing /\ open = <<>>
    BY <1>8, <1>9 DEF LayoutSound
  <2>2. LayoutSound /\ ~ missing /\ open = <<>> => LayoutSound'
    BY <1>7 DEF LayoutSound
  <2> QED BY <2>1, <2>2
<1>11. LayoutSound' <=> Regular(lines)
  <2>1. CASE ~ LayoutSound
    BY <1>1, <1>10, <2>1 DEF Scanning
  <2>2. CASE LayoutSound
    <3>1. /\ Delved(lines, n, open) /\ Ranked(lines, n, layout)
          /\ open = <<>> => (expecting <=> Colon(lines, n - 1))
      BY <1>1, <2>2 DEF Scanning, Sound
    <3>2. open = <<>> <=> Nesting(Sofar(lines, n - 1)) = 0
      <4>1. n \in 1..Len(lines)+1
        BY <1>2
      <4> HIDE DEF n
      <4> QED BY <1>1, <3>1, <4>1, HeadHere
    <3>3. Sofar(lines, n - 1) = FlattenSeq(SeenLines(lines))
      BY <1>1, <1>2, SofarSteps
    <3>4. HeadsBefore(lines, n) = HeadsOf(lines)
      <4>1. \A i \in HeadsOf(lines) : i < n
        BY <1>2, <1>h
      <4> QED BY <4>1 DEF HeadsBefore
    <3>5. \A i \in HeadsOf(lines) : Placed(lines, i)
      BY <3>1, <3>4 DEF Ranked
    <3>6. LET all == FlattenSeq(SeenLines(lines)) IN \A k \in 1..Len(all) : Allowed(all, k)
      BY <3>1, <3>3 DEF Delved
    <3> QED BY <1>2, <1>10, <2>2, <3>1, <3>2, <3>3, <3>5, <3>6 DEF Regular
  <2> QED BY <2>1, <2>2
<1> HIDE DEF absent, ends, closers
<1>12. Balanced(layout', <<0>>, n + 1) /\ Before(layout, layout', n)
  <2>1. OneKind(closers, "Closer", n)
    <3>1. Len(open) \in Nat /\ closers = [k \in 1..Len(open) |-> Element("Closer", n)]
      BY <1>3 DEF closers
    <3> HIDE DEF n
    <3> QED BY <1>n, <3>1, Repeated
  <2>2. OneKind(ends, "Dedent", n) /\ Len(ends) = Len(indents) - 1
    <3> DEFINE d == Len(indents) - 1
    <3>1. d \in Nat /\ ends = [k \in 1..d |-> Element("Dedent", n)]
      BY <1>3 DEF ends
    <3> HIDE DEF d, n
    <3> QED BY <1>n, <3>1, Repeated DEF d
  <2>3. OneKind(absent, "Missing", n)
    <3> HIDE DEF n
    <3> QED BY <1>n, OneKindOf DEF absent
  <2>4. n \in Nat \ {0}
    BY <1>2
  <2> HIDE DEF n
  <2>5. layout' = ((layout \o absent) \o ends) \o closers /\ Balanced(layout, indents, n) /\ Rising(indents)
    BY <1>1, <1>3
  <2> QED BY <2>1, <2>2, <2>3, <2>4, <2>5, EndBalanced
<1>16. Marks(layout', Begun, last) = Marks(layout', {"Dedent"}, last)
  <2>1. last \in Nat /\ last >= (n + 1) - 1
    BY <1>2
  <2>2. Marks(layout', Begun, last) = Marks(layout', {"Dedent"}, last) + Len(<<0>>) - 1
    BY <1>12, <2>1 DEF Balanced
  <2>3. layout' \in Seq(Elements)
    BY <1>12 DEF Balanced
  <2>4. Marks(layout', {"Dedent"}, last) \in Nat
    BY <2>1, <2>3, MarksAppend
  <2>5. Len(<<0>>) = 1
    OBVIOUS
  <2> QED BY <2>2, <2>4, <2>5
<1>17. ASSUME LayoutSound', NEW i \in HeadsOf(lines)
       PROVE  lines[i].indent = 4 * (Marks(layout', {"Indent"}, i) - Marks(layout', {"Dedent"}, i))
  <2>1. i \in Nat /\ i < n /\ i \in HeadsBefore(lines, n)
    BY <1>2, <1>h DEF HeadsBefore
  <2>2. lines[i].indent = 4 * (Marks(layout, {"Indent"}, i) - Marks(layout, {"Dedent"}, i))
    BY <1>1, <1>10, <1>17, <2>1 DEF Scanning, Sound, Ranked
  <2> QED BY <1>12, <2>1, <2>2 DEF Before
<1>18. LayoutExact'
  <2>1. /\ Delimited(Scanned)' <=> Delimited(Scanned)
        /\ LaidOut(Scanned)' <=> LaidOut(Scanned)
        /\ Heads(Scanned)' = HeadsOf(lines)
    BY <1>1, SameText, HeadsScanned
  <2>2. LayoutSound' <=> Delimited(Scanned) /\ LaidOut(Scanned)
    BY <1>1, <1>11, RegularExact
  <2>3. /\ \A kinds, i : Count(kinds, i)' = Marks(layout', kinds, i)
        /\ lines' = lines /\ last = Len(lines') + 1
    BY <1>1 DEF Count, Marks
  <2> QED BY <1>16, <1>17, <2>1, <2>2, <2>3 DEF LayoutExact, Begun
<1> QED
  BY <1>1, <1>18 DEF TextInv

-----------------------------------------------------------------------------
(***************************************************************************)
(* After the scan: what else is reported is not of the layout.             *)
(***************************************************************************)

Adds(old, new) == old \subseteq new /\ \A r \in new \ old : r.code \notin LayoutCodes

Shaped(f) == \E r, k, p : f = [reports |-> r, kept |-> k, parsed |-> p]

Keeps(f, g) == Shaped(f) /\ Shaped(g) /\ Adds(f.reports, g.reports)

LEMMA ShapedIs ==
  ASSUME NEW r, NEW k, NEW p, NEW f, f = [reports |-> r, kept |-> k, parsed |-> p]
  PROVE  Shaped(f) /\ f.reports = r
BY DEF Shaped

LEMMA KeepsOn ==
  ASSUME NEW f, NEW g, Keeps(f, g)
  PROVE  Keeps(f, f) /\ \A h : Keeps(g, h) => Keeps(f, h)
BY DEF Keeps, Adds

LEMMA AddsMalformed ==
  ASSUME NEW old, NEW more,
         \A r \in more : r.code \in {"malformed_declaration", "malformed_import", "import_after_declaration",
                                     "malformed_comptime_assertion", "malformed_comptime_selection",
                                     "unexpected_top_level"}
  PROVE  Adds(old, old \cup more)
BY DEF Adds, LayoutCodes

LEMMA ReadKeeps ==
  ASSUME NEW d, NEW f, Shaped(f), NEW to
  PROVE  Keeps(f, Read(d, f, to))
<1>1. PICK r, k, p : f = [reports |-> r, kept |-> k, parsed |-> p]
  BY DEF Shaped
<1>2. CASE to # Refused
  <2>1. Read(d, f, to) = [reports |-> r, kept |-> k \cup (d.first .. to - 1), parsed |-> TRUE]
    BY <1>1, <1>2 DEF Read
  <2>2. Shaped(Read(d, f, to)) /\ Read(d, f, to).reports = f.reports
    BY <1>1, <2>1, ShapedIs
  <2> QED BY <2>2 DEF Keeps, Adds
<1>3. CASE to = Refused
  <2> DEFINE more == IF Evidence(d, r) THEN {} ELSE {Report("malformed_declaration", LineStart(d.first))}
  <2>1. Read(d, f, to) = [reports |-> r \cup more, kept |-> k, parsed |-> FALSE]
    BY <1>1, <1>3 DEF Read
  <2>2. Adds(r, r \cup more)
    <3>1. \A x \in more : x.code = "malformed_declaration"
      BY DEF Report
    <3> HIDE DEF more
    <3> QED BY <3>1, AddsMalformed
  <2>3. Shaped(Read(d, f, to)) /\ Read(d, f, to).reports = r \cup more /\ f.reports = r
    BY <1>1, <2>1, ShapedIs
  <2> QED BY <2>2, <2>3 DEF Keeps
<1> QED
  BY <1>2, <1>3

LEMMA ParseKeeps ==
  ASSUME NEW d, NEW f, Shaped(f)
  PROVE  Keeps(f, Parse(d, f))
<1> DEFINE normal == Normalised(d.kind, TokenLines(d.first, d.end))
<1>1. CASE normal = <<>>
  <2>1. PICK r, k, p : f = [reports |-> r, kept |-> k, parsed |-> p]
    BY DEF Shaped
  <2>2. Parse(d, f) = [reports |-> r, kept |-> k, parsed |-> FALSE]
    BY <1>1, <2>1 DEF Parse
  <2>3. Shaped(Parse(d, f)) /\ Parse(d, f).reports = f.reports
    BY <2>1, <2>2, ShapedIs
  <2> QED BY <2>3 DEF Keeps, Adds
<1>2. CASE normal # <<>>
  <2>1. Parse(d, f) = Read(d, f, ReadTo(d.kind, normal, d.end))
    BY <1>2 DEF Parse
  <2> HIDE DEF normal
  <2> QED BY <2>1, ReadKeeps
<1> QED
  BY <1>1, <1>2

LEMMA ReportsMore ==
  ASSUME NEW f, Shaped(f), NEW more,
         \A r \in more : r.code \in {"malformed_declaration", "malformed_comptime_selection"}
  PROVE  /\ Keeps(f, [f EXCEPT !.reports = @ \cup more])
         /\ \A k : Keeps(f, [reports |-> f.reports \cup more, kept |-> k, parsed |-> f.parsed])
<1>1. PICK r, k, p : f = [reports |-> r, kept |-> k, parsed |-> p]
  BY DEF Shaped
<1>2. Adds(r, r \cup more)
  BY AddsMalformed
<1>3. ASSUME NEW g, NEW l, g = [reports |-> r \cup more, kept |-> l, parsed |-> p] PROVE Keeps(f, g)
  <2>1. Shaped(g) /\ g.reports = r \cup more /\ f.reports = r
    BY <1>1, <1>3, ShapedIs
  <2> QED BY <1>2, <2>1 DEF Keeps
<1>4. [f EXCEPT !.reports = @ \cup more] = [reports |-> r \cup more, kept |-> k, parsed |-> p]
  BY <1>1
<1> QED
  BY <1>1, <1>3, <1>4

LEMMA BranchEndIs ==
  ASSUME lines \in Seq(SourceLine), NEW i \in AtMargin
  PROVE  i \in 1..Len(lines) /\ Len(lines) \in Nat /\ BranchEnd(i) \in Nat /\ i <= BranchEnd(i) - 1
<1> DEFINE S == {j \in AtMargin : j > i} \cup {Len(lines) + 1}
<1>1. Len(lines) \in Nat /\ DOMAIN lines = 1..Len(lines)
  BY LinesTyped
<1>2. AtMargin \subseteq 1..Len(lines) /\ i \in 1..Len(lines)
  BY <1>1 DEF AtMargin
<1>3. ASSUME NEW j \in S PROVE j \in Nat /\ j > i
  <2>1. CASE j \in AtMargin
    <3>1. j \in 1..Len(lines) /\ (j > i \/ j = Len(lines) + 1)
      BY <1>2, <2>1
    <3> QED BY <1>1, <3>1
  <2>2. CASE j = Len(lines) + 1
    BY <1>1, <1>2, <2>2
  <2> QED BY <2>1, <2>2
<1>4. BranchEnd(i) = Min(S) /\ Len(lines) + 1 \in S
  BY DEF BranchEnd
<1> HIDE DEF S
<1>5. Min(S) \in S
  <2>1. S \subseteq Nat /\ S # {}
    BY <1>3, <1>4
  <2> QED BY <2>1, MinMember
<1>6. BranchEnd(i) \in Nat /\ BranchEnd(i) > i
  BY <1>3, <1>4, <1>5
<1> QED
  BY <1>1, <1>2, <1>6

LEMMA BranchKeeps ==
  ASSUME lines \in Seq(SourceLine), NEW i \in AtMargin, NEW found, Shaped(found)
  PROVE  Keeps(found, BranchDeclarations(i, found))
<1> DEFINE end     == BranchEnd(i)
           members == {j \in i + 1 .. end - 1 : lines[j].indent = 4 /\ FirstOf(j) \in Keywords}
           starts  == {j \in members : Len(lines[j].tokens) > 1}
           At(j)   == [kind |-> FirstOf(j), first |-> j, end |-> Min({k \in starts : k > j} \cup {end})]
           unnamed == {Report("malformed_declaration", LineStart(j)) : j \in members \ starts}
           empty   == IF starts = {} THEN {Report("malformed_comptime_selection", LineStart(i))} ELSE {}
           Taken(j, read) == IF j \in starts THEN Parse(At(j), read) ELSE read
           First   == [reports |-> found.reports \cup unnamed, kept |-> found.kept \cup {i},
                       parsed |-> found.parsed]
           IsParsed(f) == f = [j \in i .. end - 1 |-> IF j = i THEN First ELSE Taken(j, f[j - 1])]
           parsed  == CHOOSE f : IsParsed(f)
<1>1. i \in Nat /\ end \in Nat /\ i <= end - 1
  BY BranchEndIs
<1>2. BranchDeclarations(i, found) = [parsed[end - 1] EXCEPT !.reports = @ \cup empty]
  BY DEF BranchDeclarations
<1>3. Keeps(found, First)
  <2>1. \A x \in unnamed : x.code = "malformed_declaration"
    BY DEF Report
  <2> HIDE DEF unnamed
  <2> QED BY <2>1, ReportsMore
<1>4. \A j, f : Shaped(f) => Keeps(f, Taken(j, f))
  <2> SUFFICES ASSUME NEW j, NEW f, Shaped(f) PROVE Keeps(f, Taken(j, f))
    OBVIOUS
  <2>1. CASE j \in starts
    <3> HIDE DEF starts
    <3>1. Taken(j, f) = Parse(At(j), f)
      BY <2>1
    <3> HIDE DEF At, Taken
    <3> QED BY <3>1, ParseKeeps
  <2>2. CASE j \notin starts
    <3> HIDE DEF starts
    <3>1. Taken(j, f) = f
      BY <2>2
    <3> QED BY <3>1 DEF Keeps, Adds
  <2> QED BY <2>1, <2>2
<1>5. \A x \in empty : x.code = "malformed_comptime_selection"
  BY DEF Report
<1> HIDE DEF end, First, Taken, empty
<1>6. \E f : IsParsed(f)
  <2> DEFINE n == end - 1 - i
             G == {d \in 0..n : \E f : f = [j \in i..i+d |-> IF j = i THEN First ELSE Taken(j, f[j - 1])]}
  <2>0. n \in Nat
    BY <1>1
  <2>1. 0 \in G
    <3> DEFINE f == [j \in i..i+0 |-> First]
    <3>1. f = [j \in i..i+0 |-> IF j = i THEN First ELSE Taken(j, f[j - 1])]
      BY <1>1
    <3>2. 0 \in 0..n
      BY <2>0
    <3> QED BY <3>1, <3>2
  <2>2. ASSUME NEW d \in 1..n, d - 1 \in G PROVE d \in G
    <3>1. PICK f : f = [j \in i..i+(d-1) |-> IF j = i THEN First ELSE Taken(j, f[j - 1])]
      BY <2>2
    <3> DEFINE h == [j \in i..i+d |-> IF j < i + d THEN f[j] ELSE Taken(j, f[j - 1])]
    <3>2. \A j \in i..i+(d-1) : f[j] = IF j = i THEN First ELSE Taken(j, f[j - 1])
      BY <3>1
    <3>3. ASSUME NEW j \in i..i+d
          PROVE  h[j] = IF j = i THEN First ELSE Taken(j, h[j - 1])
      <4>1. j > i => h[j - 1] = f[j - 1]
        BY <1>1, <2>0
      <4>2. CASE j < i + d
        <5>1. j \in i..i+(d-1) /\ h[j] = f[j]
          BY <1>1, <2>0, <4>2
        <5>2. f[j] = IF j = i THEN First ELSE Taken(j, f[j - 1])
          BY <3>2, <5>1
        <5> HIDE DEF h
        <5>3. CASE j = i
          BY <5>1, <5>2, <5>3
        <5>4. CASE j > i
          BY <4>1, <5>1, <5>2, <5>4
        <5> QED BY <1>1, <5>1, <5>3, <5>4
      <4>3. CASE j = i + d
        <5>1. j > i /\ h[j] = Taken(j, f[j - 1])
          BY <1>1, <2>0, <4>3
        <5> HIDE DEF h
        <5> QED BY <1>1, <4>1, <5>1
      <4> QED BY <1>1, <2>0, <4>2, <4>3
    <3>4. h = [j \in i..i+d |-> IF j = i THEN First ELSE Taken(j, h[j - 1])]
      <4>1. h = [j \in i..i+d |-> h[j]]
        OBVIOUS
      <4> HIDE DEF h
      <4> QED BY <3>3, <4>1
    <3>5. d \in 0..n
      BY <2>0
    <3> QED BY <3>4, <3>5
  <2> HIDE DEF G
  <2>3. n \in G
    BY <2>0, <2>1, <2>2, Upto
  <2>4. \E f : f = [j \in i..i+n |-> IF j = i THEN First ELSE Taken(j, f[j - 1])]
    BY <2>3 DEF G
  <2>5. i + n = end - 1
    BY <1>1
  <2> HIDE DEF n
  <2> QED BY <2>4, <2>5
<1>7. IsParsed(parsed)
  BY <1>6
<1> HIDE DEF parsed
<1>8. \A j \in i..end-1 : parsed[j] = IF j = i THEN First ELSE Taken(j, parsed[j - 1])
  BY <1>7
<1> HIDE DEF IsParsed
<1>9. Keeps(found, parsed[end - 1])
  <2> DEFINE n == end - 1 - i
             G == {d \in 0..n : Keeps(found, parsed[i + d])}
  <2>0. n \in Nat /\ 0 \in 0..n
    BY <1>1
  <2>1. 0 \in G
    <3>1. i \in i..end-1 /\ i + 0 = i
      BY <1>1
    <3>2. parsed[i + 0] = First
      BY <1>8, <3>1
    <3> QED BY <1>3, <2>0, <3>2
  <2>2. ASSUME NEW d \in 1..n, d - 1 \in G PROVE d \in G
    <3>1. i + d \in i..end-1 /\ i + d # i /\ (i + d) - 1 = i + (d - 1) /\ d \in 0..n
      BY <1>1, <2>0
    <3>2. parsed[i + d] = Taken(i + d, parsed[i + (d - 1)])
      BY <1>8, <3>1
    <3>3. Keeps(found, parsed[i + (d - 1)])
      BY <2>2
    <3>4. Keeps(parsed[i + (d - 1)], Taken(i + d, parsed[i + (d - 1)]))
      BY <1>4, <3>3 DEF Keeps
    <3>5. Keeps(found, Taken(i + d, parsed[i + (d - 1)]))
      BY <3>3, <3>4, KeepsOn
    <3> QED BY <3>1, <3>2, <3>5
  <2> HIDE DEF G
  <2>3. n \in G
    BY <2>0, <2>1, <2>2, Upto
  <2>4. Keeps(found, parsed[i + n])
    BY <2>3 DEF G
  <2>5. i + n = end - 1
    BY <1>1
  <2> HIDE DEF n
  <2> QED BY <2>4, <2>5
<1>10. ASSUME NEW f, Shaped(f) PROVE Keeps(f, [f EXCEPT !.reports = @ \cup empty])
  BY <1>5, <1>10, ReportsMore
<1>11. Keeps(parsed[end - 1], BranchDeclarations(i, found))
  <2>1. Shaped(parsed[end - 1])
    BY <1>9 DEF Keeps
  <2> QED BY <1>2, <1>10, <2>1
<1> QED
  BY <1>9, <1>11, KeepsOn

LEMMA SelectionsKeep ==
  ASSUME lines \in Seq(SourceLine), NEW found, Shaped(found)
  PROVE  Keeps(found, SelectionsRead(found))
<1> DEFINE n == Len(lines)
           Line(i, before) == IF i \in AtMargin /\ IsBranch(i) THEN SelectionBranch(i, before) ELSE before
           IsRead(f) == f = [i \in 0 .. n |-> IF i = 0 THEN found ELSE Line(i, f[i - 1])]
           read == CHOOSE f : IsRead(f)
<1>1. n \in Nat
  BY LinesTyped
<1>2. SelectionsRead(found) = read[n]
  BY DEF SelectionsRead
<1>3. \A i, f : Shaped(f) => Keeps(f, Line(i, f))
  <2> SUFFICES ASSUME NEW i, NEW f, Shaped(f) PROVE Keeps(f, Line(i, f))
    OBVIOUS
  <2>1. CASE i \in AtMargin /\ IsBranch(i) /\ SelectionHeader(lines[i].tokens)
    <3>1. Line(i, f) = BranchDeclarations(i, f)
      BY <2>1 DEF SelectionBranch
    <3> QED BY <2>1, <3>1, BranchKeeps
  <2>2. CASE i \in AtMargin /\ IsBranch(i) /\ ~ SelectionHeader(lines[i].tokens)
    <3> DEFINE more == {Report("malformed_comptime_selection", LineStart(i))}
    <3>1. Line(i, f) = [f EXCEPT !.reports = @ \cup more]
      BY <2>2 DEF SelectionBranch
    <3>2. \A x \in more : x.code = "malformed_comptime_selection"
      BY DEF Report
    <3> HIDE DEF more, Line
    <3>3. Keeps(f, [f EXCEPT !.reports = @ \cup more])
      BY <3>2, ReportsMore
    <3> QED BY <3>1, <3>3
  <2>3. CASE ~ (i \in AtMargin /\ IsBranch(i))
    <3>1. Line(i, f) = f
      BY <2>3
    <3> QED BY <3>1 DEF Keeps, Adds
  <2> QED BY <2>1, <2>2, <2>3
<1> HIDE DEF Line
<1>4. \E f : IsRead(f)
  <2> DEFINE G == {d \in 0..n : \E f : f = [j \in 0..d |-> IF j = 0 THEN found ELSE Line(j, f[j - 1])]}
  <2>1. 0 \in G
    <3> DEFINE f == [j \in 0..0 |-> found]
    <3>1. f = [j \in 0..0 |-> IF j = 0 THEN found ELSE Line(j, f[j - 1])]
      OBVIOUS
    <3>2. 0 \in 0..n
      BY <1>1
    <3> QED BY <3>1, <3>2
  <2>2. ASSUME NEW d \in 1..n, d - 1 \in G PROVE d \in G
    <3>1. PICK f : f = [j \in 0..d-1 |-> IF j = 0 THEN found ELSE Line(j, f[j - 1])]
      BY <2>2
    <3> DEFINE h == [j \in 0..d |-> IF j < d THEN f[j] ELSE Line(j, f[j - 1])]
    <3>2. \A j \in 0..d-1 : f[j] = IF j = 0 THEN found ELSE Line(j, f[j - 1])
      BY <3>1
    <3>3. ASSUME NEW j \in 0..d
          PROVE  h[j] = IF j = 0 THEN found ELSE Line(j, h[j - 1])
      <4>1. j > 0 => h[j - 1] = f[j - 1]
        BY <1>1
      <4>2. CASE j < d
        <5>1. j \in 0..d-1 /\ h[j] = f[j]
          BY <1>1, <4>2
        <5>2. f[j] = IF j = 0 THEN found ELSE Line(j, f[j - 1])
          BY <3>2, <5>1
        <5> HIDE DEF h
        <5>3. CASE j = 0
          BY <5>1, <5>2, <5>3
        <5>4. CASE j > 0
          BY <4>1, <5>1, <5>2, <5>4
        <5> QED BY <1>1, <5>1, <5>3, <5>4
      <4>3. CASE j = d
        <5>1. j > 0 /\ h[j] = Line(j, f[j - 1])
          BY <1>1, <4>3
        <5> HIDE DEF h
        <5> QED BY <1>1, <4>1, <5>1
      <4> QED BY <1>1, <4>2, <4>3
    <3>4. h = [j \in 0..d |-> IF j = 0 THEN found ELSE Line(j, h[j - 1])]
      <4>1. h = [j \in 0..d |-> h[j]]
        OBVIOUS
      <4> HIDE DEF h
      <4> QED BY <3>3, <4>1
    <3>5. d \in 0..n
      BY <1>1
    <3> QED BY <3>4, <3>5
  <2> HIDE DEF G, n
  <2>3. n \in G
    BY <1>1, <2>1, <2>2, Upto
  <2> QED BY <2>3 DEF G
<1>5. IsRead(read)
  BY <1>4
<1> HIDE DEF read
<1>6. \A i \in 0..n : read[i] = IF i = 0 THEN found ELSE Line(i, read[i - 1])
  BY <1>5
<1> HIDE DEF IsRead
<1>7. Keeps(found, read[n])
  <2> DEFINE G == {d \in 0..n : Keeps(found, read[d])}
  <2>1. 0 \in G
    <3>1. 0 \in 0..n
      BY <1>1
    <3>2. read[0] = found
      BY <1>6, <3>1
    <3> QED BY <3>1, <3>2 DEF Keeps, Adds
  <2>2. ASSUME NEW d \in 1..n, d - 1 \in G PROVE d \in G
    <3>1. d \in 0..n /\ d # 0
      BY <1>1
    <3>2. read[d] = Line(d, read[d - 1])
      BY <1>6, <3>1
    <3>3. Keeps(found, read[d - 1])
      BY <2>2
    <3>4. Keeps(read[d - 1], Line(d, read[d - 1]))
      BY <1>3, <3>3 DEF Keeps
    <3>5. Keeps(found, Line(d, read[d - 1]))
      BY <3>3, <3>4, KeepsOn
    <3> QED BY <3>1, <3>2, <3>5
  <2> HIDE DEF G, n
  <2>3. n \in G
    BY <1>1, <2>1, <2>2, Upto
  <2> QED BY <2>3 DEF G
<1> QED
  BY <1>2, <1>7

(* What follows the scan leaves what is claimed of the layout as it is.    *)
LEMMA LaterKeeps ==
  ASSUME TextInv, lines' = lines, layout' = layout, parsing # "layout", parsing' # "layout",
         Adds(reports, reports')
  PROVE  TextInv'
<1>1. lines \in Seq(SourceLine) /\ LayoutExact
  BY DEF TextInv
<1>2. LayoutSound' <=> LayoutSound
  BY DEF LayoutSound, Adds
<1>3. /\ Delimited(Scanned)' <=> Delimited(Scanned)
      /\ LaidOut(Scanned)' <=> LaidOut(Scanned)
      /\ Heads(Scanned)' = Heads(Scanned)
  BY SameText
<1>4. \A kinds, i : Count(kinds, i)' = Count(kinds, i)
  BY DEF Count
<1>5. /\ LayoutSound <=> Delimited(Scanned) /\ LaidOut(Scanned)
      /\ LayoutSound => \A i \in Heads(Scanned) :
                          lines[i].indent = 4 * (Count({"Indent"}, i) - Count({"Dedent"}, i))
      /\ Count({"Indent", "UnexpectedIndentBlock"}, Len(lines) + 1) = Count({"Dedent"}, Len(lines) + 1)
  BY <1>1 DEF LayoutExact
<1>6. LayoutExact'
  <2>1. LayoutSound' <=> Delimited(Scanned)' /\ LaidOut(Scanned)'
    BY <1>2, <1>3, <1>5
  <2>2. ASSUME LayoutSound', NEW i \in Heads(Scanned)'
        PROVE  lines'[i].indent = 4 * (Count({"Indent"}, i)' - Count({"Dedent"}, i)')
    <3>1. i \in Heads(Scanned) /\ LayoutSound
      BY <1>2, <1>3, <2>2
    <3> QED BY <1>4, <1>5, <3>1
  <2>3. Count({"Indent", "UnexpectedIndentBlock"}, Len(lines) + 1)' = Count({"Dedent"}, Len(lines) + 1)'
    BY <1>5 DEF Count
  <2> QED BY <2>1, <2>2, <2>3 DEF LayoutExact
<1> QED
  BY <1>1, <1>6 DEF TextInv

LEMMA InitHasInv == TextInit => TextInv
<1> SUFFICES ASSUME TextInit PROVE TextInv
  OBVIOUS
<1>1. /\ lines \in Texts /\ parsing = "layout" /\ next = 1 /\ indents = <<0>> /\ open = <<>>
      /\ expecting = FALSE /\ layout = <<>> /\ reports = {}
  BY DEF TextInit
<1>2. lines \in Seq(SourceLine) /\ Len(lines) \in Nat /\ DOMAIN lines = 1..Len(lines)
  BY <1>1, TextAssumption, LinesTyped
<1>3. next \in 1..Len(lines)+1 /\ open \in Seq(Opened) /\ LayoutSound
  BY <1>1, <1>2 DEF LayoutSound
<1>4. Rising(<<0>>)
  BY DEF Rising
<1>5. Balanced(<<>>, <<0>>, 1)
  <2>1. <<>> \in Seq(Elements)
    OBVIOUS
  <2>2. ASSUME NEW j \in Nat PROVE Marks(<<>>, Begun, j) = Marks(<<>>, {"Dedent"}, j) + Len(<<0>>) - 1
    <3>1. ASSUME NEW kinds PROVE Marks(<<>>, kinds, j) = 0
      <4> DEFINE none == <<>>
      <4>1. none \in Seq(Elements) /\ Len(none) = 0
        OBVIOUS
      <4> HIDE DEF none
      <4>2. \A k \in 1..Len(none) : none[k].kind \notin kinds \/ none[k].line > j
        BY <4>1
      <4>3. Marks(none, kinds, j) = 0
        BY <4>1, <4>2, MarksAppend
      <4> QED BY <4>3 DEF none
    <3> QED BY <3>1
  <2> QED BY <2>1, <2>2 DEF Balanced
<1>6. HeadsBefore(lines, 1) = {}
  <2>1. \A j \in HeadsOf(lines) : j \in 1..Len(lines)
    BY <1>2, HeadsTyped
  <2> QED BY <1>2, <2>1 DEF HeadsBefore
<1>7. Nested(lines, 1, <<0>>)
  BY <1>6 DEF Nested, Fourfold
<1>8. Ranked(lines, 1, <<>>)
  BY <1>6 DEF Ranked, Expected
<1>9. Delved(lines, 1, <<>>)
  <2>1. Sofar(lines, 1 - 1) = <<>>
    BY <1>2, SofarSteps
  <2>2. Stacked(<<>>, 0, <<>>) /\ Len(<<>>) = 0 /\ Len(<<>>) <= MAX_NESTING
    <3>1. Depth(<<>>, 0) = 0
      <4> DEFINE none == <<>>
      <4>1. none \in Seq(Token)
        OBVIOUS
      <4> HIDE DEF none
      <4>2. Depth(none, 0) = 0
        BY <4>1, DepthSteps
      <4> QED BY <4>2 DEF none
    <3> QED BY <3>1, TextAssumption DEF Stacked
  <2> QED BY <2>1, <2>2 DEF Delved
<1>10. ~ Colon(lines, 1 - 1)
  BY DEF Colon
<1>11. Scanning
  BY <1>1, <1>3, <1>4, <1>5, <1>7, <1>8, <1>9, <1>10 DEF Scanning, Sound
<1> QED
  BY <1>1, <1>2, <1>11 DEF TextInv, LayoutExact

LEMMA NextKeepsInv == TextInv /\ [TextNext]_textVars => TextInv'
<1> SUFFICES ASSUME TextInv, [TextNext]_textVars PROVE TextInv'
  OBVIOUS
<1>1. CASE ScanLine
  BY <1>1, LineKeepsInv
<1>2. CASE EndScan
  BY <1>2, EndKeepsInv
<1>3. CASE ListDeclarations
  <2> DEFINE more == ImportReports \cup {Report("malformed_declaration", LineStart(i)) :
                                           i \in {n \in AtMargin : FirstOf(n) \in Keywords /\ ~ HasName(n)}}
  <2>1. /\ parsing # "layout" /\ parsing' # "layout" /\ lines' = lines /\ layout' = layout
        /\ reports' = reports \cup more
    BY <1>3 DEF ListDeclarations
  <2>2. \A r \in more : r.code \in {"malformed_declaration", "malformed_import", "import_after_declaration"}
    BY DEF Report, ImportReports
  <2> HIDE DEF more
  <2>3. Adds(reports, reports')
    BY <2>1, <2>2, AddsMalformed
  <2> QED BY <2>1, <2>3, LaterKeeps
<1>4. CASE ParseBody
  <2>1. parsing # "layout" /\ parsing' # "layout" /\ lines' = lines /\ layout' = layout
    BY <1>4 DEF ParseBody
  <2>2. Adds(reports, reports')
    <3> DEFINE d == islands[next]
               start == [reports |-> reports, kept |-> kept, parsed |-> FALSE]
    <3>1. reports' = reports \/ reports' = Parse(d, start).reports
      BY <1>4 DEF ParseBody
    <3>2. Shaped(start) /\ start.reports = reports
      BY ShapedIs
    <3> HIDE DEF d, start
    <3>3. Adds(reports, Parse(d, start).reports)
      BY <3>2, ParseKeeps DEF Keeps
    <3> QED BY <3>1, <3>3 DEF Adds
  <2> QED BY <2>1, <2>2, LaterKeeps
<1>5. CASE EndBodies
  <2>1. parsing # "layout" /\ parsing' # "layout" /\ lines' = lines /\ layout' = layout /\ reports' = reports
    BY <1>5 DEF EndBodies
  <2>2. Adds(reports, reports')
    BY <2>1 DEF Adds
  <2> QED BY <2>1, <2>2, LaterKeeps
<1>6. CASE FinishParse
  <2> DEFINE asserted == [reports |-> reports \cup AssertionReports,
                          kept    |-> kept \cup {n \in Assertions : WellAsserted(n)},
                          parsed  |-> FALSE]
  <2>1. /\ parsing # "layout" /\ parsing' # "layout" /\ lines' = lines /\ layout' = layout
        /\ reports' = SelectionsRead(asserted).reports \cup TopLevelReports
    BY <1>6 DEF FinishParse
  <2>2. lines \in Seq(SourceLine)
    BY DEF TextInv
  <2>3. Shaped(asserted) /\ asserted.reports = reports \cup AssertionReports
    BY ShapedIs
  <2> HIDE DEF asserted
  <2>4. Adds(reports \cup AssertionReports, SelectionsRead(asserted).reports)
    BY <2>2, <2>3, SelectionsKeep DEF Keeps
  <2>5. Adds(reports, reports \cup AssertionReports)
    <3>1. \A r \in AssertionReports : r.code = "malformed_comptime_assertion"
      BY DEF Report, AssertionReports
    <3> QED BY <3>1, AddsMalformed
  <2>6. Adds(SelectionsRead(asserted).reports, reports')
    <3>1. \A r \in TopLevelReports : r.code = "unexpected_top_level"
      BY DEF Report, TopLevelReports
    <3> QED BY <2>1, <3>1, AddsMalformed
  <2>7. Adds(reports, reports')
    BY <2>4, <2>5, <2>6 DEF Adds
  <2> QED BY <2>1, <2>7, LaterKeeps
<1>7. CASE UNCHANGED textVars
  <2>1. /\ lines' = lines /\ parsing' = parsing /\ next' = next /\ indents' = indents /\ open' = open
        /\ expecting' = expecting /\ layout' = layout /\ reports' = reports
    BY <1>7 DEF textVars
  <2>2. CASE parsing # "layout"
    <3>1. Adds(reports, reports')
      BY <2>1 DEF Adds
    <3> QED BY <2>1, <2>2, <3>1, LaterKeeps
  <2>3. CASE parsing = "layout"
    <3>1. Scanning'
      BY <2>1, <2>3 DEF TextInv, Scanning, LayoutSound
    <3> QED BY <2>1, <2>3, <3>1 DEF TextInv, LayoutExact
  <2> QED BY <2>2, <2>3
<1> QED
  BY <1>1, <1>2, <1>3, <1>4, <1>5, <1>6, <1>7 DEF TextNext

(* The scan of layout and delimiters reports nothing exactly of the sources *)
(* whose delimiters are balanced and whose blocks are announced and         *)
(* indented; the level of a line is then the number of blocks around it,    *)
(* and each level that is begun ends (scan_layout_and_delimiters).          *)
THEOREM LayoutIsExact == TextSpec => []LayoutExact
<1>1. TextInit => TextInv
  BY InitHasInv
<1>2. TextInv /\ [TextNext]_textVars => TextInv'
  BY NextKeepsInv
<1>3. TextInv => LayoutExact
  BY DEF TextInv
<1> QED
  BY <1>1, <1>2, <1>3, PTL DEF TextSpec
====
