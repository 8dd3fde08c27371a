--------------------------- MODULE EvaluatorProofs ---------------------------
(***************************************************************************)
(* Theorems about the evaluator (module Evaluator), for every program, all *)
(* ceilings and every choice of the data that the model leaves open; first *)
(* what they rest on: the loops of its primitives, and the sums of sizes   *)
(* that the memory tariff charges.                                         *)
(***************************************************************************)
EXTENDS Evaluator, Fundamentals

-----------------------------------------------------------------------------
(***************************************************************************)
(* The loops of the primitives are folds.  A fold is a recursive function  *)
(* on the subsets of the sequence's domain, so that it has a value has to  *)
(* be proved; once for all the loops, whose bodies Step selects by name.   *)
(***************************************************************************)

BindStep(acc, l, bindings) ==
  LET r == Retain(acc, bindings[l].size)
  IN IF ~ Running(r) THEN r
     ELSE IF IsLive(r, l) THEN Fail(r, "Defect", "pattern reused a live LocalId")
     ELSE SetLocal(r, l, bindings[l])

ParameterStep(acc, i, params, arguments, types) ==
  LET v == Coerced(arguments[i], types[i])
  IN IF ~ Running(acc) THEN acc
     ELSE IF v = NoValue THEN Fail(acc, "CreatorRejected", "ArgumentTypeMismatch")
     ELSE LET r == Retain(acc, v.size) IN
          IF Running(r) THEN SetLocal(r, params[i], v) ELSE r

WriteStep(acc, w, frame) ==
  IF ~ Running(acc) THEN acc
  ELSE StoreProjected(acc, w.place, w.field, frame.locals[w.local])

Step(kind, of, acc, x) ==
  CASE kind = "pop"       -> PopValue(acc)
    [] kind = "release"   -> Release(acc, of[x].size)
    [] kind = "bind"      -> BindStep(acc, x, of)
    [] kind = "parameter" -> ParameterStep(acc, x, of[1], of[2], of[3])
    [] kind = "write"     -> WriteStep(acc, x, of)
    [] kind = "size"      -> acc + x.size
    [] kind = "captured"  -> acc + of[x].size
    [] kind = "frame"     -> acc + FrameMemory(x)
    [] kind = "fuel"      -> acc + x.fuel

Folding(f, kind, of, base, seq, D) ==
  f = [s \in SUBSET D |-> IF s = {} THEN base
                          ELSE Step(kind, of, f[s \ {Max(s)}], seq[Max(s)])]

LEMMA MaxOfInitial ==
  ASSUME NEW k \in Nat, NEW s \in SUBSET (1..k+1), k + 1 \in s
  PROVE  Max(s) = k + 1 /\ s \ {k + 1} \in SUBSET (1..k)
<1>1. \A y \in s : k + 1 >= y
  OBVIOUS
<1>2. \A x \in s : (\A y \in s : x >= y) => x = k + 1
  OBVIOUS
<1>3. Max(s) \in s /\ \A y \in s : Max(s) >= y
  BY <1>1 DEF Max
<1>4. Max(s) = k + 1
  BY <1>2, <1>3
<1>5. \A x \in s \ {k + 1} : x \in 1..k
  OBVIOUS
<1> QED
  BY <1>4, <1>5

LEMMA FoldUpTo ==
  ASSUME NEW kind, NEW of, NEW base, NEW seq, NEW n \in Nat
  PROVE  \E f : Folding(f, kind, of, base, seq, 1..n)
<1> DEFINE Good(k) == \E f : Folding(f, kind, of, base, seq, 1..k)
           Bad     == {k \in Nat : ~ Good(k)}
<1> SUFFICES ASSUME Bad # {} PROVE FALSE
  OBVIOUS
<1>1. PICK k \in Bad : \A j \in Bad : k <= j
  BY LeastNumber
<1>2. k # 0
  <2>1. Folding([s \in SUBSET (1..0) |-> base], kind, of, base, seq, 1..0)
    BY DEF Folding
  <2> QED BY <2>1
<1>3. PICK f : Folding(f, kind, of, base, seq, 1..k-1)
  BY <1>1, <1>2
<1> DEFINE g == [s \in SUBSET (1..k) |->
                   IF k \in s THEN Step(kind, of, f[s \ {k}], seq[k]) ELSE f[s]]
<1>4. Folding(g, kind, of, base, seq, 1..k)
  <2> SUFFICES ASSUME NEW s \in SUBSET (1..k)
               PROVE  g[s] = IF s = {} THEN base
                             ELSE Step(kind, of, g[s \ {Max(s)}], seq[Max(s)])
    BY DEF Folding
  <2>1. CASE k \in s
    <3>1. Max(s) = k /\ s \ {k} \in SUBSET (1..k) /\ k \notin s \ {k}
      BY <1>2, <2>1, MaxOfInitial, k - 1 \in Nat, (k - 1) + 1 = k
    <3> QED BY <3>1, <2>1
  <2>2. CASE k \notin s
    <3>1. s \in SUBSET (1..k-1)
      BY <2>2
    <3>2. f[s] = IF s = {} THEN base ELSE Step(kind, of, f[s \ {Max(s)}], seq[Max(s)])
      BY <1>3, <3>1 DEF Folding
    <3> QED BY <3>1, <3>2, <2>2
  <2> QED BY <2>1, <2>2
<1> QED
  BY <1>4

LEMMA FoldExists ==
  ASSUME NEW kind, NEW of, NEW base, NEW seq, NEW n \in Nat, DOMAIN seq = 1..n
  PROVE  \E f : Folding(f, kind, of, base, seq, DOMAIN seq)
  BY FoldUpTo

(* The machines between the turns of a loop.                               *)
Turns(acc, kind, of, base, seq, n) ==
  /\ acc[0] = base
  /\ \A k \in 1..n : acc[k] = Step(kind, of, acc[k - 1], seq[k])

LEMMA FoldTurns ==
  ASSUME NEW kind, NEW of, NEW base, NEW seq, NEW n \in Nat, DOMAIN seq = 1..n,
         NEW f, Folding(f, kind, of, base, seq, DOMAIN seq)
  PROVE  \E acc : Turns(acc, kind, of, base, seq, n) /\ f[DOMAIN seq] = acc[n]
<1> DEFINE acc == [k \in 0..n |-> f[1..k]]
<1>1. acc[0] = base
  <2>1. 1..0 = {}
    OBVIOUS
  <2> QED BY <2>1 DEF Folding
<1>2. ASSUME NEW k \in 1..n PROVE acc[k] = Step(kind, of, acc[k - 1], seq[k])
  <2>1. k - 1 \in Nat /\ (k - 1) + 1 = k /\ 1..k \in SUBSET (1..(k - 1) + 1) /\ k \in 1..k
    OBVIOUS
  <2>2. Max(1..k) = k
    BY <2>1, MaxOfInitial
  <2>3. (1..k) \ {k} = 1..k-1
    OBVIOUS
  <2>4. 1..k # {} /\ 1..k \in SUBSET (1..n) /\ k - 1 \in 0..n /\ k \in 0..n
    <3>1. \A j \in 1..k : j \in 1..n
      OBVIOUS
    <3>2. k \in 1..k /\ k - 1 \in 0..n /\ k \in 0..n
      OBVIOUS
    <3> QED BY <3>1, <3>2
  <2>5. f[1..k] = Step(kind, of, f[(1..k) \ {k}], seq[k])
    BY <2>2, <2>4 DEF Folding
  <2> QED BY <2>3, <2>4, <2>5
<1>3. f[DOMAIN seq] = acc[n]
  OBVIOUS
<1>4. Turns(acc, kind, of, base, seq, n)
  BY <1>1, <1>2 DEF Turns
<1> QED
  BY <1>3, <1>4

LEMMA PopTurns ==
  ASSUME NEW m, NEW n \in Nat
  PROVE  \E acc : /\ Turns(acc, "pop", 0, m, [i \in 1..n |-> i], n)
                  /\ PopValues(m, n) = acc[n]
<1> DEFINE seq     == [i \in 1..n |-> i]
           Loop(f) == f = [s \in SUBSET (DOMAIN seq) |->
                             IF s = {} THEN m ELSE PopValue(f[s \ {Max(s)}])]
           loop    == CHOOSE f : Loop(f)
<1>1. DOMAIN seq = 1..n
  OBVIOUS
<1>2. PopValues(m, n) = loop[DOMAIN seq]
  BY DEF PopValues, FoldLeft, MapThenFoldSet
<1>3. \A f : Loop(f) <=> Folding(f, "pop", 0, m, seq, DOMAIN seq)
  BY DEF Folding, Step
<1>4. Loop(loop)
  <2>1. \E f : Folding(f, "pop", 0, m, seq, DOMAIN seq)
    BY <1>1, FoldExists
  <2>2. \E f : Loop(f)
    <3> HIDE DEF Loop
    <3> QED BY <1>3, <2>1
  <2> QED BY <2>2
<1>5. Folding(loop, "pop", 0, m, seq, DOMAIN seq)
  BY <1>3, <1>4
<1> HIDE DEF loop, seq
<1>6. \E acc : Turns(acc, "pop", 0, m, seq, n) /\ loop[DOMAIN seq] = acc[n]
  BY <1>1, <1>5, FoldTurns
<1> QED
  BY <1>2, <1>6 DEF seq


LEMMA ReleaseTurns ==
  ASSUME NEW m, NEW seq, NEW n \in Nat, DOMAIN seq = 1..n
  PROVE  \E acc : /\ Turns(acc, "release", Locals(m), m, seq, n)
                  /\ Released(m, seq) = acc[n]
<1> DEFINE Loop(f) == f = [s \in SUBSET (DOMAIN seq) |->
                             IF s = {} THEN m
                             ELSE Release(f[s \ {Max(s)}], Locals(m)[seq[Max(s)]].size)]
           loop    == CHOOSE f : Loop(f)
<1>1. Released(m, seq) = loop[DOMAIN seq]
  BY DEF Released, FoldLeft, MapThenFoldSet
<1>2. \A f : Loop(f) <=> Folding(f, "release", Locals(m), m, seq, DOMAIN seq)
  BY DEF Folding, Step
<1>3. Loop(loop)
  <2>1. \E f : Folding(f, "release", Locals(m), m, seq, DOMAIN seq)
    BY FoldExists
  <2>2. \E f : Loop(f)
    <3> HIDE DEF Loop
    <3> QED BY <1>2, <2>1
  <2> QED BY <2>2
<1>4. Folding(loop, "release", Locals(m), m, seq, DOMAIN seq)
  BY <1>2, <1>3
<1> HIDE DEF loop
<1>5. \E acc : Turns(acc, "release", Locals(m), m, seq, n) /\ loop[DOMAIN seq] = acc[n]
  BY <1>4, FoldTurns
<1> QED
  BY <1>1, <1>5

LEMMA BindTurns ==
  ASSUME NEW m, Running(m), NEW bindings, NEW n \in Nat,
         DOMAIN SetToSeq(DOMAIN bindings) = 1..n
  PROVE  \E acc : /\ Turns(acc, "bind", bindings, m, SetToSeq(DOMAIN bindings), n)
                  /\ Bind(m, bindings) = acc[n]
<1> DEFINE seq     == SetToSeq(DOMAIN bindings)
           Loop(f) == f = [s \in SUBSET (DOMAIN seq) |->
                             IF s = {} THEN m
                             ELSE BindStep(f[s \ {Max(s)}], seq[Max(s)], bindings)]
           loop    == CHOOSE f : Loop(f)
<1>1. Bind(m, bindings) = loop[DOMAIN seq]
  BY DEF Bind, FoldLeft, MapThenFoldSet, BindStep
<1>2. \A f : Loop(f) <=> Folding(f, "bind", bindings, m, seq, DOMAIN seq)
  BY DEF Folding, Step
<1>3. Loop(loop)
  <2>1. \E f : Folding(f, "bind", bindings, m, seq, DOMAIN seq)
    BY FoldExists
  <2>2. \E f : Loop(f)
    <3> HIDE DEF Loop
    <3> QED BY <1>2, <2>1
  <2> QED BY <2>2
<1>4. Folding(loop, "bind", bindings, m, seq, DOMAIN seq)
  BY <1>2, <1>3
<1> HIDE DEF loop, seq
<1>5. \E acc : Turns(acc, "bind", bindings, m, seq, n) /\ loop[DOMAIN seq] = acc[n]
  BY <1>4, FoldTurns DEF seq
<1> QED
  BY <1>1, <1>5 DEF seq

LEMMA ParameterTurns ==
  ASSUME NEW m, NEW params, NEW arguments, NEW types, NEW n \in Nat, Len(params) = n
  PROVE  \E acc : /\ Turns(acc, "parameter", <<params, arguments, types>>, m,
                           [i \in 1..n |-> i], n)
                  /\ Bound(m, params, arguments, types) = acc[n]
<1> DEFINE seq     == [i \in 1..Len(params) |-> i]
           of      == <<params, arguments, types>>
           Loop(f) == f = [s \in SUBSET (DOMAIN seq) |->
                             IF s = {} THEN m
                             ELSE ParameterStep(f[s \ {Max(s)}], seq[Max(s)],
                                                params, arguments, types)]
           loop    == CHOOSE f : Loop(f)
<1>1. Bound(m, params, arguments, types) = loop[DOMAIN seq]
  BY DEF Bound, FoldLeft, MapThenFoldSet, ParameterStep
<1>2. \A f : Loop(f) <=> Folding(f, "parameter", of, m, seq, DOMAIN seq)
  <2>1. \A x, i : Step("parameter", of, x, i) = ParameterStep(x, i, params, arguments, types)
    BY DEF Step
  <2> HIDE DEF seq, of
  <2> QED BY <2>1 DEF Folding
<1>3. DOMAIN seq = 1..n
  OBVIOUS
<1>4. Loop(loop)
  <2>1. \E f : Folding(f, "parameter", of, m, seq, DOMAIN seq)
    <3> HIDE DEF Loop, seq, of
    <3> QED BY <1>3, FoldExists
  <2>2. \E f : Loop(f)
    <3> HIDE DEF Loop
    <3> QED BY <1>2, <2>1
  <2> QED BY <2>2
<1>5. Folding(loop, "parameter", of, m, seq, DOMAIN seq)
  BY <1>2, <1>4
<1> HIDE DEF loop, seq, of
<1>6. \E acc : Turns(acc, "parameter", of, m, seq, n) /\ loop[DOMAIN seq] = acc[n]
  BY <1>3, <1>5, FoldTurns
<1> QED
  BY <1>1, <1>6 DEF seq, of

LEMMA WriteTurns ==
  ASSUME NEW m, NEW frame, NEW n \in Nat, DOMAIN frame.writebacks = 1..n
  PROVE  \E acc : /\ Turns(acc, "write", frame, m, frame.writebacks, n)
                  /\ WriteBack(m, frame) = acc[n]
<1> DEFINE seq     == frame.writebacks
           Loop(f) == f = [s \in SUBSET (DOMAIN seq) |->
                             IF s = {} THEN m ELSE WriteStep(f[s \ {Max(s)}], seq[Max(s)], frame)]
           loop    == CHOOSE f : Loop(f)
<1>1. WriteBack(m, frame) = loop[DOMAIN seq]
  BY DEF WriteBack, FoldLeft, MapThenFoldSet, WriteStep
<1>2. \A f : Loop(f) <=> Folding(f, "write", frame, m, seq, DOMAIN seq)
  BY DEF Folding, Step
<1>3. Loop(loop)
  <2>1. \E f : Folding(f, "write", frame, m, seq, DOMAIN seq)
    BY FoldExists
  <2>2. \E f : Loop(f)
    <3> HIDE DEF Loop
    <3> QED BY <1>2, <2>1
  <2> QED BY <2>2
<1>4. Folding(loop, "write", frame, m, seq, DOMAIN seq)
  BY <1>2, <1>3
<1> HIDE DEF loop
<1>5. \E acc : Turns(acc, "write", frame, m, seq, n) /\ loop[DOMAIN seq] = acc[n]
  BY <1>4, FoldTurns
<1> QED
  BY <1>1, <1>5


LEMMA SizesTurns ==
  ASSUME NEW s, NEW n \in Nat, DOMAIN s = 1..n
  PROVE  \E acc : Turns(acc, "size", 0, 0, s, n) /\ Sizes(s) = acc[n]
<1> DEFINE Loop(f) == f = [S \in SUBSET (DOMAIN s) |->
                             IF S = {} THEN 0 ELSE f[S \ {Max(S)}] + s[Max(S)].size]
           loop    == CHOOSE f : Loop(f)
<1>1. Sizes(s) = loop[DOMAIN s]
  BY DEF Sizes, FoldLeft, MapThenFoldSet
<1>2. \A f : Loop(f) <=> Folding(f, "size", 0, 0, s, DOMAIN s)
  BY DEF Folding, Step
<1>3. Loop(loop)
  <2>1. \E f : Folding(f, "size", 0, 0, s, DOMAIN s)
    BY FoldExists
  <2>2. \E f : Loop(f)
    <3> HIDE DEF Loop
    <3> QED BY <1>2, <2>1
  <2> QED BY <2>2
<1>4. Folding(loop, "size", 0, 0, s, DOMAIN s)
  BY <1>2, <1>3
<1> HIDE DEF loop
<1>5. \E acc : Turns(acc, "size", 0, 0, s, n) /\ loop[DOMAIN s] = acc[n]
  BY <1>4, FoldTurns
<1> QED
  BY <1>1, <1>5

LEMMA CapturedTurns ==
  ASSUME NEW captured, NEW s, NEW n \in Nat, DOMAIN s = 1..n
  PROVE  \E acc : Turns(acc, "captured", captured, 0, s, n) /\ CapturedSizes(captured, s) = acc[n]
<1> DEFINE Loop(f) == f = [S \in SUBSET (DOMAIN s) |->
                             IF S = {} THEN 0 ELSE f[S \ {Max(S)}] + captured[s[Max(S)]].size]
           loop    == CHOOSE f : Loop(f)
<1>1. CapturedSizes(captured, s) = loop[DOMAIN s]
  BY DEF CapturedSizes, FoldLeft, MapThenFoldSet
<1>2. \A f : Loop(f) <=> Folding(f, "captured", captured, 0, s, DOMAIN s)
  BY DEF Folding, Step
<1>3. Loop(loop)
  <2>1. \E f : Folding(f, "captured", captured, 0, s, DOMAIN s)
    BY FoldExists
  <2>2. \E f : Loop(f)
    <3> HIDE DEF Loop
    <3> QED BY <1>2, <2>1
  <2> QED BY <2>2
<1>4. Folding(loop, "captured", captured, 0, s, DOMAIN s)
  BY <1>2, <1>3
<1> HIDE DEF loop
<1>5. \E acc : Turns(acc, "captured", captured, 0, s, n) /\ loop[DOMAIN s] = acc[n]
  BY <1>4, FoldTurns
<1> QED
  BY <1>1, <1>5

LEMMA FramesTurns ==
  ASSUME NEW s, NEW n \in Nat, DOMAIN s = 1..n
  PROVE  \E acc : Turns(acc, "frame", 0, 0, s, n) /\ FramesMemory(s) = acc[n]
<1> DEFINE Loop(f) == f = [S \in SUBSET (DOMAIN s) |->
                             IF S = {} THEN 0 ELSE f[S \ {Max(S)}] + FrameMemory(s[Max(S)])]
           loop    == CHOOSE f : Loop(f)
<1>1. FramesMemory(s) = loop[DOMAIN s]
  BY DEF FramesMemory, FoldLeft, MapThenFoldSet
<1>2. \A f : Loop(f) <=> Folding(f, "frame", 0, 0, s, DOMAIN s)
  BY DEF Folding, Step
<1>3. Loop(loop)
  <2>1. \E f : Folding(f, "frame", 0, 0, s, DOMAIN s)
    BY FoldExists
  <2>2. \E f : Loop(f)
    <3> HIDE DEF Loop
    <3> QED BY <1>2, <2>1
  <2> QED BY <2>2
<1>4. Folding(loop, "frame", 0, 0, s, DOMAIN s)
  BY <1>2, <1>3
<1> HIDE DEF loop
<1>5. \E acc : Turns(acc, "frame", 0, 0, s, n) /\ loop[DOMAIN s] = acc[n]
  BY <1>4, FoldTurns
<1> QED
  BY <1>1, <1>5

LEMMA SameTurns ==
  ASSUME NEW kind, NEW of, NEW base, NEW s, NEW t, NEW n \in Nat, \A k \in 1..n : s[k] = t[k],
         NEW a, Turns(a, kind, of, base, s, n), NEW b, Turns(b, kind, of, base, t, n)
  PROVE  a[n] = b[n]
<1> DEFINE G == {k \in 0..n : a[k] = b[k]}
<1>1. 0 \in G
  BY DEF Turns
<1>2. \A k \in 1..n : k - 1 \in G => k \in G
  BY DEF Turns
<1> HIDE DEF G
<1>3. n \in G
  BY <1>1, <1>2, Upto
<1> QED
  BY <1>3 DEF G

-----------------------------------------------------------------------------
(***************************************************************************)
(* Sums.                                                                   *)
(***************************************************************************)

LEMMA FrontOf ==
  ASSUME NEW S, NEW s \in Seq(S), s # <<>>
  PROVE  /\ Len(s) \in Nat \ {0} /\ DOMAIN s = 1..Len(s)
         /\ Front(s) \in Seq(S) /\ DOMAIN Front(s) = 1..Len(s)-1 /\ Len(Front(s)) = Len(s) - 1
         /\ \A k \in 1..Len(s)-1 : Front(s)[k] = s[k]
         /\ Last(s) = s[Len(s)] /\ Last(s) \in S
<1>1. Len(s) \in Nat \ {0} /\ DOMAIN s = 1..Len(s)
  OBVIOUS
<1>2. Front(s) = SubSeq(s, 1, Len(s) - 1)
  BY DEF Front
<1>3. Front(s) \in Seq(S) /\ Len(Front(s)) = Len(s) - 1
  BY <1>1, <1>2
<1>4. \A k \in 1..Len(s)-1 : Front(s)[k] = s[k]
  BY <1>1, <1>2
<1> QED
  BY <1>1, <1>3, <1>4 DEF Last

LEMMA SizesOf ==
  ASSUME NEW S, NEW s \in Seq(S), \A i \in DOMAIN s : s[i].size \in Nat
  PROVE  /\ Sizes(s) \in Nat
         /\ s = <<>> => Sizes(s) = 0
         /\ s # <<>> => Sizes(s) = Sizes(Front(s)) + Last(s).size
<1> DEFINE n == Len(s)
<1>1. n \in Nat /\ DOMAIN s = 1..n
  OBVIOUS
<1>2. PICK acc : Turns(acc, "size", 0, 0, s, n) /\ Sizes(s) = acc[n]
  BY <1>1, SizesTurns
<1>3. acc[0] = 0 /\ \A k \in 1..n : acc[k] = acc[k - 1] + s[k].size
  BY <1>2 DEF Turns, Step
<1> HIDE DEF n
<1>4. acc[n] \in Nat
  <2> DEFINE G == {k \in 0..n : acc[k] \in Nat}
  <2>1. 0 \in G
    BY <1>1, <1>3
  <2>2. ASSUME NEW k \in 1..n, k - 1 \in G PROVE k \in G
    <3>1. s[k].size \in Nat
      BY <1>1
    <3> QED BY <1>1, <1>3, <2>2, <3>1
  <2> HIDE DEF G
  <2>3. n \in G
    BY <1>1, <2>1, <2>2, Upto
  <2> QED BY <2>3 DEF G
<1>5. ASSUME s # <<>> PROVE Sizes(s) = Sizes(Front(s)) + Last(s).size
  <2>1. /\ n \in Nat \ {0} /\ DOMAIN Front(s) = 1..n-1 /\ Last(s) = s[n]
        /\ \A k \in 1..n-1 : Front(s)[k] = s[k]
    BY <1>5, FrontOf DEF n
  <2>2. PICK b : Turns(b, "size", 0, 0, Front(s), n - 1) /\ Sizes(Front(s)) = b[n - 1]
    BY <2>1, SizesTurns, n - 1 \in Nat
  <2>3. Turns(acc, "size", 0, 0, s, n - 1)
    BY <1>2, <2>1 DEF Turns
  <2>4. acc[n - 1] = b[n - 1]
    BY <2>1, <2>2, <2>3, SameTurns, n - 1 \in Nat
  <2> QED BY <1>2, <1>3, <2>1, <2>2, <2>4
<1> QED
  BY <1>2, <1>3, <1>4, <1>5 DEF n


LEMMA CapturedOf ==
  ASSUME NEW captured, NEW S, NEW s \in Seq(S), \A i \in DOMAIN s : captured[s[i]].size \in Nat
  PROVE  CapturedSizes(captured, s) \in Nat
<1> DEFINE n == Len(s)
<1>1. n \in Nat /\ DOMAIN s = 1..n
  OBVIOUS
<1>2. PICK acc : Turns(acc, "captured", captured, 0, s, n) /\ CapturedSizes(captured, s) = acc[n]
  BY <1>1, CapturedTurns
<1>3. acc[0] = 0 /\ \A k \in 1..n : acc[k] = acc[k - 1] + captured[s[k]].size
  BY <1>2 DEF Turns, Step
<1> HIDE DEF n
<1> DEFINE G == {k \in 0..n : acc[k] \in Nat}
<1>4. 0 \in G
  BY <1>1, <1>3
<1>5. ASSUME NEW k \in 1..n, k - 1 \in G PROVE k \in G
  <2>1. captured[s[k]].size \in Nat
    BY <1>1
  <2> QED BY <1>1, <1>3, <1>5, <2>1
<1> HIDE DEF G
<1>6. n \in G
  BY <1>1, <1>4, <1>5, Upto
<1> QED
  BY <1>2, <1>6 DEF G

LEMMA FramesOf ==
  ASSUME NEW S, NEW s \in Seq(S), \A i \in DOMAIN s : FrameMemory(s[i]) \in Nat
  PROVE  /\ FramesMemory(s) \in Nat
         /\ s = <<>> => FramesMemory(s) = 0
         /\ s # <<>> => FramesMemory(s) = FramesMemory(Front(s)) + FrameMemory(Last(s))
<1> DEFINE n == Len(s)
<1>1. n \in Nat /\ DOMAIN s = 1..n
  OBVIOUS
<1>2. PICK acc : Turns(acc, "frame", 0, 0, s, n) /\ FramesMemory(s) = acc[n]
  BY <1>1, FramesTurns
<1>3. acc[0] = 0 /\ \A k \in 1..n : acc[k] = acc[k - 1] + FrameMemory(s[k])
  BY <1>2 DEF Turns, Step
<1> HIDE DEF n
<1>4. acc[n] \in Nat
  <2> DEFINE G == {k \in 0..n : acc[k] \in Nat}
  <2>1. 0 \in G
    BY <1>1, <1>3
  <2>2. ASSUME NEW k \in 1..n, k - 1 \in G PROVE k \in G
    <3>1. FrameMemory(s[k]) \in Nat
      BY <1>1
    <3> QED BY <1>1, <1>3, <2>2, <3>1
  <2> HIDE DEF G
  <2>3. n \in G
    BY <1>1, <2>1, <2>2, Upto
  <2> QED BY <2>3 DEF G
<1>5. ASSUME s # <<>> PROVE FramesMemory(s) = FramesMemory(Front(s)) + FrameMemory(Last(s))
  <2>1. /\ n \in Nat \ {0} /\ DOMAIN Front(s) = 1..n-1 /\ Last(s) = s[n]
        /\ \A k \in 1..n-1 : Front(s)[k] = s[k]
    BY <1>5, FrontOf DEF n
  <2>2. PICK b : Turns(b, "frame", 0, 0, Front(s), n - 1) /\ FramesMemory(Front(s)) = b[n - 1]
    BY <2>1, FramesTurns, n - 1 \in Nat
  <2>3. Turns(acc, "frame", 0, 0, s, n - 1)
    BY <1>2, <2>1 DEF Turns
  <2>4. acc[n - 1] = b[n - 1]
    BY <2>1, <2>2, <2>3, SameTurns, n - 1 \in Nat
  <2> QED BY <1>2, <1>3, <2>1, <2>2, <2>4
<1> QED
  BY <1>2, <1>3, <1>4, <1>5 DEF n

(* A finite set, in the order SetToSeq gives it.                           *)
Enumerates(e, n, S) ==
  /\ n \in Nat /\ e \in [1..n -> S]
  /\ \A i, j \in 1..n : e[i] = e[j] => i = j
  /\ {e[i] : i \in 1..n} = S

LEMMA Enumeration ==
  ASSUME NEW S, IsFiniteSet(S)
  PROVE  /\ Enumerates(SetToSeq(S), Cardinality(S), S)
         /\ SetToSeq(S) \in Seq(S) /\ Len(SetToSeq(S)) = Cardinality(S)
         /\ DOMAIN SetToSeq(S) = 1..Cardinality(S) /\ Cardinality(S) \in Nat
<1> DEFINE e == SetToSeq(S)
           n == Cardinality(S)
<1>1. n \in Nat /\ ExistsBijection(1..n, S)
  BY FS_CardinalityType
<1>2. \E f \in [1..n -> S] : IsInjective(f)
  BY <1>1 DEF ExistsBijection, Bijection, Injection
<1>3. e \in [1..n -> S] /\ IsInjective(e)
  BY <1>2 DEF SetToSeq
<1>4. e \in Injection(1..n, S)
  BY <1>3 DEF Injection
<1>5. IsFiniteSet(1..n) /\ Cardinality(1..n) = n
  BY <1>1, FS_Interval
<1>6. e \in Surjection(1..n, S)
  BY <1>4, <1>5, FS_Injection
<1>7. {e[i] : i \in 1..n} = S
  BY <1>3, <1>6 DEF Surjection
<1>8. \A i, j \in 1..n : e[i] = e[j] => i = j
  BY <1>3 DEF IsInjective
<1> HIDE DEF e, n
<1>9. e \in Seq(S) /\ Len(e) = n /\ DOMAIN e = 1..n
  BY <1>1, <1>3
<1> QED
  BY <1>1, <1>3, <1>7, <1>8, <1>9 DEF e, n, Enumerates

(* The weights of the first elements of an enumeration.                    *)
Leading(e, k) == {e[i] : i \in 1..k}

LEMMA WeightOfFirst ==
  ASSUME NEW S, NEW n, NEW e, Enumerates(e, n, S), NEW g, NEW W, Weighs(W, g, S),
         NEW first, \A k \in 0..n : first[k] = W[Leading(e, k)]
  PROVE  /\ first[0] = 0 /\ first[n] = W[S]
         /\ \A k \in 0..n : first[k] \in Nat
         /\ \A k \in 1..n : first[k] = g[e[k]] + first[k - 1]
<1> DEFINE P(k) == {e[i] : i \in 1..k}
<1>0. /\ n \in Nat /\ e \in [1..n -> S] /\ {e[i] : i \in 1..n} = S
      /\ \A i, j \in 1..n : e[i] = e[j] => i = j
  BY DEF Enumerates
<1>1. \A k \in 0..n : P(k) \in SUBSET S
  BY <1>0
<1>2. P(0) = {} /\ P(n) = S
  BY <1>0
<1>3. ASSUME NEW k \in 1..n PROVE W[P(k)] = g[e[k]] + W[P(k - 1)]
  <2>1. e[k] \in P(k)
    BY <1>0
  <2>2. P(k) \ {e[k]} = P(k - 1)
    BY <1>0
  <2>3. P(k) \in SUBSET S
    BY <1>1
  <2> HIDE DEF P
  <2>4. W[P(k)] = g[e[k]] + W[P(k) \ {e[k]}]
    BY <2>1, <2>3 DEF Weighs
  <2> QED BY <2>2, <2>4
<1> HIDE DEF P
<1>4. W[P(0)] = 0 /\ W[P(n)] = W[S] /\ \A k \in 0..n : W[P(k)] \in Nat
  BY <1>0, <1>1, <1>2 DEF Weighs
<1>5. \A k \in 0..n : P(k) = Leading(e, k)
  BY DEF P, Leading
<1>6. \A k \in 0..n : first[k] = W[P(k)]
  BY <1>5
<1>7. 0 \in 0..n /\ n \in 0..n /\ \A k \in 1..n : k \in 0..n /\ k - 1 \in 0..n
  BY <1>0
<1> QED
  BY <1>3, <1>4, <1>6, <1>7


(* The locals of a frame.                                                  *)
LocalSizes(locals) == [l \in DOMAIN locals |-> locals[l].size]

AreSized(locals) == IsFiniteSet(DOMAIN locals) /\ \A l \in DOMAIN locals : locals[l].size \in Nat

LocalsMemory(locals) ==
  LET live == SetToSeq(DOMAIN locals)
  IN Sizes([i \in DOMAIN live |-> locals[live[i]]])

LEMMA LocalsWeight ==
  ASSUME NEW locals, AreSized(locals), NEW W, Weighs(W, LocalSizes(locals), DOMAIN locals)
  PROVE  LocalsMemory(locals) = W[DOMAIN locals] /\ LocalsMemory(locals) \in Nat
<1> DEFINE D     == DOMAIN locals
           e     == SetToSeq(D)
           n     == Cardinality(D)
           s     == [i \in DOMAIN e |-> locals[e[i]]]
           first == [k \in 0..n |-> W[Leading(e, k)]]
<1>0. Enumerates(e, n, D)
  BY Enumeration DEF AreSized
<1>1. n \in Nat /\ e \in [1..n -> D] /\ DOMAIN e = 1..n
  BY <1>0 DEF Enumerates
<1>2. DOMAIN s = 1..n /\ \A k \in 1..n : s[k] = locals[e[k]]
  BY <1>1
<1>3. Weighs(W, LocalSizes(locals), D)
  OBVIOUS
<1> HIDE DEF e, n
<1>4. /\ first[0] = 0 /\ first[n] = W[D]
      /\ \A k \in 0..n : first[k] \in Nat
      /\ \A k \in 1..n : first[k] = LocalSizes(locals)[e[k]] + first[k - 1]
  <2> DEFINE g == LocalSizes(locals)
  <2> HIDE DEF D, g
  <2>1. Weighs(W, g, D)
    BY <1>3 DEF g
  <2>0. \A k \in 0..n : first[k] = W[Leading(e, k)]
    OBVIOUS
  <2> HIDE DEF first
  <2>2. /\ first[0] = 0 /\ first[n] = W[D]
        /\ \A k \in 0..n : first[k] \in Nat
        /\ \A k \in 1..n : first[k] = g[e[k]] + first[k - 1]
    BY <1>0, <2>0, <2>1, WeightOfFirst
  <2> QED BY <2>2 DEF g
<1>5. PICK acc : Turns(acc, "size", 0, 0, s, n) /\ Sizes(s) = acc[n]
  BY <1>1, <1>2, SizesTurns
<1>6. acc[0] = 0 /\ \A k \in 1..n : acc[k] = acc[k - 1] + locals[e[k]].size
  BY <1>2, <1>5 DEF Turns, Step
<1>7. \A k \in 1..n : /\ e[k] \in D /\ locals[e[k]].size \in Nat
                      /\ LocalSizes(locals)[e[k]] = locals[e[k]].size
  BY <1>1 DEF LocalSizes, AreSized
<1> HIDE DEF first
<1> DEFINE G == {k \in 0..n : acc[k] = first[k]}
<1>8. 0 \in G
  BY <1>1, <1>4, <1>6
<1>9. ASSUME NEW k \in 1..n, k - 1 \in G PROVE k \in G
  <2>1. acc[k] = acc[k - 1] + locals[e[k]].size /\ first[k] = locals[e[k]].size + first[k - 1]
    BY <1>4, <1>6, <1>7
  <2>2. acc[k - 1] = first[k - 1] /\ first[k - 1] \in Nat /\ k \in 0..n
    BY <1>1, <1>4, <1>9
  <2> QED BY <1>7, <2>1, <2>2
<1> HIDE DEF G
<1>10. n \in G
  BY <1>1, <1>8, <1>9, Upto
<1>11. LocalsMemory(locals) = acc[n]
  BY <1>5 DEF LocalsMemory, e
<1>12. n \in 0..n
  BY <1>1
<1> QED
  BY <1>4, <1>10, <1>11, <1>12 DEF G

LEMMA LocalsOf ==
  ASSUME NEW locals, AreSized(locals)
  PROVE  /\ LocalsMemory(locals) \in Nat
         /\ \E W : Weighs(W, LocalSizes(locals), DOMAIN locals)
         /\ DOMAIN locals = {} => LocalsMemory(locals) = 0
<1>1. PICK W : Weighs(W, LocalSizes(locals), DOMAIN locals)
  BY WeightExists DEF AreSized, LocalSizes
<1> QED
  BY <1>1, LocalsWeight DEF Weighs

(* A local becomes initialized, or has its value replaced.                 *)
Resized(new, locals, less, more) == LocalsMemory(new) = LocalsMemory(locals) - less + more

SizeIn(locals, l) == IF l \in DOMAIN locals THEN locals[l].size ELSE 0

LEMMA LocalsSet ==
  ASSUME NEW locals, AreSized(locals), NEW l, NEW v, v.size \in Nat
  PROVE  /\ AreSized(With(locals, l, v)) /\ DOMAIN With(locals, l, v) = DOMAIN locals \cup {l}
         /\ With(locals, l, v)[l] = v
         /\ \A x \in DOMAIN locals : x # l => With(locals, l, v)[x] = locals[x]
         /\ SizeIn(locals, l) \in Nat
         /\ Resized(With(locals, l, v), locals, SizeIn(locals, l), v.size)
<1> DEFINE new == With(locals, l, v)
           old == SizeIn(locals, l)
           D   == DOMAIN locals \ {l}
<1>1. DOMAIN new = DOMAIN locals \cup {l}
  BY DEF With
<1>2. new[l] = v /\ \A x \in DOMAIN locals : x # l => new[x] = locals[x]
  BY DEF With
<1>3. IsFiniteSet(DOMAIN locals) /\ IsFiniteSet(DOMAIN locals \cup {l}) /\ IsFiniteSet(D)
  BY FS_AddElement, FS_RemoveElement DEF AreSized
<1> HIDE DEF new
<1>4. AreSized(new)
  BY <1>1, <1>2, <1>3 DEF AreSized
<1>5. PICK W : Weighs(W, LocalSizes(locals), DOMAIN locals)
  BY LocalsOf
<1>6. PICK X : Weighs(X, LocalSizes(new), DOMAIN new)
  BY <1>4, LocalsOf
<1>7. LocalsMemory(locals) = W[DOMAIN locals] /\ LocalsMemory(new) = X[DOMAIN new]
  BY <1>4, <1>5, <1>6, LocalsWeight
<1>8. W[D] = X[D] /\ W[D] \in Nat
  <2>1. \A y \in D : LocalSizes(locals)[y] = LocalSizes(new)[y]
    BY <1>1, <1>2 DEF LocalSizes
  <2>2. D \in SUBSET DOMAIN locals /\ D \subseteq DOMAIN new
    BY <1>1
  <2> HIDE DEF D
  <2>3. W[D] = X[D]
    BY <1>3, <1>5, <1>6, <2>1, <2>2, WeightUnique
  <2> QED BY <1>5, <2>2, <2>3 DEF Weighs
<1>9. X[DOMAIN new] = v.size + X[D]
  <2>1. l \in DOMAIN new /\ DOMAIN new \ {l} = D /\ LocalSizes(new)[l] = v.size
    BY <1>1, <1>2 DEF LocalSizes
  <2> QED BY <1>6, <2>1 DEF Weighs
<1>10. old \in Nat /\ W[DOMAIN locals] = old + W[D]
  <2>1. CASE l \in DOMAIN locals
    <3>1. LocalSizes(locals)[l] = locals[l].size /\ locals[l].size \in Nat
      BY <2>1 DEF LocalSizes, AreSized
    <3> QED BY <1>5, <2>1, <3>1 DEF Weighs, SizeIn
  <2>2. CASE l \notin DOMAIN locals
    <3>1. D = DOMAIN locals
      BY <2>2
    <3> QED BY <1>8, <2>2, <3>1 DEF SizeIn
  <2> QED BY <2>1, <2>2
<1>11. LocalsMemory(new) = LocalsMemory(locals) - old + v.size
  <2> HIDE DEF old, D
  <2> QED BY <1>7, <1>8, <1>9, <1>10
<1> QED
  BY <1>1, <1>2, <1>4, <1>10, <1>11 DEF new, Resized


-----------------------------------------------------------------------------
(***************************************************************************)
(* Sequences, without a set that their elements come from.                 *)
(***************************************************************************)

LEMMA SequenceFacts ==
  ASSUME NEW s, IsSequence(s)
  PROVE  Len(s) \in Nat /\ DOMAIN s = 1..Len(s) /\ s \in Seq(ToSet(s))
  BY DEF IsSequence

LEMMA SequenceOf ==
  ASSUME NEW S, NEW s \in Seq(S)
  PROVE  IsSequence(s)
  BY DEF IsSequence, ToSet

LEMMA SequenceWithin ==
  ASSUME NEW s, IsSequence(s), NEW S, \A i \in DOMAIN s : s[i] \in S
  PROVE  s \in Seq(S)
<1>1. Len(s) \in Nat /\ DOMAIN s = 1..Len(s) /\ s \in Seq(ToSet(s))
  BY SequenceFacts
<1>2. s \in [1..Len(s) -> S]
  BY <1>1
<1> QED
  BY <1>1, <1>2

LEMMA Tabulated ==
  ASSUME NEW s, NEW n \in Nat, s = [i \in 1..n |-> s[i]]
  PROVE  IsSequence(s) /\ Len(s) = n /\ DOMAIN s = 1..n
BY ListedSequence DEF IsSequence

LEMMA AppendFacts ==
  ASSUME NEW s, IsSequence(s), NEW x
  PROVE  LET t == Append(s, x)
         IN /\ IsSequence(t) /\ Len(t) = Len(s) + 1 /\ t # <<>>
            /\ \A i \in 1..Len(s) : t[i] = s[i]
            /\ t[Len(s) + 1] = x /\ Front(t) = s /\ Last(t) = x
<1> DEFINE S == ToSet(s) \cup {x}
           t == Append(s, x)
<1>1. s \in Seq(S) /\ x \in S /\ Len(s) \in Nat
  <2>1. \A i \in DOMAIN s : s[i] \in S
    BY DEF ToSet
  <2> HIDE DEF S
  <2>2. s \in Seq(S) /\ Len(s) \in Nat
    BY <2>1, SequenceWithin, SequenceFacts
  <2> QED BY <2>2 DEF S
<1>2. t \in Seq(S) /\ Len(t) = Len(s) + 1 /\ t[Len(s) + 1] = x
  BY <1>1
<1>3. \A i \in 1..Len(s) : t[i] = s[i]
  BY <1>1
<1>4. Front(t) = s
  <2>1. Front(t) = [i \in 1..Len(s) |-> t[i]]
    BY <1>1, <1>2, FrontOf DEF Front
  <2> QED BY <1>1, <1>3, <2>1
<1>5. t # <<>>
  BY <1>1, <1>2
<1> HIDE DEF t
<1> QED
  BY <1>1, <1>2, <1>3, <1>4, <1>5, SequenceOf DEF Last, t

LEMMA FrontFacts ==
  ASSUME NEW s, IsSequence(s), s # <<>>
  PROVE  /\ Len(s) \in Nat \ {0} /\ IsSequence(Front(s)) /\ Len(Front(s)) = Len(s) - 1
         /\ \A i \in 1..Len(s)-1 : Front(s)[i] = s[i]
         /\ Last(s) = s[Len(s)] /\ Len(s) \in DOMAIN s
<1>1. s \in Seq(ToSet(s))
  BY DEF IsSequence
<1> QED
  BY <1>1, SequenceOf, FrontOf

LEMMA ConcatFacts ==
  ASSUME NEW s, IsSequence(s), NEW t, IsSequence(t)
  PROVE  /\ IsSequence(s \o t) /\ Len(s \o t) = Len(s) + Len(t)
         /\ \A i \in 1..Len(s) : (s \o t)[i] = s[i]
         /\ \A i \in 1..Len(t) : (s \o t)[Len(s) + i] = t[i]
         /\ \A i \in 1..Len(s)+Len(t) : (s \o t)[i] = IF i <= Len(s) THEN s[i] ELSE t[i - Len(s)]
<1> DEFINE S == ToSet(s) \cup ToSet(t)
<1>1. s \in Seq(S) /\ t \in Seq(S)
  <2>1. (\A i \in DOMAIN s : s[i] \in S) /\ (\A i \in DOMAIN t : t[i] \in S)
    BY DEF ToSet
  <2> HIDE DEF S
  <2> QED BY <2>1, SequenceWithin
<1> HIDE DEF S
<1>2. s \o t \in Seq(S)
  BY <1>1
<1>3. IsSequence(s \o t)
  BY <1>2, SequenceOf
<1>4. Len(s) \in Nat /\ Len(t) \in Nat
  BY <1>1
<1>5. \A i \in 1..Len(s)+Len(t) : (s \o t)[i] = IF i <= Len(s) THEN s[i] ELSE t[i - Len(s)]
  BY <1>1
<1>6. Len(s \o t) = Len(s) + Len(t)
  BY <1>1
<1> QED
  BY <1>3, <1>4, <1>5, <1>6


-----------------------------------------------------------------------------
(***************************************************************************)
(* Values.  A value is one of a set that holds every part of its members.  *)
(***************************************************************************)

Sound(V) ==
  \A v \in V :
    /\ v.size \in Nat
    /\ v.tag \in {"Array", "Struct"} => v.elements \in Seq(V)
    /\ v.tag \in {"Ok", "Err"} => v.payload \in V
    /\ v.tag = "Closure" =>
         /\ v.expression \in Code /\ v.expression.kind = "Closure"
         /\ \A i \in DOMAIN v.expression.captures :
              v.captured[v.expression.captures[i]] \in V

IsValue(v)   == \E V : v \in V /\ Sound(V)
AreValues(s) == IsSequence(s) /\ \A i \in DOMAIN s : IsValue(s[i])

LEMMA ValueParts ==
  ASSUME NEW v, IsValue(v)
  PROVE  /\ v.size \in Nat
         /\ v.tag \in {"Array", "Struct"} => AreValues(v.elements)
         /\ v.tag \in {"Ok", "Err"} => IsValue(v.payload)
         /\ v.tag = "Closure" =>
              /\ v.expression \in Code /\ v.expression.kind = "Closure"
              /\ \A i \in DOMAIN v.expression.captures :
                   IsValue(v.captured[v.expression.captures[i]])
<1>1. PICK V : v \in V /\ Sound(V)
  BY DEF IsValue
<1>2. \A x \in V : IsValue(x)
  BY <1>1 DEF IsValue
<1>3. v.tag \in {"Array", "Struct"} => AreValues(v.elements)
  <2> SUFFICES ASSUME v.tag \in {"Array", "Struct"} PROVE AreValues(v.elements)
    OBVIOUS
  <2>1. v.elements \in Seq(V)
    BY <1>1 DEF Sound
  <2>2. IsSequence(v.elements)
    BY <2>1, SequenceOf
  <2> QED BY <1>2, <2>1, <2>2 DEF AreValues
<1> QED
  BY <1>1, <1>2, <1>3 DEF Sound

LEMMA SoundUnion ==
  ASSUME NEW T, \A V \in T : Sound(V)
  PROVE  Sound(UNION T)
<1> SUFFICES ASSUME NEW V \in T, NEW v \in V
             PROVE  /\ v.size \in Nat
                    /\ v.tag \in {"Array", "Struct"} => v.elements \in Seq(UNION T)
                    /\ v.tag \in {"Ok", "Err"} => v.payload \in UNION T
                    /\ v.tag = "Closure" =>
                         /\ v.expression \in Code /\ v.expression.kind = "Closure"
                         /\ \A i \in DOMAIN v.expression.captures :
                              v.captured[v.expression.captures[i]] \in UNION T
  BY DEF Sound
<1>1. Sound(V)
  OBVIOUS
<1>2. \A s \in Seq(V) : s \in Seq(UNION T)
  OBVIOUS
<1> QED
  BY <1>1, <1>2 DEF Sound

(* A new value, from parts that are values.                                *)
LEMMA NewValue ==
  ASSUME NEW v, v.size \in Nat,
         v.tag \in {"Array", "Struct"} => AreValues(v.elements),
         v.tag \in {"Ok", "Err"} => IsValue(v.payload),
         v.tag = "Closure" =>
           /\ v.expression \in Code /\ v.expression.kind = "Closure"
           /\ \A i \in DOMAIN v.expression.captures :
                IsValue(v.captured[v.expression.captures[i]])
  PROVE  IsValue(v)
<1> DEFINE Within(x) == CHOOSE V : x \in V /\ Sound(V)
           Parts == CASE v.tag \in {"Array", "Struct"} -> {v.elements[i] : i \in DOMAIN v.elements}
                      [] v.tag \in {"Ok", "Err"} -> {v.payload}
                      [] v.tag = "Closure" ->
                           {v.captured[v.expression.captures[i]] :
                              i \in DOMAIN v.expression.captures}
                      [] OTHER -> {}
           U == UNION {Within(x) : x \in Parts}
           W == U \cup {v}
<1>1. \A x \in Parts : IsValue(x)
  BY DEF AreValues
<1>2. \A x \in Parts : x \in Within(x) /\ Sound(Within(x))
  BY <1>1 DEF IsValue
<1> HIDE DEF Within
<1>3. Sound(U) /\ Parts \subseteq U
  <2> HIDE DEF Parts
  <2> QED BY <1>2, SoundUnion
<1>4. \A s \in Seq(U) : s \in Seq(W)
  <2> HIDE DEF U
  <2> QED OBVIOUS
<1>5. v.tag \in {"Array", "Struct"} => v.elements \in Seq(W)
  <2> SUFFICES ASSUME v.tag \in {"Array", "Struct"} PROVE v.elements \in Seq(W)
    OBVIOUS
  <2>1. IsSequence(v.elements)
    BY DEF AreValues
  <2>2. \A i \in DOMAIN v.elements : v.elements[i] \in Parts
    OBVIOUS
  <2>3. \A i \in DOMAIN v.elements : v.elements[i] \in U
    BY <1>3, <2>2
  <2> HIDE DEF U, Parts
  <2>4. v.elements \in Seq(U)
    BY <2>1, <2>3, SequenceWithin
  <2> QED BY <1>4, <2>4
<1>6. v.tag \in {"Ok", "Err"} => v.payload \in U
  <2>1. v.tag \in {"Ok", "Err"} => v.payload \in Parts
    OBVIOUS
  <2> QED BY <1>3, <2>1
<1>7. v.tag = "Closure" => \A i \in DOMAIN v.expression.captures :
                             v.captured[v.expression.captures[i]] \in U
  <2>1. v.tag = "Closure" => \A i \in DOMAIN v.expression.captures :
                               v.captured[v.expression.captures[i]] \in Parts
    OBVIOUS
  <2> QED BY <1>3, <2>1
<1> HIDE DEF U, Parts
<1>8. Sound(W)
  BY <1>3, <1>4, <1>5, <1>6, <1>7 DEF Sound
<1> QED
  BY <1>8 DEF IsValue


LEMMA PlainValues ==
  ASSUME NEW b, NEW site
  PROVE  IsValue(Unit) /\ IsValue(Bool(b)) /\ IsValue(Integer(site))
<1>1. IsValue(Unit)
  BY NewValue DEF Unit
<1>2. IsValue(Bool(b))
  BY NewValue DEF Bool
<1>3. IsValue(Integer(site))
  BY NewValue DEF Integer
<1> QED
  BY <1>1, <1>2, <1>3

LEMMA SizesOfValues ==
  ASSUME NEW s, AreValues(s)
  PROVE  /\ Sizes(s) \in Nat
         /\ s = <<>> => Sizes(s) = 0
         /\ s # <<>> => Sizes(s) = Sizes(Front(s)) + Last(s).size
<1>1. s \in Seq(ToSet(s))
  BY DEF AreValues, IsSequence
<1>2. \A i \in DOMAIN s : s[i].size \in Nat
  BY ValueParts DEF AreValues
<1> QED
  BY <1>1, <1>2, SizesOf

LEMMA ArrayValue ==
  ASSUME NEW s, AreValues(s)
  PROVE  IsValue(Array(s))
<1>1. Sizes(s) \in Nat
  BY SizesOfValues
<1> QED
  BY <1>1, NewValue DEF Array

LEMMA StructValue ==
  ASSUME NEW s, AreValues(s)
  PROVE  IsValue(Struct(s))
<1>1. Sizes(s) \in Nat /\ Len(s) \in Nat
  BY SizesOfValues, SequenceFacts DEF AreValues
<1> QED
  BY <1>1, NewValue DEF Struct

LEMMA FunctionIsValue ==
  ASSUME NEW name
  PROVE  IsValue(FunctionValue(name))
  BY NewValue DEF FunctionValue

LEMMA ReplacedElement ==
  ASSUME NEW s, AreValues(s), NEW i \in DOMAIN s, NEW v, IsValue(v)
  PROVE  AreValues([s EXCEPT ![i] = v])
<1> DEFINE t == [s EXCEPT ![i] = v]
           n == Len(s)
<1>1. IsSequence(s) /\ n \in Nat /\ DOMAIN s = 1..n
  BY SequenceFacts DEF AreValues
<1>2. s = [j \in 1..n |-> s[j]]
  BY <1>1 DEF IsSequence
<1>3. \A j \in 1..n : t[j] = IF j = i THEN v ELSE s[j]
  BY <1>1, <1>2
<1>4. t = [j \in 1..n |-> t[j]] /\ DOMAIN t = 1..n
  BY <1>1, <1>2
<1> HIDE DEF t
<1>5. IsSequence(t)
  BY <1>1, <1>4, Tabulated
<1>6. \A j \in DOMAIN t : IsValue(t[j])
  BY <1>1, <1>3, <1>4 DEF AreValues
<1> QED
  BY <1>5, <1>6 DEF AreValues, t

(* Arguments in the order of their parameters, and the fields of a place.  *)
LEMMA OrderedValues ==
  ASSUME NEW s, AreValues(s), NEW order \in Seq(Nat), Len(order) = Len(s),
         ToSet(order) = DOMAIN s
  PROVE  AreValues(InOrder(s, order))
<1> DEFINE t == InOrder(s, order)
           n == Len(s)
<1>1. IsSequence(s) /\ n \in Nat /\ DOMAIN s = 1..n
  BY SequenceFacts DEF AreValues
<1>2. t = [p \in 1..n |-> t[p]] /\ DOMAIN t = 1..n
  BY <1>1 DEF InOrder
<1>3. ASSUME NEW p \in 1..n PROVE IsValue(t[p])
  <2>1. t[p] = s[CHOOSE i \in DOMAIN order : order[i] = p]
    BY <1>1, <1>3 DEF InOrder
  <2>2. \E i \in DOMAIN order : order[i] = p
    BY <1>1, <1>3 DEF ToSet
  <2>3. (CHOOSE i \in DOMAIN order : order[i] = p) \in DOMAIN order
    BY <2>2
  <2>4. DOMAIN order = DOMAIN s
    BY <1>1
  <2> QED BY <2>1, <2>3, <2>4 DEF AreValues
<1> HIDE DEF t
<1>4. IsSequence(t)
  BY <1>1, <1>2, Tabulated
<1> QED
  BY <1>2, <1>3, <1>4 DEF AreValues, t

LEMMA ProjectedValue ==
  ASSUME NEW v, IsValue(v), NEW field, Projects(v, field)
  PROVE  IsValue(Projected(v, field))
<1>1. CASE field = 0
  BY <1>1 DEF Projected
<1>2. CASE field # 0
  <2>1. v.tag = "Struct" /\ field \in DOMAIN v.elements
    BY <1>2 DEF Projects
  <2>2. AreValues(v.elements)
    BY <2>1, ValueParts
  <2> QED BY <1>2, <2>1, <2>2 DEF Projected, AreValues
<1> QED
  BY <1>1, <1>2

LEMMA StoredValue ==
  ASSUME NEW v, IsValue(v), NEW field, Projects(v, field), NEW new, IsValue(new)
  PROVE  IsValue(Stored(v, field, new))
<1>1. CASE field = 0
  BY <1>1 DEF Stored
<1>2. CASE field # 0
  <2>1. v.tag = "Struct" /\ field \in DOMAIN v.elements
    BY <1>2 DEF Projects
  <2>2. AreValues([v.elements EXCEPT ![field] = new])
    BY <2>1, ValueParts, ReplacedElement
  <2> QED BY <1>2, <2>2, StructValue DEF Stored
<1> QED
  BY <1>1, <1>2

LEMMA VariantValue ==
  ASSUME NEW name \in {"Ok", "Err"}, NEW v, IsValue(v)
  PROVE  IsValue(Variant(name, v))
<1>1. v.size \in Nat
  BY ValueParts
<1> QED
  BY <1>1, NewValue DEF Variant

LEMMA ClosureValue ==
  ASSUME NEW e \in Code, e.kind = "Closure", NEW captured,
         \A i \in DOMAIN e.captures : IsValue(captured[e.captures[i]])
  PROVE  IsValue(Closure(e, captured))
<1>1. IsSequence(e.captures)
  BY CodeAssumption DEF IsHirExpression
<1>2. \A i \in DOMAIN e.captures : captured[e.captures[i]].size \in Nat
  BY ValueParts
<1>3. CapturedSizes(captured, e.captures) \in Nat
  BY <1>1, <1>2, CapturedOf DEF IsSequence
<1>4. 16 + CapturedSizes(captured, e.captures) \in Nat
  BY <1>3
<1>5. Closure(e, captured).size \in Nat
  BY <1>4 DEF Closure
<1>6. /\ Closure(e, captured).tag = "Closure" /\ Closure(e, captured).expression = e
      /\ Closure(e, captured).captured = captured
  BY DEF Closure
<1> QED
  BY <1>5, <1>6, NewValue

LEMMA CoercedValue ==
  ASSUME NEW v, IsValue(v), NEW type
  PROVE  Coerced(v, type) = NoValue \/ IsValue(Coerced(v, type))
  BY VariantValue DEF Coerced

LEMMA LeafOfValue ==
  ASSUME NEW e \in Code, e.kind = "Leaf", NEW choice \in BOOLEAN
  PROVE  IsValue(LeafValue(e, choice))
<1>1. e.type \in {"Unit", "Bool", "Int", "Array", "Result"} /\ (e.type = "Array" => e.length \in Nat)
  BY CodeAssumption DEF IsHirExpression
<1>2. IsValue(Integer(e.site)) /\ IsValue(Unit) /\ IsValue(Bool(choice))
  BY PlainValues
<1>3. CASE e.type = "Array"
  <2> DEFINE s == [i \in 1..e.length |-> Integer(e.site)]
  <2>1. IsSequence(s) /\ DOMAIN s = 1..e.length
    BY <1>1, <1>3, Tabulated
  <2>2. AreValues(s)
    BY <1>2, <2>1 DEF AreValues
  <2>3. LeafValue(e, choice) = Array(s)
    BY <1>3 DEF LeafValue
  <2> HIDE DEF s
  <2> QED BY <2>2, <2>3, ArrayValue
<1>4. CASE e.type = "Result"
  <2>1. LeafValue(e, choice) = Variant(IF choice THEN "Ok" ELSE "Err", Integer(e.site))
    BY <1>4 DEF LeafValue
  <2> QED BY <1>2, <2>1, VariantValue
<1>5. CASE e.type \in {"Unit", "Bool", "Int"}
  BY <1>2, <1>5 DEF LeafValue
<1> QED
  BY <1>1, <1>3, <1>4, <1>5

(* The locals of a frame and the bindings of a pattern.                    *)
AreLocals(f) == IsFiniteSet(DOMAIN f) /\ \A l \in DOMAIN f : IsValue(f[l])

LEMMA BoundValues ==
  ASSUME NEW v, IsValue(v), NEW p, IsPattern(p), Fits(v, p)
  PROVE  AreLocals(Bindings(v, p))
<1>1. p.variant # "any" => IsValue(v.payload)
  BY ValueParts DEF IsPattern, Fits
<1>2. CASE p.local = ""
  <2>1. Bindings(v, p) = <<>>
    BY <1>2 DEF Bindings
  <2>2. DOMAIN Bindings(v, p) = {}
    BY <2>1
  <2> QED BY <2>2, FS_EmptySet DEF AreLocals
<1>3. CASE p.local # ""
  <2>1. Bindings(v, p) = [l \in {p.local} |-> IF p.variant = "any" THEN v ELSE v.payload]
    BY <1>3 DEF Bindings
  <2>2. DOMAIN Bindings(v, p) = {p.local} /\ \A l \in {p.local} : IsValue(Bindings(v, p)[l])
    BY <1>1, <2>1
  <2> QED BY <2>2, FS_Singleton DEF AreLocals
<1> QED
  BY <1>2, <1>3

LEMMA SizedLocals ==
  ASSUME NEW locals, AreLocals(locals)
  PROVE  AreSized(locals)
  BY ValueParts DEF AreLocals, AreSized


LEMMA LocalsWithout ==
  ASSUME NEW locals, AreSized(locals), NEW S,
         NEW W, Weighs(W, LocalSizes(locals), DOMAIN locals)
  PROVE  LET gone == S \cap DOMAIN locals
         IN /\ AreSized(Without(locals, S)) /\ W[gone] \in Nat
            /\ LocalsMemory(Without(locals, S)) = LocalsMemory(locals) - W[gone]
<1> DEFINE D    == DOMAIN locals
           gone == S \cap D
           kept == D \ S
           new  == Without(locals, S)
<1>1. DOMAIN new = kept /\ \A l \in kept : new[l] = locals[l]
  BY DEF Without
<1>2. IsFiniteSet(D) /\ IsFiniteSet(gone) /\ IsFiniteSet(kept)
  <2>1. IsFiniteSet(D) /\ gone \subseteq D /\ kept \subseteq D
    BY DEF AreSized
  <2> QED BY <2>1, FS_Subset
<1> HIDE DEF new
<1>3. AreSized(new)
  BY <1>1, <1>2 DEF AreSized
<1>4. PICK X : Weighs(X, LocalSizes(new), DOMAIN new)
  BY <1>3, LocalsOf
<1>5. X[kept] = W[kept]
  <2>1. \A l \in kept : LocalSizes(new)[l] = LocalSizes(locals)[l]
    BY <1>1 DEF LocalSizes
  <2>2. kept \in SUBSET DOMAIN new /\ kept \subseteq D
    BY <1>1
  <2> HIDE DEF kept
  <2> QED BY <1>2, <1>4, <2>1, <2>2, WeightUnique
<1>6. W[kept \cup gone] = W[kept] + W[gone]
  <2>1. kept \in SUBSET D /\ gone \in SUBSET D /\ kept \cap gone = {}
    OBVIOUS
  <2>2. \A l \in D : LocalSizes(locals)[l] \in Nat
    BY DEF LocalSizes, AreSized
  <2> HIDE DEF kept, gone
  <2> QED BY <1>2, <2>1, <2>2, WeightAdds
<1>7. kept \cup gone = D /\ W[kept] \in Nat /\ W[gone] \in Nat
  BY DEF Weighs
<1>8. LocalsMemory(new) = X[DOMAIN new] /\ LocalsMemory(locals) = W[D]
  BY <1>3, <1>4, LocalsWeight
<1>9. LocalsMemory(new) = LocalsMemory(locals) - W[gone]
  <2> HIDE DEF kept, gone
  <2> QED BY <1>1, <1>5, <1>6, <1>7, <1>8
<1> QED
  BY <1>3, <1>7, <1>9 DEF new

-----------------------------------------------------------------------------
(***************************************************************************)
(* Controls, frames and machines.                                          *)
(***************************************************************************)

AreCases(cases) == IsSequence(cases) /\ \A i \in DOMAIN cases : IsCase(cases[i])

(* What ends a frame that module EvaluationEngine opens, for a root or for  *)
(* a constant: it is the first control of that frame, and of no other.     *)
EngineFrames == {"root", "constant"}
Ending(callable) == IF callable = "root" THEN "FinishRoot" ELSE "FinishConstant"

IsControl(c) ==
  /\ c.op \notin {"FinishRoot", "FinishConstant"}
  /\ c.op = "Constant"   => c.id \in Identities
  /\ c.op = "Expression" => c.expression \in Code
  /\ c.op = "Statement"  => c.statement \in Code
  /\ c.op = "Block"      => /\ DOMAIN c = {"op", "statements", "index"}
                            /\ c.statements \in Seq(Code) /\ c.index \in Nat \ {0}
  /\ c.op = "EndScope"   => DOMAIN c = {"op", "deferred"} /\ c.deferred \in Seq(Code)
  /\ c.op \in {FinishOp[k] : k \in DOMAIN FinishOp} =>
       /\ c.expression \in Code /\ c.expression.kind \in DOMAIN FinishOp
       /\ c.op = FinishOp[c.expression.kind]
  /\ c.op = "SelectBranch"        => c.statement \in Code /\ c.statement.kind = "If"
  /\ c.op = "SelectPatternBranch" => c.statement \in Code /\ c.statement.kind = "IfPattern"
  /\ c.op = "FinishFor"           => c.statement \in Code /\ c.statement.kind = "For"
  /\ c.op = "ForNext" => /\ DOMAIN c = {"op", "statement", "index", "values"}
                         /\ c.statement \in Code /\ c.statement.kind = "For"
                         /\ AreValues(c.values) /\ c.index \in Nat \ {0}
  /\ c.op \in {"WhileNext", "FinishWhileCondition"} =>
       /\ DOMAIN c = {"op", "statement", "remaining"}
       /\ c.statement \in Code /\ c.statement.kind = "While"
  /\ c.op = "FinishMatch" => AreCases(c.cases)
  /\ c.op \in {"TryMatch", "FinishMatchGuard"} =>
       /\ DOMAIN c = {"op", "cases", "value", "index"}
       /\ AreCases(c.cases) /\ IsValue(c.value) /\ c.index \in Nat \ {0}
  /\ c.op = "FinishMatchGuard" => c.index \in DOMAIN c.cases

AreControls(s) == IsSequence(s) /\ \A i \in DOMAIN s : IsControl(s[i])

(* Otherwise such a frame evaluates an expression only: it has no scopes    *)
(* and no locals.                                                          *)
IsPlain(c) == c.op \in {"Expression", "Constant", "FinishArray", "FinishCall", "FinishBinary",
                        "FinishNegate", "FinishShortCircuit", "FinishReadPlace",
                        "FinishPropagate"}
ArePlain(s) == \A i \in DOMAIN s : IsPlain(s[i])

Guarded(callable, s) ==
  /\ IsSequence(s) /\ s # <<>> /\ s[1].op = Ending(callable)
  /\ \A i \in DOMAIN s : i # 1 => IsControl(s[i]) /\ IsPlain(s[i])

Allowed(callable, s) == IF callable \in EngineFrames THEN Guarded(callable, s) ELSE AreControls(s)

Bare(f) == f.callable \in EngineFrames =>
             f.returns = "" /\ DOMAIN f.locals = {} /\ "entered" \in DOMAIN f

FrameFields == {"returns", "callable", "controls", "values", "locals", "writebacks"}

IsFrame(f) ==
  /\ FrameFields \subseteq DOMAIN f
  /\ Allowed(f.callable, f.controls) /\ AreValues(f.values) /\ AreLocals(f.locals)
  /\ IsSequence(f.writebacks) /\ Bare(f)

(* What no handler changes of a frame that stays.                          *)
Alike(f, g) == /\ f.callable = g.callable
               /\ f.callable \in EngineFrames => f.entered = g.entered

AreFrames(s) == IsSequence(s) /\ \A i \in DOMAIN s : IsFrame(s[i])

LEMMA ControlsConcat ==
  ASSUME NEW s, AreControls(s), NEW t, AreControls(t)
  PROVE  AreControls(s \o t)
<1>1. IsSequence(s) /\ IsSequence(t)
  BY DEF AreControls
<1>2. /\ IsSequence(s \o t) /\ Len(s \o t) = Len(s) + Len(t)
      /\ \A i \in 1..Len(s)+Len(t) : (s \o t)[i] = IF i <= Len(s) THEN s[i] ELSE t[i - Len(s)]
  BY <1>1, ConcatFacts
<1>3. /\ DOMAIN (s \o t) = 1..Len(s)+Len(t) /\ DOMAIN s = 1..Len(s) /\ DOMAIN t = 1..Len(t)
      /\ Len(s) \in Nat /\ Len(t) \in Nat
  BY <1>1, <1>2, SequenceFacts
<1>4. ASSUME NEW i \in DOMAIN (s \o t) PROVE IsControl((s \o t)[i])
  <2>1. CASE i <= Len(s)
    BY <1>2, <1>3, <2>1 DEF AreControls
  <2>2. CASE ~ i <= Len(s)
    <3>1. i - Len(s) \in DOMAIN t
      BY <1>3, <2>2
    <3> QED BY <1>2, <1>3, <2>2, <3>1 DEF AreControls
  <2> QED BY <2>1, <2>2
<1> QED
  BY <1>2, <1>4 DEF AreControls

LEMMA AllowedConcat ==
  ASSUME NEW callable, NEW s, Allowed(callable, s), NEW t, AreControls(t),
         callable \in EngineFrames => ArePlain(t)
  PROVE  Allowed(callable, s \o t)
<1>1. CASE callable \notin EngineFrames
  BY <1>1, ControlsConcat DEF Allowed
<1>2. CASE callable \in EngineFrames
  <2>1. Guarded(callable, s) /\ IsSequence(s) /\ IsSequence(t) /\ s # <<>>
    BY <1>2 DEF Allowed, Guarded, AreControls
  <2>2. /\ IsSequence(s \o t) /\ Len(s \o t) = Len(s) + Len(t)
        /\ \A i \in 1..Len(s)+Len(t) : (s \o t)[i] = IF i <= Len(s) THEN s[i] ELSE t[i - Len(s)]
    BY <2>1, ConcatFacts
  <2>3. /\ DOMAIN (s \o t) = 1..Len(s)+Len(t) /\ DOMAIN s = 1..Len(s) /\ DOMAIN t = 1..Len(t)
        /\ Len(s) \in Nat \ {0} /\ Len(t) \in Nat
    BY <2>1, <2>2, SequenceFacts, FrontFacts
  <2> DEFINE u == s \o t
  <2> HIDE DEF u
  <2>4. u[1] = s[1] /\ u # <<>>
    <3>1. 1 \in 1..Len(s)+Len(t) /\ 1 <= Len(s)
      BY <2>3
    <3>2. u # <<>>
      <4>1. Len(u) # 0
        BY <2>2, <2>3 DEF u
      <4> QED BY <4>1
    <3> QED BY <2>2, <3>1, <3>2 DEF u
  <2>5. ASSUME NEW i \in DOMAIN u, i # 1 PROVE IsControl(u[i]) /\ IsPlain(u[i])
    <3>1. CASE i <= Len(s)
      <4>1. i \in DOMAIN s /\ u[i] = s[i]
        BY <2>2, <2>3, <3>1 DEF u
      <4> QED BY <2>1, <2>5, <4>1 DEF Guarded
    <3>2. CASE ~ i <= Len(s)
      <4>1. i - Len(s) \in DOMAIN t /\ u[i] = t[i - Len(s)]
        BY <2>2, <2>3, <3>2 DEF u
      <4> QED BY <1>2, <4>1 DEF AreControls, ArePlain
    <3> QED BY <3>1, <3>2
  <2> QED BY <1>2, <2>1, <2>2, <2>4, <2>5 DEF Allowed, Guarded, u
<1> QED
  BY <1>1, <1>2

LEMMA FewControls ==
  ASSUME NEW c, IsControl(c), NEW d, IsControl(d), NEW e, IsControl(e), NEW f, IsControl(f)
  PROVE  /\ AreControls(<<>>) /\ AreControls(<<c>>) /\ AreControls(<<c, d>>)
         /\ AreControls(<<c, d, e>>) /\ AreControls(<<c, d, e, f>>)
<1>1. AreControls(<<>>)
  <2>1. IsSequence(<<>>)
    BY <<>> \in Seq({}), SequenceOf
  <2>2. DOMAIN <<>> = {}
    OBVIOUS
  <2> QED BY <2>1, <2>2 DEF AreControls
<1>2. AreControls(<<c>>)
  <2>1. <<c>> \in Seq({c}) /\ DOMAIN <<c>> = {1} /\ <<c>>[1] = c
    OBVIOUS
  <2> QED BY <2>1, SequenceOf DEF AreControls
<1>3. AreControls(<<c, d>>)
  <2>1. <<c, d>> \in Seq({c, d}) /\ DOMAIN <<c, d>> = {1, 2} /\ <<c, d>>[1] = c /\ <<c, d>>[2] = d
    OBVIOUS
  <2> QED BY <2>1, SequenceOf DEF AreControls
<1>4. AreControls(<<c, d, e>>)
  <2> DEFINE s == <<c, d, e>>
  <2>1. s \in Seq({c, d, e}) /\ DOMAIN s = {1, 2, 3} /\ s[1] = c /\ s[2] = d /\ s[3] = e
    OBVIOUS
  <2> HIDE DEF s
  <2>2. AreControls(s)
    BY <2>1, SequenceOf DEF AreControls
  <2> QED BY <2>2 DEF s
<1>5. AreControls(<<c, d, e, f>>)
  <2> DEFINE s == <<c, d, e, f>>
  <2>1. s \in Seq({c, d, e, f}) /\ DOMAIN s = {1, 2, 3, 4} /\ s[1] = c /\ s[2] = d /\ s[3] = e /\ s[4] = f
    OBVIOUS
  <2> HIDE DEF s
  <2>2. AreControls(s)
    BY <2>1, SequenceOf DEF AreControls
  <2> QED BY <2>2 DEF s
<1> QED
  BY <1>1, <1>2, <1>3, <1>4, <1>5

LEMMA ControlsFront ==
  ASSUME NEW s, AreControls(s), s # <<>>
  PROVE  AreControls(Front(s)) /\ IsControl(Last(s))
<1>1. /\ Len(s) \in Nat \ {0} /\ IsSequence(Front(s)) /\ Len(Front(s)) = Len(s) - 1
      /\ \A i \in 1..Len(s)-1 : Front(s)[i] = s[i]
      /\ Last(s) = s[Len(s)] /\ Len(s) \in DOMAIN s
  BY FrontFacts DEF AreControls
<1>2. DOMAIN Front(s) = 1..Len(s)-1 /\ DOMAIN s = 1..Len(s)
  BY <1>1, SequenceFacts DEF AreControls
<1>3. \A i \in 1..Len(s)-1 : i \in DOMAIN s
  BY <1>1, <1>2
<1> QED
  BY <1>1, <1>2, <1>3 DEF AreControls


LEMMA MemoryOfFrame ==
  ASSUME NEW f, IsFrame(f)
  PROVE  /\ FrameMemory(f) = 64 + Sizes(f.values) + LocalsMemory(f.locals)
         /\ Sizes(f.values) \in Nat /\ LocalsMemory(f.locals) \in Nat
         /\ FrameMemory(f) \in Nat
<1>1. FrameMemory(f) = 64 + Sizes(f.values) + LocalsMemory(f.locals)
  BY DEF FrameMemory, LocalsMemory
<1>2. Sizes(f.values) \in Nat
  BY SizesOfValues DEF IsFrame
<1>3. LocalsMemory(f.locals) \in Nat
  BY SizedLocals, LocalsOf DEF IsFrame
<1> QED
  BY <1>1, <1>2, <1>3

LEMMA NewControls ==
  ASSUME NEW f, IsFrame(f), NEW controls, Allowed(f.callable, controls)
  PROVE  LET g == [f EXCEPT !.controls = controls]
         IN IsFrame(g) /\ FrameMemory(g) = FrameMemory(f) /\ Alike(g, f)
<1> DEFINE g == [f EXCEPT !.controls = controls]
<1>1. /\ DOMAIN g = DOMAIN f /\ g.controls = controls /\ g.values = f.values
      /\ g.locals = f.locals /\ g.callable = f.callable /\ g.returns = f.returns
      /\ g.writebacks = f.writebacks /\ ("entered" \in DOMAIN f => g.entered = f.entered)
  BY DEF IsFrame, FrameFields
<1> HIDE DEF g
<1>2. IsFrame(g) /\ Alike(g, f)
  BY <1>1 DEF IsFrame, Bare, Alike
<1>3. FrameMemory(g) = FrameMemory(f)
  BY <1>1, <1>2, MemoryOfFrame
<1> QED
  BY <1>2, <1>3 DEF g

LEMMA ValuesAppend ==
  ASSUME NEW s, AreValues(s), NEW v, IsValue(v)
  PROVE  AreValues(Append(s, v)) /\ Sizes(Append(s, v)) = Sizes(s) + v.size
<1> DEFINE t == Append(s, v)
<1>1. /\ IsSequence(t) /\ Len(t) = Len(s) + 1 /\ t # <<>>
      /\ \A i \in 1..Len(s) : t[i] = s[i]
      /\ t[Len(s) + 1] = v /\ Front(t) = s /\ Last(t) = v
  BY AppendFacts DEF AreValues
<1> HIDE DEF t
<1>2. DOMAIN t = 1..Len(s)+1 /\ DOMAIN s = 1..Len(s) /\ Len(s) \in Nat
  BY <1>1, SequenceFacts DEF AreValues
<1>3. AreValues(t)
  BY <1>1, <1>2 DEF AreValues
<1> QED
  BY <1>1, <1>3, SizesOfValues DEF t

LEMMA ValuesFront ==
  ASSUME NEW s, AreValues(s), s # <<>>
  PROVE  AreValues(Front(s)) /\ IsValue(Last(s)) /\ Sizes(s) = Sizes(Front(s)) + Last(s).size
<1>1. /\ Len(s) \in Nat \ {0} /\ IsSequence(Front(s)) /\ Len(Front(s)) = Len(s) - 1
      /\ \A i \in 1..Len(s)-1 : Front(s)[i] = s[i]
      /\ Last(s) = s[Len(s)] /\ Len(s) \in DOMAIN s
  BY FrontFacts DEF AreValues
<1>2. DOMAIN Front(s) = 1..Len(s)-1 /\ DOMAIN s = 1..Len(s)
  BY <1>1, SequenceFacts DEF AreValues
<1>3. \A i \in 1..Len(s)-1 : i \in DOMAIN s
  BY <1>1, <1>2
<1> QED
  BY <1>1, <1>2, <1>3, SizesOfValues DEF AreValues

LEMMA NewValues ==
  ASSUME NEW f, IsFrame(f), NEW values, AreValues(values)
  PROVE  LET g == [f EXCEPT !.values = values]
         IN /\ IsFrame(g) /\ Alike(g, f)
            /\ FrameMemory(g) = FrameMemory(f) - Sizes(f.values) + Sizes(values)
<1> DEFINE g == [f EXCEPT !.values = values]
<1>1. /\ DOMAIN g = DOMAIN f /\ g.controls = f.controls /\ g.values = values
      /\ g.locals = f.locals /\ g.callable = f.callable /\ g.returns = f.returns
      /\ g.writebacks = f.writebacks /\ ("entered" \in DOMAIN f => g.entered = f.entered)
  BY DEF IsFrame, FrameFields
<1> HIDE DEF g
<1>2. IsFrame(g) /\ Alike(g, f)
  BY <1>1 DEF IsFrame, Bare, Alike
<1>3. FrameMemory(g) = FrameMemory(f) - Sizes(f.values) + Sizes(values)
  BY <1>1, <1>2, MemoryOfFrame
<1> QED
  BY <1>2, <1>3 DEF g

LEMMA NewLocals ==
  ASSUME NEW f, IsFrame(f), f.callable \notin EngineFrames, NEW locals, AreLocals(locals)
  PROVE  LET g == [f EXCEPT !.locals = locals]
         IN /\ IsFrame(g) /\ Alike(g, f)
            /\ FrameMemory(g) = FrameMemory(f) - LocalsMemory(f.locals) + LocalsMemory(locals)
<1> DEFINE g == [f EXCEPT !.locals = locals]
<1>1. /\ DOMAIN g = DOMAIN f /\ g.controls = f.controls /\ g.values = f.values
      /\ g.locals = locals /\ g.callable = f.callable /\ g.writebacks = f.writebacks
  BY DEF IsFrame, FrameFields
<1> HIDE DEF g
<1>2. IsFrame(g) /\ Alike(g, f)
  BY <1>1 DEF IsFrame, Bare, Alike
<1>3. FrameMemory(g) = FrameMemory(f) - LocalsMemory(f.locals) + LocalsMemory(locals)
  BY <1>1, <1>2, MemoryOfFrame
<1> QED
  BY <1>2, <1>3 DEF g

(***************************************************************************)
(* The marks that the engine's frames carry, from the bottom: the frames   *)
(* themselves, and the identities of the constants among them.             *)
(***************************************************************************)

MarkOf(kind, f) ==
  IF kind = "engine"
  THEN IF f.callable \in EngineFrames
       THEN <<[callable |-> f.callable, entered |-> f.entered]>> ELSE <<>>
  ELSE IF f.callable = "constant" THEN <<f.entered.id>> ELSE <<>>

Marks(kind, frames) == FlattenSeq([i \in DOMAIN frames |-> MarkOf(kind, frames[i])])

LEMMA MarkFacts ==
  ASSUME NEW kind, NEW f
  PROVE  /\ IsSequence(MarkOf(kind, f)) /\ Len(MarkOf(kind, f)) \in {0, 1}
         /\ f.callable \notin EngineFrames => MarkOf(kind, f) = <<>>
<1>1. IsSequence(<<>>) /\ Len(<<>>) = 0
  BY <<>> \in Seq({}), SequenceOf
<1>2. \A x : IsSequence(<<x>>) /\ Len(<<x>>) = 1
  <2> TAKE x
  <2>1. <<x>> \in Seq({x}) /\ Len(<<x>>) = 1
    OBVIOUS
  <2> QED BY <2>1, SequenceOf
<1> QED
  BY <1>1, <1>2 DEF MarkOf, EngineFrames

(* The marks of a stack are those of the frames below and the top one's.   *)
LEMMA MarksOf ==
  ASSUME NEW kind, NEW s, IsSequence(s)
  PROVE  /\ s = <<>> => Marks(kind, s) = <<>>
         /\ s # <<>> => Marks(kind, s) = Marks(kind, Front(s)) \o MarkOf(kind, Last(s))
<1> DEFINE n == Len(s)
           t == [i \in DOMAIN s |-> MarkOf(kind, s[i])]
<1>1. n \in Nat /\ DOMAIN s = 1..n
  BY SequenceFacts
<1>2. t = [i \in 1..n |-> t[i]] /\ \A i \in 1..n : t[i] = MarkOf(kind, s[i])
  BY <1>1
<1>3. \A i \in 1..n : IsSequence(t[i])
  BY <1>2, MarkFacts
<1>4. Marks(kind, s) = FlattenSeq(t)
  BY DEF Marks
<1> HIDE DEF t
<1>5. /\ n = 0 => FlattenSeq(t) = <<>>
      /\ n > 0 => FlattenSeq(t) = FlattenSeq([i \in 1..n-1 |-> t[i]]) \o t[n]
  BY <1>1, <1>2, <1>3, FlattenLast DEF IsSequence
<1>6. CASE s = <<>>
  <2>1. n = 0
    BY <1>6
  <2> QED BY <1>4, <1>5, <1>6, <2>1
<1>7. CASE s # <<>>
  <2>1. /\ n \in Nat \ {0} /\ IsSequence(Front(s)) /\ Len(Front(s)) = n - 1
        /\ \A i \in 1..n-1 : Front(s)[i] = s[i]
        /\ Last(s) = s[n]
    BY <1>7, FrontFacts
  <2>2. DOMAIN Front(s) = 1..n-1
    BY <2>1, SequenceFacts
  <2>3. [i \in 1..n-1 |-> t[i]] = [i \in DOMAIN Front(s) |-> MarkOf(kind, Front(s)[i])]
    BY <1>2, <2>1, <2>2
  <2>4. Marks(kind, Front(s)) = FlattenSeq([i \in 1..n-1 |-> t[i]])
    BY <2>3 DEF Marks
  <2>5. t[n] = MarkOf(kind, Last(s))
    BY <1>2, <2>1
  <2>6. FlattenSeq(t) = FlattenSeq([i \in 1..n-1 |-> t[i]]) \o t[n]
    BY <1>5, <2>1
  <2> QED BY <1>4, <1>7, <2>4, <2>5, <2>6
<1> QED
  BY <1>6, <1>7

LEMMA MarksAppend ==
  ASSUME NEW kind, NEW s, IsSequence(s), NEW f
  PROVE  Marks(kind, Append(s, f)) = Marks(kind, s) \o MarkOf(kind, f)
<1> DEFINE t == Append(s, f)
<1>1. IsSequence(t) /\ t # <<>> /\ Front(t) = s /\ Last(t) = f
  BY AppendFacts
<1> HIDE DEF t
<1>2. Marks(kind, t) = Marks(kind, s) \o MarkOf(kind, f)
  BY <1>1, MarksOf
<1> QED
  BY <1>2 DEF t

(* There are at most as many as frames.                                    *)
LEMMA MarksAreFew ==
  ASSUME NEW kind, NEW s, IsSequence(s)
  PROVE  IsSequence(Marks(kind, s)) /\ Len(Marks(kind, s)) \in Nat /\ Len(Marks(kind, s)) <= Len(s)
<1> DEFINE n == Len(s)
           Short(k) == [i \in 1..k |-> s[i]]
           Good(k)  == /\ IsSequence(Marks(kind, Short(k))) /\ Len(Marks(kind, Short(k))) \in Nat
                       /\ Len(Marks(kind, Short(k))) <= k
           G == {k \in 0..n : Good(k)}
<1>1. n \in Nat /\ s = Short(n)
  BY SequenceFacts
<1>2. ASSUME NEW k \in 0..n
      PROVE  /\ IsSequence(Short(k)) /\ Len(Short(k)) = k
             /\ k > 0 => Front(Short(k)) = Short(k - 1) /\ Short(k) # <<>>
  <2>1. k \in Nat /\ Short(k) = [i \in 1..k |-> Short(k)[i]]
    BY <1>1
  <2>2. IsSequence(Short(k)) /\ Len(Short(k)) = k /\ DOMAIN Short(k) = 1..k
    BY <2>1, Tabulated
  <2>3. ASSUME k > 0 PROVE Front(Short(k)) = Short(k - 1) /\ Short(k) # <<>>
    <3>1. Short(k) # <<>>
      BY <2>2, <2>3
    <3>2. /\ IsSequence(Front(Short(k))) /\ Len(Front(Short(k))) = k - 1
          /\ \A i \in 1..k-1 : Front(Short(k))[i] = Short(k)[i]
      BY <2>2, <3>1, FrontFacts
    <3>3. \A i \in 1..k-1 : Short(k)[i] = s[i]
      BY <2>1
    <3>4. Front(Short(k)) \in Seq(ToSet(Front(Short(k))))
      BY <3>2, SequenceFacts
    <3> DEFINE t == Front(Short(k))
    <3> HIDE DEF t
    <3>5. t = [i \in 1..k-1 |-> s[i]]
      BY <2>1, <2>3, <3>2, <3>3, <3>4 DEF t
    <3> QED BY <3>1, <3>5 DEF t
  <2> QED BY <2>2, <2>3
<1>3. 0 \in G
  <2>1. Short(0) = <<>> /\ 0 \in 0..n
    BY <1>1
  <2>2. IsSequence(<<>>) /\ Len(<<>>) = 0
    BY <<>> \in Seq({}), SequenceOf
  <2> QED BY <2>1, <2>2, MarksOf
<1>4. ASSUME NEW k \in 1..n, k - 1 \in G PROVE k \in G
  <2> DEFINE below == Marks(kind, Short(k - 1))
             own   == MarkOf(kind, Last(Short(k)))
  <2>1. k \in 0..n /\ k > 0 /\ k \in Nat
    BY <1>1
  <2>2. IsSequence(Short(k)) /\ Front(Short(k)) = Short(k - 1) /\ Short(k) # <<>>
    BY <1>2, <2>1
  <2>3. Marks(kind, Short(k)) = below \o own
    <3> HIDE DEF Short
    <3> QED BY <2>2, MarksOf
  <2>4. IsSequence(below) /\ Len(below) \in Nat /\ Len(below) <= k - 1
    BY <1>4
  <2>5. IsSequence(own) /\ Len(own) \in {0, 1}
    BY MarkFacts
  <2> HIDE DEF below, own, Short
  <2>6. IsSequence(below \o own) /\ Len(below \o own) = Len(below) + Len(own)
    BY <2>4, <2>5, ConcatFacts
  <2>7. Good(k)
    BY <2>1, <2>3, <2>4, <2>5, <2>6
  <2> HIDE DEF Good
  <2> QED BY <2>1, <2>7
<1> HIDE DEF G
<1>5. n \in G
  BY <1>1, <1>3, <1>4, Upto
<1> QED
  BY <1>1, <1>5 DEF G

(* The frame of a function or a closure has none.                          *)
LEMMA MarksOrdinary ==
  ASSUME NEW kind, NEW s, IsSequence(s), NEW f, f.callable \notin EngineFrames
  PROVE  /\ Marks(kind, Append(s, f)) = Marks(kind, s)
         /\ s # <<>> /\ Last(s) = f => Marks(kind, s) = Marks(kind, Front(s))
<1>1. MarkOf(kind, f) = <<>>
  BY MarkFacts
<1>2. ASSUME NEW t, IsSequence(t) PROVE Marks(kind, t) \o <<>> = Marks(kind, t)
  <2>1. Marks(kind, t) \in Seq(ToSet(Marks(kind, t)))
    BY <1>2, MarksAreFew, SequenceFacts
  <2> QED BY <2>1
<1>3. s # <<>> => IsSequence(Front(s))
  BY FrontFacts
<1> QED
  BY <1>1, <1>2, <1>3, MarksOf, MarksAppend

LEMMA MemoryOfFrames ==
  ASSUME NEW s, AreFrames(s)
  PROVE  /\ FramesMemory(s) \in Nat
         /\ s = <<>> => FramesMemory(s) = 0
         /\ s # <<>> => FramesMemory(s) = FramesMemory(Front(s)) + FrameMemory(Last(s))
<1>1. s \in Seq(ToSet(s))
  BY DEF AreFrames, IsSequence
<1>2. \A i \in DOMAIN s : FrameMemory(s[i]) \in Nat
  BY MemoryOfFrame DEF AreFrames
<1> QED
  BY <1>1, <1>2, FramesOf

LEMMA FramesAppend ==
  ASSUME NEW s, AreFrames(s), NEW f, IsFrame(f)
  PROVE  /\ AreFrames(Append(s, f)) /\ Len(Append(s, f)) = Len(s) + 1
         /\ FramesMemory(Append(s, f)) = FramesMemory(s) + FrameMemory(f)
<1> DEFINE t == Append(s, f)
<1>1. /\ IsSequence(t) /\ Len(t) = Len(s) + 1 /\ t # <<>>
      /\ \A i \in 1..Len(s) : t[i] = s[i]
      /\ t[Len(s) + 1] = f /\ Front(t) = s /\ Last(t) = f
  BY AppendFacts DEF AreFrames
<1> HIDE DEF t
<1>2. DOMAIN t = 1..Len(s)+1 /\ DOMAIN s = 1..Len(s) /\ Len(s) \in Nat
  BY <1>1, SequenceFacts DEF AreFrames
<1>3. AreFrames(t)
  BY <1>1, <1>2 DEF AreFrames
<1> QED
  BY <1>1, <1>3, MemoryOfFrames DEF t

LEMMA FramesFront ==
  ASSUME NEW s, AreFrames(s), s # <<>>
  PROVE  /\ AreFrames(Front(s)) /\ IsFrame(Last(s)) /\ Last(s) = s[Len(s)]
         /\ Len(s) \in Nat \ {0} /\ Len(Front(s)) = Len(s) - 1
         /\ FramesMemory(s) = FramesMemory(Front(s)) + FrameMemory(Last(s))
<1>1. /\ Len(s) \in Nat \ {0} /\ IsSequence(Front(s)) /\ Len(Front(s)) = Len(s) - 1
      /\ \A i \in 1..Len(s)-1 : Front(s)[i] = s[i]
      /\ Last(s) = s[Len(s)] /\ Len(s) \in DOMAIN s
  BY FrontFacts DEF AreFrames
<1>2. DOMAIN Front(s) = 1..Len(s)-1 /\ DOMAIN s = 1..Len(s)
  BY <1>1, SequenceFacts DEF AreFrames
<1>3. \A i \in 1..Len(s)-1 : i \in DOMAIN s
  BY <1>1, <1>2
<1> QED
  BY <1>1, <1>2, <1>3, MemoryOfFrames DEF AreFrames

(* A constant is evaluated for what is below it, which is where its value   *)
(* goes.                                                                   *)
Grounded(frames) == frames # <<>> => frames[1].callable # "constant"

LEMMA GroundedStack ==
  ASSUME NEW s, IsSequence(s), Grounded(s), NEW f, s = <<>> => f.callable # "constant"
  PROVE  Grounded(Append(s, f)) /\ (s # <<>> => Grounded(Front(s)))
<1>1. Len(s) \in Nat /\ (s # <<>> => Len(s) \in Nat \ {0})
  BY SequenceFacts, FrontFacts
<1>2. Append(s, f)[1] = IF s = <<>> THEN f ELSE s[1]
  <2>1. \A i \in 1..Len(s) : Append(s, f)[i] = s[i]
    BY AppendFacts
  <2>2. Append(s, f)[Len(s) + 1] = f /\ Len(<<>>) = 0
    BY AppendFacts
  <2> QED BY <1>1, <2>1, <2>2
<1>3. Grounded(Append(s, f))
  BY <1>2 DEF Grounded
<1>4. ASSUME s # <<>>, Front(s) # <<>> PROVE Front(s)[1] = s[1]
  <2>1. /\ IsSequence(Front(s)) /\ Len(Front(s)) = Len(s) - 1
        /\ \A i \in 1..Len(s)-1 : Front(s)[i] = s[i]
    BY <1>4, FrontFacts
  <2>2. Len(Front(s)) \in Nat \ {0}
    BY <1>4, <2>1, FrontFacts
  <2> QED BY <1>1, <2>1, <2>2
<1> QED
  BY <1>3, <1>4 DEF Grounded

LEMMA FramesReplaced ==
  ASSUME NEW s, AreFrames(s), s # <<>>, NEW f, IsFrame(f), Alike(f, s[Len(s)])
  PROVE  LET t == [s EXCEPT ![Len(s)] = f]
         IN /\ AreFrames(t) /\ Len(t) = Len(s) /\ t[Len(s)] = f
            /\ FramesMemory(t) = FramesMemory(s) - FrameMemory(s[Len(s)]) + FrameMemory(f)
            /\ \A kind : Marks(kind, t) = Marks(kind, s)
            /\ Grounded(s) => Grounded(t)
<1> DEFINE t == [s EXCEPT ![Len(s)] = f]
           n == Len(s)
<1>1. n \in Nat \ {0} /\ DOMAIN s = 1..n /\ s \in Seq(ToSet(s))
  BY FrontFacts, SequenceFacts DEF AreFrames
<1>2. t = [i \in 1..n |-> IF i = n THEN f ELSE s[i]]
  BY <1>1
<1> HIDE DEF t, n
<1>3. IsSequence(t) /\ Len(t) = n /\ DOMAIN t = 1..n
  <2>1. t = [i \in 1..n |-> t[i]]
    BY <1>2
  <2> QED BY <1>1, <2>1, Tabulated
<1>4. t[n] = f /\ \A i \in 1..n-1 : t[i] = s[i]
  BY <1>1, <1>2
<1>5. AreFrames(t)
  BY <1>1, <1>3, <1>4, <1>2 DEF AreFrames
<1>6. t # <<>>
  BY <1>1, <1>3
<1>7. /\ FramesMemory(s) = FramesMemory(Front(s)) + FrameMemory(s[n])
      /\ FramesMemory(t) = FramesMemory(Front(t)) + FrameMemory(f)
      /\ FramesMemory(Front(s)) \in Nat /\ FrameMemory(s[n]) \in Nat /\ FrameMemory(f) \in Nat
  BY <1>3, <1>4, <1>5, <1>6, FramesFront, MemoryOfFrames, MemoryOfFrame DEF n
<1>8. Front(t) = Front(s)
  <2>1. Front(s) = [i \in 1..n-1 |-> s[i]]
    BY <1>1 DEF Front, n
  <2>2. t \in Seq(ToSet(t))
    BY <1>3, SequenceFacts
  <2>3. Front(t) = [i \in 1..n-1 |-> t[i]]
    BY <1>1, <1>3, <2>2 DEF Front
  <2> QED BY <1>4, <2>1, <2>3
<1>9. FramesMemory(t) = FramesMemory(s) - FrameMemory(s[n]) + FrameMemory(f)
  BY <1>7, <1>8
<1>10. ASSUME NEW kind PROVE Marks(kind, t) = Marks(kind, s)
  <2>1. Last(t) = f /\ Last(s) = s[n] /\ IsSequence(s)
    BY <1>3, <1>4, FrontFacts DEF AreFrames, Last, n
  <2>2. MarkOf(kind, f) = MarkOf(kind, s[n])
    BY DEF MarkOf, Alike, EngineFrames, n
  <2> QED BY <1>3, <1>6, <1>8, <2>1, <2>2, MarksOf
<1>11. t[1].callable = s[1].callable
  <2>1. t[1] = s[1] \/ (t[1] = f /\ n = 1)
    BY <1>1, <1>2
  <2> QED BY <2>1 DEF Alike, n
<1>12. Grounded(s) => Grounded(t)
  BY <1>11 DEF Grounded
<1> QED
  BY <1>3, <1>4, <1>5, <1>9, <1>10, <1>12 DEF t, n


MachineFields == {"frames", "calls", "memory", "peak", "prior", "limits", "outcome"}

(* A running machine, to which `off` more is charged than its frames       *)
(* retain: a handler charges before or after it stores.                    *)
Live(m, off) ==
  /\ AreFrames(m.frames) /\ Grounded(m.frames) /\ IsSequence(m.calls)
  /\ Len(m.calls) = Len(m.frames) - Len(Marks("engine", m.frames))
  /\ Len(m.calls) <= m.limits.depth
  /\ m.memory = FramesMemory(m.frames) + off
  /\ m.peak \in Int /\ m.memory <= m.peak /\ m.peak <= m.limits.memory

(* What an outcome says of the machine that stopped with it.               *)
Stopped(m) ==
  LET o == m.outcome IN
  /\ o.kind \in {"Completed", "Panicked", "CreatorRejected"} => m.peak <= m.limits.memory
  /\ o.kind = "LimitExceeded" =>
       \/ o.of = "RootMemory" /\ m.peak > m.limits.memory
       \/ o.of = "CallDepth" /\ Len(m.calls) = m.limits.depth

(* What a handler does not change: the ceilings, what earlier roots used,   *)
(* and the frames that the engine opened.                                  *)
OfRoot(m, w) == /\ DOMAIN m = MachineFields
                /\ m.limits = w.limits /\ m.prior = w.prior /\ w.limits \in Ceilings

Marked(m, w) == Marks("engine", m.frames) = w.open /\ Marks("constant", m.frames) = w.ids

Reckoned(m, off, w) ==
  /\ OfRoot(m, w) /\ off \in Int
  /\ Running(m) => Live(m, off) /\ Marked(m, w)
  /\ ~ Running(m) => Stopped(m)

LEMMA StoppedReckoned ==
  ASSUME NEW m, NEW off, NEW w, Reckoned(m, off, w), ~ Running(m), NEW other \in Int
  PROVE  Reckoned(m, other, w)
  BY DEF Reckoned

LEMMA FailReckoned ==
  ASSUME NEW m, NEW off, NEW w, Reckoned(m, off, w),
         NEW kind \in {"Completed", "Panicked", "CreatorRejected", "Defect"}, NEW of,
         NEW other \in Int
  PROVE  Reckoned(Fail(m, kind, of), other, w) /\ ~ Running(Fail(m, kind, of))
<1> DEFINE r == Fail(m, kind, of)
<1>1. CASE Running(m)
  <2>1. r = [m EXCEPT !.outcome = [kind |-> kind, of |-> of]]
    BY <1>1 DEF Fail
  <2>2. /\ DOMAIN r = MachineFields /\ r.limits = m.limits /\ r.prior = m.prior
        /\ r.peak = m.peak /\ r.outcome = [kind |-> kind, of |-> of]
    BY <2>1 DEF Reckoned, OfRoot, MachineFields
  <2>3. m.peak <= m.limits.memory
    BY <1>1 DEF Reckoned, Live
  <2> HIDE DEF r
  <2>4. ~ Running(r) /\ Stopped(r)
    BY <2>2, <2>3 DEF Running, Stopped
  <2> QED BY <2>2, <2>4 DEF Reckoned, OfRoot, r
<1>2. CASE ~ Running(m)
  BY <1>2, StoppedReckoned DEF Fail
<1> QED
  BY <1>1, <1>2

LEMMA RetainReckoned ==
  ASSUME NEW m, NEW off, NEW w, Reckoned(m, off, w), NEW amount \in Nat
  PROVE  LET r == Retain(m, amount)
         IN /\ Reckoned(r, off + amount, w)
            /\ Running(r) => Running(m) /\ r.frames = m.frames /\ r.calls = m.calls
<1> DEFINE r    == Retain(m, amount)
           now  == m.memory + amount
           peak == IF now > m.peak THEN now ELSE m.peak
           kept == [m EXCEPT !.memory = now, !.peak = peak]
<1>0. off \in Int /\ off + amount \in Int
  BY DEF Reckoned
<1>1. CASE ~ Running(m)
  <2>1. r = m
    BY <1>1 DEF Retain
  <2> QED BY <1>0, <1>1, <2>1, StoppedReckoned
<1>2. CASE Running(m)
  <2>1. /\ AreFrames(m.frames) /\ m.memory = FramesMemory(m.frames) + off
        /\ m.peak \in Int /\ m.memory <= m.peak /\ m.peak <= m.limits.memory
        /\ DOMAIN m = MachineFields /\ m.limits.memory \in Nat
    BY <1>2 DEF Reckoned, Live, OfRoot, Ceilings
  <2>2. FramesMemory(m.frames) \in Nat
    BY <2>1, MemoryOfFrames
  <2>3. now \in Int /\ peak \in Int /\ now <= peak /\ now = FramesMemory(m.frames) + (off + amount)
    BY <1>0, <2>1, <2>2
  <2> HIDE DEF now, peak
  <2>4. /\ DOMAIN kept = MachineFields /\ kept.limits = m.limits /\ kept.prior = m.prior
        /\ kept.frames = m.frames /\ kept.calls = m.calls /\ kept.memory = now
        /\ kept.peak = peak /\ kept.outcome = m.outcome
    BY <2>1 DEF MachineFields
  <2> HIDE DEF kept
  <2>5. CASE peak > m.limits.memory
    <3>1. r = [kept EXCEPT !.outcome = [kind |-> "LimitExceeded", of |-> "RootMemory"]]
      BY <1>2, <2>4, <2>5 DEF Retain, Fail, Running, kept, now, peak
    <3>2. /\ DOMAIN r = MachineFields /\ r.limits = m.limits /\ r.prior = m.prior
          /\ r.peak = peak /\ r.outcome = [kind |-> "LimitExceeded", of |-> "RootMemory"]
      BY <2>4, <3>1 DEF MachineFields
    <3> HIDE DEF r
    <3>3. ~ Running(r) /\ Stopped(r)
      BY <2>5, <3>2 DEF Running, Stopped
    <3> QED BY <1>0, <3>2, <3>3 DEF Reckoned, OfRoot, r
  <2>6. CASE ~ peak > m.limits.memory
    <3>1. r = kept
      BY <1>2, <2>6 DEF Retain, kept, now, peak
    <3>2. peak <= m.limits.memory
      BY <2>1, <2>3, <2>6
    <3>3. Running(kept) /\ Live(kept, off + amount) /\ Marked(kept, w)
      BY <1>2, <2>3, <2>4, <3>2 DEF Reckoned, Live, Marked, Running
    <3> HIDE DEF r
    <3> QED BY <1>0, <1>2, <2>4, <3>1, <3>3 DEF Reckoned, OfRoot, r
  <2> QED BY <2>5, <2>6
<1> QED
  BY <1>1, <1>2

LEMMA ReleaseReckoned ==
  ASSUME NEW m, NEW off, NEW w, Reckoned(m, off, w), NEW amount \in Nat
  PROVE  LET r == Release(m, amount)
         IN /\ Reckoned(r, off - amount, w)
            /\ Running(r) => Running(m) /\ r.frames = m.frames /\ r.calls = m.calls
<1> DEFINE r    == Release(m, amount)
           kept == [m EXCEPT !.memory = @ - amount]
<1>0. off \in Int /\ off - amount \in Int
  BY DEF Reckoned
<1>1. CASE ~ Running(m)
  <2>1. r = m
    BY <1>1 DEF Release
  <2> QED BY <1>0, <1>1, <2>1, StoppedReckoned
<1>2. CASE Running(m) /\ amount > m.memory
  <2>1. r = Fail(m, "Defect", "memory accounting underflow")
    BY <1>2 DEF Release
  <2> QED BY <1>0, <2>1, FailReckoned
<1>3. CASE Running(m) /\ ~ amount > m.memory
  <2>1. /\ AreFrames(m.frames) /\ m.memory = FramesMemory(m.frames) + off
        /\ m.peak \in Int /\ m.memory <= m.peak /\ m.peak <= m.limits.memory
        /\ DOMAIN m = MachineFields
    BY <1>3 DEF Reckoned, Live, OfRoot
  <2>2. FramesMemory(m.frames) \in Nat
    BY <2>1, MemoryOfFrames
  <2>3. /\ DOMAIN kept = MachineFields /\ kept.limits = m.limits /\ kept.prior = m.prior
        /\ kept.frames = m.frames /\ kept.calls = m.calls /\ kept.memory = m.memory - amount
        /\ kept.peak = m.peak /\ kept.outcome = m.outcome
    BY <2>1 DEF MachineFields
  <2> HIDE DEF kept
  <2>4. r = kept
    BY <1>3 DEF Release, kept
  <2>5. /\ kept.memory = FramesMemory(kept.frames) + (off - amount) /\ kept.memory <= kept.peak
    BY <1>0, <2>1, <2>2, <2>3
  <2>6. Running(kept) /\ Live(kept, off - amount) /\ Marked(kept, w)
    BY <1>3, <2>3, <2>5 DEF Reckoned, Live, Marked, Running
  <2> HIDE DEF r
  <2> QED BY <1>0, <1>3, <2>3, <2>4, <2>6 DEF Reckoned, OfRoot, r
<1> QED
  BY <1>1, <1>2, <1>3

(* The same of a machine that has frames while it runs, the top one of a   *)
(* callable of the same kind.                                              *)
Topped(m, w) == m.frames # <<>> /\ Top(m).callable = w.top

Accounted(m, off, w) == Reckoned(m, off, w) /\ (Running(m) => Topped(m, w))

Ordinary(w) == w.top \notin EngineFrames

LEMMA StoppedAccounted ==
  ASSUME NEW m, NEW off, NEW w, Accounted(m, off, w), ~ Running(m), NEW other \in Int
  PROVE  Accounted(m, other, w)
  BY StoppedReckoned DEF Accounted

LEMMA FailAccounted ==
  ASSUME NEW m, NEW off, NEW w, Accounted(m, off, w),
         NEW kind \in {"Completed", "Panicked", "CreatorRejected", "Defect"}, NEW of,
         NEW other \in Int
  PROVE  Accounted(Fail(m, kind, of), other, w) /\ ~ Running(Fail(m, kind, of))
  BY FailReckoned DEF Accounted

LEMMA RetainAccounted ==
  ASSUME NEW m, NEW off, NEW w, Accounted(m, off, w), NEW amount \in Nat
  PROVE  LET r == Retain(m, amount)
         IN /\ Accounted(r, off + amount, w)
            /\ Running(r) => Running(m) /\ r.frames = m.frames /\ r.calls = m.calls
<1> DEFINE r == Retain(m, amount)
<1>1. /\ Reckoned(r, off + amount, w)
      /\ Running(r) => Running(m) /\ r.frames = m.frames /\ r.calls = m.calls
  BY RetainReckoned DEF Accounted
<1> HIDE DEF r
<1> QED
  BY <1>1 DEF Accounted, Topped, Top, Depth, r

LEMMA ReleaseAccounted ==
  ASSUME NEW m, NEW off, NEW w, Accounted(m, off, w), NEW amount \in Nat
  PROVE  LET r == Release(m, amount)
         IN /\ Accounted(r, off - amount, w)
            /\ Running(r) => Running(m) /\ r.frames = m.frames /\ r.calls = m.calls
<1> DEFINE r == Release(m, amount)
<1>1. /\ Reckoned(r, off - amount, w)
      /\ Running(r) => Running(m) /\ r.frames = m.frames /\ r.calls = m.calls
  BY ReleaseReckoned DEF Accounted
<1> HIDE DEF r
<1> QED
  BY <1>1 DEF Accounted, Topped, Top, Depth, r

(* The frame on top of a running machine.                                  *)
LEMMA TopFrame ==
  ASSUME NEW m, NEW off, NEW w, Accounted(m, off, w), Running(m)
  PROVE  /\ AreFrames(m.frames) /\ m.frames # <<>> /\ IsFrame(Top(m))
         /\ Depth(m) = Len(m.frames) /\ Depth(m) \in Nat \ {0} /\ Top(m) = m.frames[Len(m.frames)]
         /\ Top(m).callable = w.top
<1>1. AreFrames(m.frames) /\ m.frames # <<>> /\ Top(m).callable = w.top
  BY DEF Accounted, Reckoned, Live, Topped
<1>2. Last(m.frames) = m.frames[Len(m.frames)] /\ IsFrame(Last(m.frames)) /\ Len(m.frames) \in Nat \ {0}
  BY <1>1, FramesFront
<1> QED
  BY <1>1, <1>2 DEF Top, Depth

LEMMA WithTopAccounted ==
  ASSUME NEW m, NEW off, NEW w, Accounted(m, off, w),
         NEW f, Running(m) => IsFrame(f) /\ Alike(f, Top(m)),
         NEW other \in Int, Running(m) => other = off + FrameMemory(Top(m)) - FrameMemory(f)
  PROVE  LET r == WithTop(m, f)
         IN /\ Accounted(r, other, w) /\ r.outcome = m.outcome /\ r.calls = m.calls
            /\ Running(m) => Top(r) = f /\ Depth(r) = Depth(m)
<1> DEFINE r == WithTop(m, f)
<1>1. DOMAIN m = MachineFields /\ m.limits = w.limits /\ m.prior = w.prior /\ w.limits \in Ceilings
  BY DEF Accounted, Reckoned, OfRoot
<1>2. /\ DOMAIN r = MachineFields /\ r.limits = m.limits /\ r.prior = m.prior
      /\ r.calls = m.calls /\ r.memory = m.memory /\ r.peak = m.peak /\ r.outcome = m.outcome
      /\ r.frames = [m.frames EXCEPT ![Len(m.frames)] = f]
  BY <1>1 DEF WithTop, Depth, MachineFields
<1> HIDE DEF r
<1>3. CASE ~ Running(m)
  <2>1. Stopped(r) /\ ~ Running(r)
    BY <1>2, <1>3 DEF Accounted, Reckoned, Stopped, Running
  <2> QED BY <1>1, <1>2, <1>3, <2>1 DEF Accounted, Reckoned, OfRoot, r
<1>4. CASE Running(m)
  <2>1. AreFrames(m.frames) /\ m.frames # <<>> /\ Top(m) = m.frames[Len(m.frames)] /\ IsFrame(Top(m))
    BY <1>4, TopFrame
  <2>2. /\ AreFrames(r.frames) /\ Len(r.frames) = Len(m.frames) /\ r.frames[Len(m.frames)] = f
        /\ FramesMemory(r.frames) = FramesMemory(m.frames) - FrameMemory(Top(m)) + FrameMemory(f)
        /\ \A kind : Marks(kind, r.frames) = Marks(kind, m.frames)
        /\ Grounded(m.frames) => Grounded(r.frames)
    BY <1>2, <1>4, <2>1, FramesReplaced
  <2>3. /\ FramesMemory(m.frames) \in Nat /\ FrameMemory(Top(m)) \in Nat /\ FrameMemory(f) \in Nat
        /\ off \in Int /\ other = off + FrameMemory(Top(m)) - FrameMemory(f)
    BY <1>4, <2>1, MemoryOfFrames, MemoryOfFrame DEF Accounted, Reckoned
  <2>4. Live(m, off)
    BY <1>4 DEF Accounted, Reckoned
  <2>5. r.memory = FramesMemory(r.frames) + other
    <3>1. m.memory = FramesMemory(m.frames) + off
      BY <2>4 DEF Live
    <3> QED BY <1>2, <2>2, <2>3, <3>1
  <2>6. Live(r, other)
    BY <1>2, <2>2, <2>4, <2>5 DEF Live
  <2>7. r.frames # <<>> /\ Len(m.frames) \in Nat \ {0}
    <3>1. Len(m.frames) \in Nat \ {0}
      BY <2>1, FramesFront
    <3> QED BY <2>2, <3>1
  <2>8. Running(r)
    BY <1>2, <1>4 DEF Running
  <2>9. Top(r) = f /\ Depth(r) = Depth(m)
    BY <2>2 DEF Top, Depth
  <2>10. Marked(r, w) /\ Topped(r, w)
    BY <1>4, <2>2, <2>7, <2>9, TopFrame DEF Marked, Topped, Alike, Accounted, Reckoned
  <2>11. Accounted(r, other, w)
    BY <1>1, <1>2, <2>6, <2>8, <2>10 DEF Accounted, Reckoned, OfRoot
  <2> QED BY <1>2, <2>9, <2>11 DEF r
<1> QED
  BY <1>3, <1>4

LEMMA ControlsAccounted ==
  ASSUME NEW m, NEW off, NEW w, Accounted(m, off, w),
         NEW controls, Running(m) => Allowed(w.top, controls)
  PROVE  LET r == WithControls(m, controls)
         IN /\ Accounted(r, off, w) /\ r.outcome = m.outcome /\ (Running(r) <=> Running(m))
            /\ Running(m) => /\ Top(r).controls = controls /\ Top(r).values = Top(m).values
                             /\ Top(r).locals = Top(m).locals /\ Depth(r) = Depth(m)
<1> DEFINE f == [Top(m) EXCEPT !.controls = controls]
           r == WithControls(m, controls)
<1>1. r = WithTop(m, f)
  BY DEF WithControls
<1>2. Running(m) => IsFrame(Top(m))
  BY TopFrame
<1>3. Running(m) => /\ IsFrame(f) /\ FrameMemory(f) = FrameMemory(Top(m)) /\ Alike(f, Top(m))
                    /\ f.controls = controls /\ f.values = Top(m).values /\ f.locals = Top(m).locals
  BY <1>2, TopFrame, NewControls DEF IsFrame, FrameFields
<1>4. off \in Int /\ (Running(m) => off = off + FrameMemory(Top(m)) - FrameMemory(f))
  <2>1. off \in Int
    BY DEF Accounted, Reckoned
  <2>2. Running(m) => FrameMemory(Top(m)) \in Nat
    BY <1>2, MemoryOfFrame
  <2> HIDE DEF f
  <2> QED BY <1>3, <2>1, <2>2
<1> HIDE DEF f
<1>5. /\ Accounted(r, off, w) /\ r.outcome = m.outcome
      /\ Running(m) => Top(r) = f /\ Depth(r) = Depth(m)
  BY <1>1, <1>3, <1>4, WithTopAccounted
<1>6. Running(r) <=> Running(m)
  BY <1>5 DEF Running
<1> QED
  BY <1>3, <1>5, <1>6

LEMMA PushAccounted ==
  ASSUME NEW m, NEW off, NEW w, Accounted(m, off, w),
         NEW controls, Running(m) => AreControls(controls) /\ (Ordinary(w) \/ ArePlain(controls))
  PROVE  LET r == Push(m, controls)
         IN Accounted(r, off, w) /\ r.outcome = m.outcome /\ (Running(r) <=> Running(m))
<1>1. Running(m) => Allowed(w.top, Top(m).controls)
  BY TopFrame DEF IsFrame
<1>2. Running(m) => Allowed(w.top, Top(m).controls \o controls)
  BY <1>1, AllowedConcat DEF Ordinary
<1> QED
  BY <1>2, ControlsAccounted DEF Push

LEMMA PushValueAccounted ==
  ASSUME NEW m, NEW off, NEW w, Accounted(m, off, w), NEW v, Running(m) => IsValue(v)
  PROVE  Accounted(PushValue(m, v), off, w)
<1> DEFINE r == Retain(m, v.size)
           f == [Top(r) EXCEPT !.values = Append(@, v)]
<1>1. CASE ~ Running(m)
  BY <1>1 DEF PushValue, Retain
<1>2. CASE Running(m)
  <2>1. v.size \in Nat
    BY <1>2, ValueParts
  <2>2. Accounted(r, off + v.size, w)
    BY <2>1, RetainAccounted
  <2>3. CASE ~ Running(r)
    <3>1. PushValue(m, v) = r
      BY <2>3 DEF PushValue
    <3>2. off \in Int
      BY DEF Accounted, Reckoned
    <3> HIDE DEF r
    <3> QED BY <2>2, <2>3, <3>1, <3>2, StoppedAccounted
  <2>4. CASE Running(r)
    <3>1. PushValue(m, v) = WithTop(r, f)
      BY <2>4 DEF PushValue
    <3> HIDE DEF r
    <3>2. IsFrame(Top(r)) /\ AreValues(Top(r).values)
      BY <2>2, <2>4, TopFrame DEF IsFrame
    <3>3. f = [Top(r) EXCEPT !.values = Append(Top(r).values, v)]
      OBVIOUS
    <3>4. AreValues(Append(Top(r).values, v)) /\ Sizes(Append(Top(r).values, v)) = Sizes(Top(r).values) + v.size
      BY <1>2, <3>2, ValuesAppend
    <3> HIDE DEF f
    <3>5. /\ IsFrame(f) /\ Alike(f, Top(r))
          /\ FrameMemory(f) = FrameMemory(Top(r)) - Sizes(Top(r).values) + (Sizes(Top(r).values) + v.size)
      BY <3>2, <3>3, <3>4, NewValues
    <3>6. off \in Int /\ FrameMemory(Top(r)) \in Nat /\ Sizes(Top(r).values) \in Nat
      BY <3>2, MemoryOfFrame DEF Accounted, Reckoned
    <3>7. off = (off + v.size) + FrameMemory(Top(r)) - FrameMemory(f)
      BY <2>1, <3>5, <3>6
    <3> QED BY <2>2, <3>1, <3>5, <3>6, <3>7, WithTopAccounted
  <2> QED BY <2>3, <2>4
<1> QED
  BY <1>1, <1>2

LEMMA PopValueAccounted ==
  ASSUME NEW m, NEW off, NEW w, Accounted(m, off, w)
  PROVE  LET r == PopValue(m)
         IN /\ Accounted(r, off, w)
            /\ Running(r) =>
                 /\ Running(m) /\ Top(m).values # <<>> /\ IsValue(TopValue(m))
                 /\ Top(r).values = Front(Top(m).values) /\ Top(r).controls = Top(m).controls
                 /\ Top(r).locals = Top(m).locals /\ Top(r).returns = Top(m).returns
                 /\ Depth(r) = Depth(m)
<1> DEFINE v == TopValue(m)
           r == Release(m, v.size)
           f == [Top(r) EXCEPT !.values = Front(@)]
<1>0. off \in Int
  BY DEF Accounted, Reckoned
<1>1. CASE ~ Running(m)
  BY <1>1 DEF PopValue
<1>2. CASE Running(m) /\ Top(m).values = <<>>
  <2>1. PopValue(m) = Fail(m, "Defect", "evaluator value stack underflow")
    BY <1>2 DEF PopValue
  <2> QED BY <1>0, <2>1, FailAccounted
<1>3. CASE Running(m) /\ Top(m).values # <<>>
  <2>1. IsFrame(Top(m)) /\ AreValues(Top(m).values)
    BY <1>3, TopFrame DEF IsFrame
  <2>2. /\ AreValues(Front(Top(m).values)) /\ IsValue(v)
        /\ Sizes(Top(m).values) = Sizes(Front(Top(m).values)) + v.size
    BY <1>3, <2>1, ValuesFront DEF TopValue
  <2>3. v.size \in Nat
    BY <2>2, ValueParts
  <2> HIDE DEF v
  <2>4. /\ Accounted(r, off - v.size, w)
        /\ Running(r) => r.frames = m.frames
    BY <2>3, ReleaseAccounted
  <2>5. CASE ~ Running(r)
    <3>1. PopValue(m) = r
      BY <1>3, <2>5 DEF PopValue, v
    <3> HIDE DEF r
    <3>2. Accounted(PopValue(m), off, w)
      BY <1>0, <2>4, <2>5, <3>1, StoppedAccounted
    <3> QED BY <2>5, <3>1, <3>2
  <2>6. CASE Running(r)
    <3>1. PopValue(m) = WithTop(r, f)
      BY <1>3, <2>6 DEF PopValue, v
    <3>2. Top(r) = Top(m) /\ Depth(r) = Depth(m)
      BY <2>4, <2>6 DEF Top, Depth
    <3> HIDE DEF r
    <3>3. f = [Top(m) EXCEPT !.values = Front(Top(m).values)]
      BY <3>2
    <3> HIDE DEF f
    <3>4. /\ IsFrame(f) /\ Alike(f, Top(r))
          /\ FrameMemory(f) = FrameMemory(Top(m)) - Sizes(Top(m).values) + Sizes(Front(Top(m).values))
      BY <2>1, <2>2, <3>2, <3>3, NewValues
    <3>5. FrameMemory(Top(m)) \in Nat /\ Sizes(Top(m).values) \in Nat /\ Sizes(Front(Top(m).values)) \in Nat
      BY <2>1, <2>2, MemoryOfFrame, SizesOfValues
    <3>6. off = (off - v.size) + FrameMemory(Top(r)) - FrameMemory(f)
      BY <1>0, <2>2, <2>3, <3>2, <3>4, <3>5
    <3>7. /\ Accounted(PopValue(m), off, w)
          /\ Top(PopValue(m)) = f /\ Depth(PopValue(m)) = Depth(r)
      BY <1>0, <2>4, <2>6, <3>1, <3>4, <3>6, WithTopAccounted
    <3>8. /\ f.values = Front(Top(m).values) /\ f.controls = Top(m).controls
          /\ f.locals = Top(m).locals /\ f.returns = Top(m).returns
      BY <2>1, <3>3 DEF IsFrame, FrameFields
    <3> QED BY <1>3, <2>2, <3>2, <3>7, <3>8 DEF v
  <2> QED BY <2>5, <2>6
<1> QED
  BY <1>1, <1>2, <1>3


LEMMA TopValuesFacts ==
  ASSUME NEW m, AreValues(Top(m).values), NEW n \in Nat, n <= Len(Top(m).values)
  PROVE  AreValues(TopValues(m, n)) /\ Len(TopValues(m, n)) = n /\ DOMAIN TopValues(m, n) = 1..n
<1> DEFINE s == Top(m).values
           t == TopValues(m, n)
<1>1. s \in Seq(ToSet(s)) /\ Len(s) \in Nat /\ DOMAIN s = 1..Len(s)
  BY SequenceFacts DEF AreValues
<1>2. t = SubSeq(s, Len(s) - n + 1, Len(s))
  BY DEF TopValues
<1> HIDE DEF t, s
<1>3. t = [i \in 1..n |-> s[i + (Len(s) - n)]]
  <2>1. Len(s) - n + 1 \in Int /\ Len(s) - (Len(s) - n + 1) + 1 = n
    BY <1>1
  <2>2. \A i \in 1..n : i + (Len(s) - n + 1) - 1 = i + (Len(s) - n)
    BY <1>1
  <2> QED BY <1>1, <1>2, <2>1, <2>2
<1>4. IsSequence(t) /\ Len(t) = n /\ DOMAIN t = 1..n
  <2>1. t = [i \in 1..n |-> t[i]]
    BY <1>3
  <2> QED BY <2>1, Tabulated
<1>5. \A i \in 1..n : i + (Len(s) - n) \in DOMAIN s
  BY <1>1 DEF s
<1>6. \A i \in 1..n : IsValue(t[i])
  BY <1>3, <1>5 DEF AreValues, s
<1> QED
  BY <1>4, <1>6 DEF AreValues, t

LEMMA PopValuesAccounted ==
  ASSUME NEW m, NEW off, NEW w, Accounted(m, off, w), NEW n \in Nat
  PROVE  LET r == PopValues(m, n)
         IN /\ Accounted(r, off, w)
            /\ Running(r) =>
                 /\ Running(m) /\ AreValues(TopValues(m, n)) /\ Len(TopValues(m, n)) = n
                 /\ DOMAIN TopValues(m, n) = 1..n
                 /\ Top(r).controls = Top(m).controls /\ Top(r).locals = Top(m).locals
                 /\ Depth(r) = Depth(m)
                 /\ n <= Len(Top(m).values) /\ Len(Top(r).values) = Len(Top(m).values) - n
<1>1. PICK acc : /\ Turns(acc, "pop", 0, m, [i \in 1..n |-> i], n)
                 /\ PopValues(m, n) = acc[n]
  BY PopTurns
<1>2. acc[0] = m /\ \A k \in 1..n : acc[k] = PopValue(acc[k - 1])
  BY <1>1 DEF Turns, Step
<1> DEFINE V    == Top(m).values
           P(k) == /\ Accounted(acc[k], off, w)
                   /\ Running(acc[k]) =>
                        /\ Running(m) /\ k <= Len(V) /\ Len(Top(acc[k]).values) = Len(V) - k
                        /\ Top(acc[k]).controls = Top(m).controls
                        /\ Top(acc[k]).locals = Top(m).locals
                        /\ Depth(acc[k]) = Depth(m)
           G == {k \in 0..n : P(k)}
<1>3. Running(m) => AreValues(V) /\ Len(V) \in Nat
  <2>1. Running(m) => AreValues(V)
    BY TopFrame DEF IsFrame
  <2> QED BY <2>1, SequenceFacts DEF AreValues
<1>4. 0 \in G
  BY <1>2, <1>3
<1>5. ASSUME NEW k \in 1..n, k - 1 \in G PROVE k \in G
  <2> DEFINE a == acc[k - 1]
             b == acc[k]
  <2>1. Accounted(a, off, w) /\ b = PopValue(a) /\ k \in 0..n
    BY <1>2, <1>5
  <2>2. Running(a) => /\ Running(m) /\ k - 1 <= Len(V) /\ Len(Top(a).values) = Len(V) - (k - 1)
                      /\ Top(a).controls = Top(m).controls /\ Top(a).locals = Top(m).locals
                      /\ Depth(a) = Depth(m)
    BY <1>5
  <2> HIDE DEF a, b, V
  <2>3. /\ Accounted(b, off, w)
        /\ Running(b) => /\ Running(a) /\ Top(a).values # <<>>
                         /\ Top(b).values = Front(Top(a).values) /\ Top(b).controls = Top(a).controls
                         /\ Top(b).locals = Top(a).locals /\ Depth(b) = Depth(a)
    BY <2>1, PopValueAccounted
  <2>4. Running(b) => AreValues(Top(a).values)
    BY <2>1, <2>3, TopFrame DEF IsFrame
  <2>5. Running(b) => /\ Len(Top(a).values) \in Nat \ {0}
                      /\ Len(Front(Top(a).values)) = Len(Top(a).values) - 1
    BY <2>3, <2>4, FrontFacts DEF AreValues
  <2>6. Running(b) => /\ k <= Len(V) /\ Len(Top(b).values) = Len(V) - k /\ Running(m)
                      /\ Top(b).controls = Top(m).controls /\ Top(b).locals = Top(m).locals
                      /\ Depth(b) = Depth(m)
    BY <1>3, <2>2, <2>3, <2>5 DEF V
  <2> QED BY <2>1, <2>3, <2>6 DEF b
<1> HIDE DEF G
<1>6. n \in G
  BY <1>4, <1>5, Upto
<1>7. P(n)
  BY <1>6 DEF G
<1>8. Running(acc[n]) => /\ AreValues(TopValues(m, n)) /\ Len(TopValues(m, n)) = n
                         /\ DOMAIN TopValues(m, n) = 1..n
  BY <1>3, <1>7, TopValuesFacts
<1> QED
  BY <1>1, <1>7, <1>8

LEMMA LocalsWith ==
  ASSUME NEW locals, AreLocals(locals), NEW l, NEW v, IsValue(v)
  PROVE  /\ AreLocals(With(locals, l, v)) /\ SizeIn(locals, l) \in Nat /\ v.size \in Nat
         /\ DOMAIN With(locals, l, v) = DOMAIN locals \cup {l}
         /\ Resized(With(locals, l, v), locals, SizeIn(locals, l), v.size)
<1> DEFINE new == With(locals, l, v)
<1>1. AreSized(locals)
  BY SizedLocals
<1>2. v.size \in Nat
  BY ValueParts
<1>3. AreSized(new)
  BY <1>1, <1>2, LocalsSet
<1>4. DOMAIN new = DOMAIN locals \cup {l}
  BY DEF With
<1>5. new[l] = v /\ \A x \in DOMAIN locals : x # l => new[x] = locals[x]
  BY DEF With
<1>6. SizeIn(locals, l) \in Nat /\ Resized(new, locals, SizeIn(locals, l), v.size)
  BY <1>1, <1>2, LocalsSet
<1> HIDE DEF new
<1>7. AreLocals(new)
  BY <1>3, <1>4, <1>5 DEF AreLocals, AreSized
<1> QED
  BY <1>2, <1>4, <1>6, <1>7 DEF new

LEMMA SetLocalAccounted ==
  ASSUME NEW m, NEW off, NEW w, Accounted(m, off, w), Ordinary(w), Running(m),
         NEW l, NEW v, IsValue(v)
  PROVE  LET r   == SetLocal(m, l, v)
             old == SizeIn(Locals(m), l)
         IN /\ Accounted(r, off + old - v.size, w) /\ Running(r)
            /\ Locals(r) = With(Locals(m), l, v) /\ Depth(r) = Depth(m)
            /\ old \in Nat /\ v.size \in Nat
<1> DEFINE r   == SetLocal(m, l, v)
           old == SizeIn(Locals(m), l)
           f   == [Top(m) EXCEPT !.locals = With(@, l, v)]
<1>1. /\ IsFrame(Top(m)) /\ AreLocals(Locals(m)) /\ off \in Int
      /\ Top(m).callable \notin EngineFrames
  BY TopFrame DEF IsFrame, Locals, Accounted, Reckoned, Ordinary
<1>2. /\ AreLocals(With(Locals(m), l, v)) /\ old \in Nat /\ v.size \in Nat
      /\ LocalsMemory(With(Locals(m), l, v)) = LocalsMemory(Locals(m)) - old + v.size
  <2>1. /\ AreLocals(With(Locals(m), l, v)) /\ old \in Nat /\ v.size \in Nat
        /\ Resized(With(Locals(m), l, v), Locals(m), old, v.size)
    BY <1>1, LocalsWith
  <2> HIDE DEF old
  <2> QED BY <2>1 DEF Resized
<1> HIDE DEF old
<1>3. f = [Top(m) EXCEPT !.locals = With(Locals(m), l, v)]
  BY DEF Locals
<1>4. r = WithTop(m, f)
  BY DEF SetLocal
<1> HIDE DEF f, r
<1>5. /\ IsFrame(f) /\ Alike(f, Top(m))
      /\ FrameMemory(f) = FrameMemory(Top(m)) - LocalsMemory(Top(m).locals)
                             + LocalsMemory(With(Locals(m), l, v))
  BY <1>1, <1>2, <1>3, NewLocals
<1>6. FrameMemory(Top(m)) \in Nat /\ LocalsMemory(Top(m).locals) \in Nat
  BY <1>1, MemoryOfFrame
<1>7. off + old - v.size = off + FrameMemory(Top(m)) - FrameMemory(f) /\ off + old - v.size \in Int
  BY <1>1, <1>2, <1>5, <1>6 DEF Locals
<1>8. /\ Accounted(r, off + old - v.size, w) /\ r.outcome = m.outcome
      /\ Top(r) = f /\ Depth(r) = Depth(m)
  BY <1>4, <1>5, <1>7, WithTopAccounted
<1>9. f.locals = With(Locals(m), l, v)
  BY <1>1, <1>3 DEF IsFrame, FrameFields
<1> QED
  BY <1>2, <1>8, <1>9 DEF Running, Locals, r, old


LEMMA ClearAccounted ==
  ASSUME NEW m, NEW off, NEW w, Accounted(m, off, w), Ordinary(w), NEW S
  PROVE  /\ Accounted(Clear(m, S), off, w)
         /\ Running(Clear(m, S)) => Running(m)
<1>0. off \in Int
  BY DEF Accounted, Reckoned
<1>1. CASE ~ Running(m)
  BY <1>1 DEF Clear
<1>2. CASE Running(m)
  <2> DEFINE locals == Locals(m)
             D      == S \cap DOMAIN locals
             gone   == SetToSeq(D)
             n      == Cardinality(D)
             r      == Released(m, gone)
  <2>1. /\ IsFrame(Top(m)) /\ AreLocals(locals) /\ AreSized(locals) /\ locals = Top(m).locals
        /\ FrameMemory(Top(m)) \in Nat /\ LocalsMemory(locals) \in Nat
    BY <1>2, TopFrame, SizedLocals, MemoryOfFrame DEF IsFrame, Locals
  <2>2. PICK W : Weighs(W, LocalSizes(locals), DOMAIN locals)
    BY <2>1, LocalsOf
  <2>3. IsFiniteSet(D)
    BY <2>1, FS_Subset DEF AreSized
  <2>4. Enumerates(gone, n, D) /\ n \in Nat /\ DOMAIN gone = 1..n
    BY <2>3, Enumeration
  <2>5. PICK acc : Turns(acc, "release", Locals(m), m, gone, n) /\ r = acc[n]
    BY <2>4, ReleaseTurns
  <2>6. acc[0] = m /\ \A k \in 1..n : acc[k] = Release(acc[k - 1], locals[gone[k]].size)
    BY <2>5 DEF Turns, Step
  <2> HIDE DEF r, gone, n, locals
  <2> DEFINE first == [k \in 0..n |-> W[Leading(gone, k)]]
             g     == LocalSizes(locals)
             V     == [s \in SUBSET D |-> W[s]]
  <2>7. /\ first[0] = 0 /\ first[n] = W[D] /\ \A k \in 0..n : first[k] \in Nat
        /\ \A k \in 1..n : first[k] = g[gone[k]] + first[k - 1]
    <3>1. D \in SUBSET DOMAIN locals
      OBVIOUS
    <3> HIDE DEF D, g
    <3>2. Weighs(W, g, DOMAIN locals)
      BY <2>2 DEF g
    <3>3. Weighs(V, g, D)
      BY <3>1, <3>2 DEF Weighs
    <3>4. \A k \in 0..n : Leading(gone, k) \in SUBSET D
      BY <2>4 DEF Enumerates, Leading
    <3>5. \A k \in 0..n : first[k] = V[Leading(gone, k)]
      BY <3>4
    <3>6. V[D] = W[D]
      OBVIOUS
    <3> HIDE DEF first, V
    <3>7. /\ first[0] = 0 /\ first[n] = V[D] /\ \A k \in 0..n : first[k] \in Nat
          /\ \A k \in 1..n : first[k] = g[gone[k]] + first[k - 1]
      BY <2>4, <3>3, <3>5, WeightOfFirst
    <3> QED BY <3>6, <3>7
  <2>8. \A k \in 1..n : locals[gone[k]].size \in Nat /\ g[gone[k]] = locals[gone[k]].size
    <3>1. \A k \in 1..n : gone[k] \in DOMAIN locals
      BY <2>4 DEF Enumerates
    <3> QED BY <2>1, <3>1 DEF AreSized, LocalSizes
  <2> HIDE DEF first, g
  <2> DEFINE P(k) == /\ Accounted(acc[k], off - first[k], w)
                     /\ Running(acc[k]) => acc[k].frames = m.frames
             G    == {k \in 0..n : P(k)}
  <2>9. 0 \in G
    <3>1. off - first[0] = off
      BY <1>0, <2>7
    <3> QED BY <2>4, <2>6, <3>1
  <2>10. ASSUME NEW k \in 1..n, k - 1 \in G PROVE k \in G
    <3> DEFINE a == acc[k - 1]
               b == acc[k]
               size == locals[gone[k]].size
    <3>1. size \in Nat /\ b = Release(a, size) /\ k \in 0..n
      BY <2>4, <2>6, <2>8
    <3>2. Accounted(a, off - first[k - 1], w) /\ (Running(a) => a.frames = m.frames)
      BY <2>10
    <3>3. (off - first[k - 1]) - size = off - first[k]
      <4>1. first[k] = size + first[k - 1] /\ first[k - 1] \in Nat
        BY <2>4, <2>7, <2>8
      <4> HIDE DEF size
      <4> QED BY <1>0, <3>1, <4>1
    <3> HIDE DEF a, b, size
    <3>4. /\ Accounted(b, (off - first[k - 1]) - size, w)
          /\ Running(b) => Running(a) /\ b.frames = a.frames
      BY <3>1, <3>2, ReleaseAccounted
    <3> QED BY <3>1, <3>2, <3>3, <3>4 DEF b
  <2> HIDE DEF G
  <2>11. n \in G
    BY <2>4, <2>9, <2>10, Upto
  <2>12. Accounted(r, off - W[D], w) /\ (Running(r) => r.frames = m.frames)
    BY <2>5, <2>7, <2>11 DEF G
  <2>13. CASE ~ Running(r)
    <3>1. Clear(m, S) = r
      BY <1>2, <2>13 DEF Clear, r, gone, locals
    <3> QED BY <1>0, <1>2, <2>12, <2>13, <3>1, StoppedAccounted
  <2>14. CASE Running(r)
    <3> DEFINE f == [Top(r) EXCEPT !.locals = Without(@, S)]
    <3>1. Clear(m, S) = WithTop(r, f)
      BY <1>2, <2>14 DEF Clear, r, gone, locals
    <3>2. Top(r) = Top(m)
      BY <2>12, <2>14 DEF Top, Depth
    <3>3. f = [Top(m) EXCEPT !.locals = Without(locals, S)]
      BY <2>1, <3>2
    <3> HIDE DEF f
    <3>4. /\ AreSized(Without(locals, S)) /\ W[D] \in Nat
          /\ LocalsMemory(Without(locals, S)) = LocalsMemory(locals) - W[D]
      BY <2>1, <2>2, LocalsWithout
    <3>5. AreLocals(Without(locals, S))
      <4>1. IsFiniteSet(DOMAIN Without(locals, S))
        BY <3>4 DEF AreSized
      <4> QED BY <2>1, <4>1 DEF AreLocals, Without
    <3>6. /\ IsFrame(f) /\ Alike(f, Top(r))
          /\ FrameMemory(f) = FrameMemory(Top(m)) - LocalsMemory(locals)
                                 + LocalsMemory(Without(locals, S))
      <4>1. Top(m).callable \notin EngineFrames
        BY <1>2, TopFrame DEF Ordinary
      <4> QED BY <2>1, <3>2, <3>3, <3>5, <4>1, NewLocals
    <3>7. off = (off - W[D]) + FrameMemory(Top(r)) - FrameMemory(f)
      BY <1>0, <2>1, <3>2, <3>4, <3>6
    <3> QED BY <1>0, <1>2, <2>12, <2>14, <3>1, <3>6, <3>7, WithTopAccounted
  <2> QED BY <2>13, <2>14
<1> QED
  BY <1>1, <1>2


(* A local that was not initialized is set to a value that is charged.     *)
Unset(m, l)         == l \notin DOMAIN Locals(m)
Charges(r, m, v)    == r = Retain(m, v.size)
Stores(s, r, l, v)  == s = SetLocal(r, l, v)
Initialized(s, m, l, off, w) ==
  /\ Accounted(s, off, w) /\ Running(s)
  /\ DOMAIN Locals(s) = DOMAIN Locals(m) \cup {l}

LEMMA FreshAccounted ==
  ASSUME NEW m, NEW off, NEW w, Accounted(m, off, w), Ordinary(w), NEW v, IsValue(v), NEW l,
         Unset(m, l), NEW r, Charges(r, m, v), Running(r), NEW s, Stores(s, r, l, v)
  PROVE  Initialized(s, m, l, off, w)
<1>1. v.size \in Nat /\ off \in Int
  BY ValueParts DEF Accounted, Reckoned
<1>2. Accounted(r, off + v.size, w) /\ Running(m) /\ r.frames = m.frames
  BY <1>1, RetainAccounted DEF Charges
<1>3. Locals(r) = Locals(m)
  BY <1>2 DEF Locals, Top, Depth
<1>4. SizeIn(Locals(r), l) = 0
  BY <1>3 DEF SizeIn, Unset
<1>5. /\ Accounted(s, (off + v.size) + SizeIn(Locals(r), l) - v.size, w) /\ Running(s)
      /\ Locals(s) = With(Locals(r), l, v)
  BY <1>2, SetLocalAccounted DEF Stores
<1>6. (off + v.size) + SizeIn(Locals(r), l) - v.size = off
  BY <1>1, <1>4
<1>7. DOMAIN Locals(s) = DOMAIN Locals(m) \cup {l}
  BY <1>3, <1>5 DEF With
<1> QED
  BY <1>5, <1>6, <1>7 DEF Initialized

LEMMA BindAccounted ==
  ASSUME NEW m, NEW off, NEW w, Accounted(m, off, w), Ordinary(w),
         NEW bindings, Running(m) => AreLocals(bindings)
  PROVE  /\ Accounted(Bind(m, bindings), off, w)
         /\ Running(Bind(m, bindings)) => Running(m)
<1>0. off \in Int
  BY DEF Accounted, Reckoned
<1>1. CASE ~ Running(m)
  BY <1>1 DEF Bind
<1>2. CASE Running(m)
  <2> DEFINE D   == DOMAIN bindings
             seq == SetToSeq(D)
             n   == Cardinality(D)
  <2>1. IsFiniteSet(D) /\ \A l \in D : IsValue(bindings[l])
    BY <1>2 DEF AreLocals
  <2>2. Enumerates(seq, n, D) /\ n \in Nat /\ DOMAIN seq = 1..n
    BY <2>1, Enumeration
  <2>3. PICK acc : Turns(acc, "bind", bindings, m, seq, n) /\ Bind(m, bindings) = acc[n]
    BY <1>2, <2>2, BindTurns
  <2>4. acc[0] = m /\ \A k \in 1..n : acc[k] = BindStep(acc[k - 1], seq[k], bindings)
    BY <2>3 DEF Turns, Step
  <2>5. \A k \in 1..n : seq[k] \in D
    BY <2>2 DEF Enumerates
  <2> HIDE DEF seq, n
  <2> DEFINE G == {k \in 0..n : Accounted(acc[k], off, w)}
  <2>6. 0 \in G
    BY <2>2, <2>4
  <2>7. ASSUME NEW k \in 1..n, k - 1 \in G PROVE k \in G
    <3> DEFINE a == acc[k - 1]
               b == acc[k]
               l == seq[k]
               v == bindings[l]
               r == Retain(a, v.size)
    <3>1. IsValue(v) /\ v.size \in Nat /\ k \in 0..n /\ Accounted(a, off, w)
      BY <2>1, <2>2, <2>5, <2>7, ValueParts
    <3>2. b = IF ~ Running(r) THEN r
              ELSE IF IsLive(r, l) THEN Fail(r, "Defect", "pattern reused a live LocalId")
              ELSE SetLocal(r, l, v)
      BY <2>4 DEF BindStep
    <3> HIDE DEF a, b, l, v
    <3>3. Accounted(r, off + v.size, w) /\ (Running(r) => r.frames = a.frames)
      BY <3>1, RetainAccounted
    <3>4. CASE ~ Running(r)
      BY <1>0, <3>1, <3>2, <3>3, <3>4, StoppedAccounted DEF b
    <3>5. CASE Running(r) /\ IsLive(r, l)
      <4>1. b = Fail(r, "Defect", "pattern reused a live LocalId")
        BY <3>2, <3>5
      <4> QED BY <1>0, <3>1, <3>3, <4>1, FailAccounted DEF b
    <3>6. CASE Running(r) /\ ~ IsLive(r, l)
      <4>1. Unset(a, l)
        BY <3>3, <3>6 DEF IsLive, Locals, Top, Depth, Unset
      <4>2. Stores(b, r, l, v) /\ Charges(r, a, v)
        BY <3>2, <3>6 DEF Charges, Stores
      <4> HIDE DEF r
      <4>3. Initialized(b, a, l, off, w)
        BY <3>1, <3>6, <4>1, <4>2, FreshAccounted
      <4> QED BY <3>1, <4>3 DEF b, Initialized
    <3> QED BY <3>4, <3>5, <3>6
  <2> HIDE DEF G
  <2>8. n \in G
    BY <2>2, <2>6, <2>7, Upto
  <2> QED BY <1>2, <2>3, <2>8 DEF G
<1> QED
  BY <1>1, <1>2

(* Binding the parameters of a frame that was just opened, whose locals    *)
(* are empty, never exceeds the depth.                                     *)
NotTooDeep(m) == m.outcome.kind # "LimitExceeded" \/ m.outcome.of # "CallDepth"

LEMMA RetainNotTooDeep ==
  ASSUME NEW m, NEW off, NEW w, Reckoned(m, off, w), Running(m), NEW amount
  PROVE  NotTooDeep(Retain(m, amount))
<1> DEFINE now  == m.memory + amount
           peak == IF now > m.peak THEN now ELSE m.peak
           kept == [m EXCEPT !.memory = now, !.peak = peak]
<1>1. DOMAIN kept = MachineFields /\ kept.outcome = m.outcome
  BY DEF Reckoned, OfRoot, MachineFields
<1> HIDE DEF kept
<1>2. \/ Retain(m, amount) = kept
      \/ Retain(m, amount) = Fail(kept, "LimitExceeded", "RootMemory")
  BY DEF Retain, kept
<1>3. Fail(kept, "LimitExceeded", "RootMemory").outcome
        = [kind |-> "LimitExceeded", of |-> "RootMemory"]
  BY <1>1 DEF Fail, Running, MachineFields
<1> QED
  BY <1>1, <1>2, <1>3 DEF NotTooDeep, Running

LEMMA BoundAccounted ==
  ASSUME NEW m, NEW off, NEW w, Accounted(m, off, w), Ordinary(w), Running(m),
         DOMAIN Locals(m) = {},
         NEW params, IsSequence(params), IsInjective(params),
         NEW arguments, AreValues(arguments), Len(arguments) = Len(params), NEW types
  PROVE  /\ Accounted(Bound(m, params, arguments, types), off, w)
         /\ NotTooDeep(Bound(m, params, arguments, types))
<1>0. off \in Int
  BY DEF Accounted, Reckoned
<1> DEFINE n   == Len(params)
           seq == [i \in 1..n |-> i]
           of  == <<params, arguments, types>>
<1>1. n \in Nat /\ DOMAIN params = 1..n /\ DOMAIN arguments = 1..n /\ Len(params) = n
  BY SequenceFacts DEF AreValues
<1> HIDE DEF n
<1>2. PICK acc : Turns(acc, "parameter", of, m, seq, n) /\ Bound(m, params, arguments, types) = acc[n]
  BY <1>1, ParameterTurns
<1>3. acc[0] = m /\ \A k \in 1..n : acc[k] = ParameterStep(acc[k - 1], k, params, arguments, types)
  BY <1>2 DEF Turns, Step
<1> HIDE DEF seq, of
<1> DEFINE P(k) == /\ Accounted(acc[k], off, w) /\ NotTooDeep(acc[k])
                   /\ Running(acc[k]) => DOMAIN Locals(acc[k]) = {params[i] : i \in 1..k}
           G    == {k \in 0..n : P(k)}
<1>4. 0 \in G
  <2>1. {params[i] : i \in 1..0} = {} /\ 0 \in 0..n
    BY <1>1
  <2> QED BY <1>3, <2>1 DEF NotTooDeep, Running
<1>5. ASSUME NEW k \in 1..n, k - 1 \in G PROVE k \in G
  <2> DEFINE a == acc[k - 1]
             b == acc[k]
             v == Coerced(arguments[k], types[k])
             r == Retain(a, v.size)
             l == params[k]
  <2>1. /\ k \in 0..n /\ Accounted(a, off, w) /\ NotTooDeep(a)
        /\ Running(a) => DOMAIN Locals(a) = {params[i] : i \in 1..k-1}
    BY <1>1, <1>5
  <2>2. b = IF ~ Running(a) THEN a
            ELSE IF v = NoValue THEN Fail(a, "CreatorRejected", "ArgumentTypeMismatch")
            ELSE IF Running(r) THEN SetLocal(r, l, v) ELSE r
    BY <1>3 DEF ParameterStep
  <2>3. v = NoValue \/ IsValue(v)
    BY <1>1, CoercedValue DEF AreValues
  <2>4. l \notin {params[i] : i \in 1..k-1} /\ {params[i] : i \in 1..k-1} \cup {l} = {params[i] : i \in 1..k}
    <3>1. \A i \in 1..k-1 : i \in DOMAIN params /\ i # k /\ k \in DOMAIN params
      BY <1>1
    <3>2. \A i \in 1..k-1 : params[i] # params[k]
      BY <3>1 DEF IsInjective
    <3>3. \A i \in 1..k : i = k \/ i \in 1..k-1
      BY <1>1
    <3>4. k \in 1..k /\ \A i \in 1..k-1 : i \in 1..k
      BY <1>1
    <3> QED BY <3>2, <3>3, <3>4
  <2> HIDE DEF a, b, v, l
  <2>5. CASE ~ Running(a)
    BY <2>1, <2>2, <2>5 DEF b
  <2>6. CASE Running(a) /\ v = NoValue
    <3>1. b = Fail(a, "CreatorRejected", "ArgumentTypeMismatch")
      BY <2>2, <2>6
    <3>2. DOMAIN a = MachineFields
      BY <2>1 DEF Accounted, Reckoned, OfRoot
    <3>3. NotTooDeep(b)
      BY <2>6, <3>1, <3>2 DEF Fail, MachineFields, NotTooDeep
    <3> QED BY <1>0, <2>1, <3>1, <3>3, FailAccounted DEF b
  <2>7. CASE Running(a) /\ v # NoValue /\ ~ Running(r)
    <3>1. b = r /\ v.size \in Nat
      BY <2>2, <2>3, <2>7, ValueParts
    <3>2. Accounted(r, off + v.size, w)
      BY <2>1, <3>1, RetainAccounted
    <3>3. NotTooDeep(r)
      BY <2>1, <2>7, RetainNotTooDeep DEF Accounted
    <3> QED BY <1>0, <2>1, <2>7, <3>1, <3>2, <3>3, StoppedAccounted DEF b
  <2>8. CASE Running(a) /\ v # NoValue /\ Running(r)
    <3>1. Stores(b, r, l, v) /\ IsValue(v)
      BY <2>2, <2>3, <2>8 DEF Stores
    <3>2. Unset(a, l)
      BY <2>1, <2>4, <2>8 DEF Unset
    <3>3. Charges(r, a, v)
      BY DEF Charges
    <3> HIDE DEF r
    <3>4. Initialized(b, a, l, off, w)
      BY <2>1, <2>8, <3>1, <3>2, <3>3, FreshAccounted
    <3>5. Running(b) => NotTooDeep(b)
      BY DEF Running, NotTooDeep
    <3> QED BY <2>1, <2>4, <2>8, <3>4, <3>5 DEF b, Initialized
  <2> QED BY <2>5, <2>6, <2>7, <2>8
<1> HIDE DEF G
<1>6. n \in G
  BY <1>1, <1>4, <1>5, Upto
<1> QED
  BY <1>2, <1>6 DEF G

(* A local gets another value.                                             *)
LEMMA ReplaceLocalAccounted ==
  ASSUME NEW m, NEW off, NEW w, Accounted(m, off, w), Running(m),
         NEW l, IsLive(m, l), NEW v, IsValue(v)
  PROVE  Accounted(ReplaceLocal(m, l, v), off, w)
<1> DEFINE size == Locals(m)[l].size
           f    == Release(m, size)
           r    == Retain(f, v.size)
           b    == ReplaceLocal(m, l, v)
<1>1. off \in Int /\ v.size \in Nat
  BY ValueParts DEF Accounted, Reckoned
<1>2. b = IF Running(r) THEN SetLocal(r, l, v) ELSE r
  BY DEF ReplaceLocal
<1>3. size \in Nat /\ SizeIn(Locals(m), l) = size /\ Ordinary(w)
  <2>1. AreLocals(Locals(m)) /\ Bare(Top(m)) /\ Top(m).callable = w.top
    BY TopFrame DEF IsFrame, Locals
  <2>2. size \in Nat /\ SizeIn(Locals(m), l) = size
    BY <2>1, ValueParts DEF AreLocals, IsLive, SizeIn
  <2>3. DOMAIN Locals(m) # {}
    BY DEF IsLive
  <2> QED BY <2>1, <2>2, <2>3 DEF Bare, Ordinary, Locals
<1> HIDE DEF b, size
<1>4. Accounted(f, off - size, w) /\ (Running(f) => f.frames = m.frames)
  BY <1>3, ReleaseAccounted
<1> HIDE DEF f
<1>5. Accounted(r, (off - size) + v.size, w) /\ (Running(r) => Running(f) /\ r.frames = f.frames)
  BY <1>1, <1>4, RetainAccounted
<1> HIDE DEF r
<1>6. CASE ~ Running(r)
  BY <1>1, <1>2, <1>5, <1>6, StoppedAccounted DEF b
<1>7. CASE Running(r)
  <2>1. SizeIn(Locals(r), l) = size
    BY <1>3, <1>4, <1>5, <1>7 DEF Locals, Top, Depth
  <2>2. Accounted(b, ((off - size) + v.size) + SizeIn(Locals(r), l) - v.size, w)
    BY <1>2, <1>3, <1>5, <1>7, SetLocalAccounted
  <2>3. ((off - size) + v.size) + SizeIn(Locals(r), l) - v.size = off
    BY <1>1, <1>3, <2>1
  <2> QED BY <2>2, <2>3 DEF b
<1> QED
  BY <1>6, <1>7

LEMMA StoreProjectedAccounted ==
  ASSUME NEW m, NEW off, NEW w, Accounted(m, off, w), Running(m),
         NEW l, NEW field, NEW v, IsValue(v)
  PROVE  Accounted(StoreProjected(m, l, field, v), off, w)
<1>0. off \in Int
  BY DEF Accounted, Reckoned
<1>1. CASE ~ IsLive(m, l)
  BY <1>0, <1>1, FailAccounted DEF StoreProjected
<1>2. CASE IsLive(m, l) /\ ~ Projects(Locals(m)[l], field)
  BY <1>0, <1>2, FailAccounted DEF StoreProjected
<1>3. CASE IsLive(m, l) /\ Projects(Locals(m)[l], field)
  <2>1. IsValue(Locals(m)[l])
    BY <1>3, TopFrame DEF IsFrame, AreLocals, Locals, IsLive
  <2>2. IsValue(Stored(Locals(m)[l], field, v))
    BY <1>3, <2>1, StoredValue
  <2> QED BY <1>3, <2>2, ReplaceLocalAccounted DEF StoreProjected
<1> QED
  BY <1>1, <1>2, <1>3

LEMMA WriteBackAccounted ==
  ASSUME NEW m, NEW off, NEW w, Accounted(m, off, w), NEW frame, IsSequence(frame.writebacks),
         \A i \in DOMAIN frame.writebacks : IsValue(frame.locals[frame.writebacks[i].local])
  PROVE  Accounted(WriteBack(m, frame), off, w)
<1> DEFINE seq == frame.writebacks
           n   == Len(seq)
<1>1. n \in Nat /\ DOMAIN seq = 1..n
  BY SequenceFacts
<1>2. PICK acc : Turns(acc, "write", frame, m, seq, n) /\ WriteBack(m, frame) = acc[n]
  BY <1>1, WriteTurns
<1>3. acc[0] = m /\ \A k \in 1..n : acc[k] = WriteStep(acc[k - 1], seq[k], frame)
  BY <1>2 DEF Turns, Step
<1>4. \A k \in 1..n : IsValue(frame.locals[seq[k].local])
  BY <1>1
<1> HIDE DEF n, seq
<1> DEFINE G == {k \in 0..n : Accounted(acc[k], off, w)}
<1>5. 0 \in G
  BY <1>1, <1>3
<1>6. ASSUME NEW k \in 1..n, k - 1 \in G PROVE k \in G
  <2>1. k \in 0..n /\ Accounted(acc[k - 1], off, w) /\ IsValue(frame.locals[seq[k].local])
    BY <1>1, <1>4, <1>6
  <2>2. acc[k] = WriteStep(acc[k - 1], seq[k], frame)
    BY <1>3
  <2>3. CASE ~ Running(acc[k - 1])
    BY <2>1, <2>2, <2>3 DEF WriteStep
  <2>4. CASE Running(acc[k - 1])
    BY <2>1, <2>2, <2>4, StoreProjectedAccounted DEF WriteStep
  <2> QED BY <2>3, <2>4
<1> HIDE DEF G
<1>7. n \in G
  BY <1>1, <1>5, <1>6, Upto
<1> QED
  BY <1>2, <1>7 DEF G


(* A frame is opened: its 64 are charged before it is pushed.               *)
NewFrame(returns, callable, controls, writebacks) ==
  [returns |-> returns, callable |-> callable, controls |-> controls,
   values |-> <<>>, locals |-> <<>>, writebacks |-> writebacks]

LEMMA NewFrameFacts ==
  ASSUME NEW returns, NEW callable, callable \notin EngineFrames,
         NEW controls, AreControls(controls),
         NEW writebacks, IsSequence(writebacks)
  PROVE  LET f == NewFrame(returns, callable, controls, writebacks)
         IN /\ IsFrame(f) /\ FrameMemory(f) = 64 /\ DOMAIN f.locals = {}
            /\ f.callable = callable
<1> DEFINE f == NewFrame(returns, callable, controls, writebacks)
<1>1. /\ DOMAIN f = FrameFields /\ f.controls = controls /\ f.values = <<>>
      /\ f.locals = <<>> /\ f.writebacks = writebacks /\ f.callable = callable
  BY DEF NewFrame, FrameFields
<1>2. AreValues(<<>>) /\ DOMAIN <<>> = {}
  BY DEF AreValues, IsSequence, ToSet
<1>3. AreLocals(<<>>)
  BY <1>2, FS_EmptySet DEF AreLocals
<1> HIDE DEF f
<1>4. IsFrame(f)
  BY <1>1, <1>2, <1>3 DEF IsFrame, Allowed, Bare
<1>5. Sizes(f.values) = 0
  BY <1>1, <1>2, SizesOfValues
<1>6. LocalsMemory(f.locals) = 0
  <2>1. AreSized(f.locals) /\ DOMAIN f.locals = {}
    BY <1>1, <1>2, <1>3, SizedLocals
  <2> QED BY <2>1, LocalsOf
<1>7. FrameMemory(f) = 64
  BY <1>4, <1>5, <1>6, MemoryOfFrame
<1> QED
  BY <1>1, <1>2, <1>4, <1>7 DEF f

Opens(s, m, f, name) == s = [m EXCEPT !.frames = Append(@, f), !.calls = Append(@, name)]

Shallow(m) == Len(m.calls) < m.limits.depth

(* The bearings when another frame is on top.                              *)
Under(w, top) ==
  [limits |-> w.limits, prior |-> w.prior, open |-> w.open, ids |-> w.ids, top |-> top]

LEMMA UnderReckoned ==
  ASSUME NEW m, NEW off, NEW w, NEW top
  PROVE  Reckoned(m, off, w) <=> Reckoned(m, off, Under(w, top))
  BY DEF Reckoned, OfRoot, Marked, Under

LEMMA UnderAccounted ==
  ASSUME NEW m, NEW off, NEW w, Reckoned(m, off, w), Running(m) => m.frames # <<>>
  PROVE  Accounted(m, off, Under(w, Top(m).callable))
<1> DEFINE top == Top(m).callable
<1>1. Reckoned(m, off, Under(w, top)) /\ Under(w, top).top = top
  BY UnderReckoned DEF Under
<1> QED
  BY <1>1 DEF Accounted, Topped

LEMMA OpenedAccounted ==
  ASSUME NEW m, NEW w, Reckoned(m, 64, w), Running(m), Shallow(m),
         NEW f, IsFrame(f), FrameMemory(f) = 64, f.callable \notin EngineFrames,
         NEW name, NEW s, Opens(s, m, f, name)
  PROVE  Accounted(s, 0, Under(w, f.callable)) /\ Running(s) /\ Top(s) = f
<1>1. /\ AreFrames(m.frames) /\ IsSequence(m.calls) /\ IsSequence(m.frames)
      /\ Len(m.calls) = Len(m.frames) - Len(Marks("engine", m.frames))
      /\ m.memory = FramesMemory(m.frames) + 64
      /\ DOMAIN m = MachineFields /\ m.limits.depth \in Nat
  BY DEF Reckoned, Live, OfRoot, Ceilings, AreFrames
<1>2. /\ DOMAIN s = MachineFields /\ s.limits = m.limits /\ s.prior = m.prior
      /\ s.frames = Append(m.frames, f) /\ s.calls = Append(m.calls, name)
      /\ s.memory = m.memory /\ s.peak = m.peak /\ s.outcome = m.outcome
  BY <1>1 DEF MachineFields, Opens
<1>3. /\ AreFrames(s.frames) /\ Len(s.frames) = Len(m.frames) + 1
      /\ FramesMemory(s.frames) = FramesMemory(m.frames) + 64
      /\ \A kind : Marks(kind, s.frames) = Marks(kind, m.frames)
  <2>1. /\ AreFrames(Append(m.frames, f)) /\ Len(Append(m.frames, f)) = Len(m.frames) + 1
        /\ FramesMemory(Append(m.frames, f)) = FramesMemory(m.frames) + 64
    BY <1>1, FramesAppend
  <2>2. \A kind : Marks(kind, Append(m.frames, f)) = Marks(kind, m.frames)
    BY <1>1, MarksOrdinary
  <2> QED BY <1>2, <2>1, <2>2
<1>4. /\ IsSequence(s.calls) /\ Len(s.calls) = Len(m.calls) + 1
      /\ s.frames # <<>> /\ s.frames[Len(m.frames) + 1] = f
  <2>1. IsSequence(Append(m.calls, name)) /\ Len(Append(m.calls, name)) = Len(m.calls) + 1
    BY <1>1, AppendFacts
  <2>2. Append(m.frames, f) # <<>> /\ Append(m.frames, f)[Len(m.frames) + 1] = f
    BY <1>1, AppendFacts
  <2> QED BY <1>2, <2>1, <2>2
<1>5. FramesMemory(m.frames) \in Nat /\ Len(m.frames) \in Nat /\ Len(m.calls) \in Nat
      /\ Len(Marks("engine", m.frames)) \in Nat
  BY <1>1, MemoryOfFrames, SequenceFacts, MarksAreFew
<1>6. s.memory = FramesMemory(s.frames) + 0
  BY <1>1, <1>2, <1>3, <1>5
<1>7. /\ Len(s.calls) = Len(s.frames) - Len(Marks("engine", s.frames))
      /\ Len(s.calls) <= s.limits.depth
  <2>1. Marks("engine", s.frames) = Marks("engine", m.frames)
    BY <1>3
  <2>2. Len(s.calls) = Len(s.frames) - Len(Marks("engine", s.frames))
    <3>1. Len(s.calls) = Len(m.calls) + 1 /\ Len(s.frames) = Len(m.frames) + 1
      BY <1>3, <1>4
    <3>2. Len(m.calls) = Len(m.frames) - Len(Marks("engine", m.frames))
      BY <1>1
    <3> DEFINE calls  == Len(m.calls)
               frames == Len(m.frames)
               marks  == Len(Marks("engine", m.frames))
    <3>3. calls \in Nat /\ frames \in Nat /\ marks \in Nat /\ calls = frames - marks
      BY <1>5, <3>2
    <3>4. Len(s.calls) = calls + 1 /\ Len(s.frames) = frames + 1 /\ Len(Marks("engine", s.frames)) = marks
      BY <2>1, <3>1
    <3> HIDE DEF calls, frames, marks
    <3>5. calls + 1 = (frames + 1) - marks
      BY <3>3
    <3> QED BY <3>4, <3>5
  <2>3. Len(m.calls) < m.limits.depth /\ s.limits = m.limits
    BY <1>2 DEF Shallow
  <2>4. Len(s.calls) = Len(m.calls) + 1 /\ m.limits.depth \in Nat
    BY <1>1, <1>4
  <2>5. Len(s.calls) <= s.limits.depth
    BY <1>5, <2>3, <2>4
  <2> QED BY <2>2, <2>5
<1>8. Running(s) /\ Live(s, 0) /\ Marked(s, w)
  <2>1. m.peak \in Int /\ m.memory <= m.peak /\ m.peak <= m.limits.memory /\ Marked(m, w)
    BY DEF Reckoned, Live
  <2>2. s.peak \in Int /\ s.memory <= s.peak /\ s.peak <= s.limits.memory
    BY <1>2, <2>1
  <2>3. Grounded(s.frames)
    BY <1>1, <1>2, GroundedStack DEF EngineFrames, Reckoned, Live
  <2>4. Live(s, 0)
    BY <1>3, <1>4, <1>6, <1>7, <2>2, <2>3 DEF Live
  <2> QED BY <1>2, <1>3, <2>1, <2>4 DEF Running, Marked
<1>9. Reckoned(s, 0, w) /\ Top(s) = f
  BY <1>2, <1>3, <1>8, <1>4 DEF Reckoned, OfRoot, Top, Depth
<1> QED
  BY <1>4, <1>8, <1>9, UnderAccounted

LEMMA PushFrameAccounted ==
  ASSUME NEW m, NEW w, Reckoned(m, 0, w), Running(m),
         NEW callable, callable.kind \notin EngineFrames,
         NEW params, IsSequence(params), IsInjective(params),
         NEW arguments, AreValues(arguments), NEW types,
         NEW controls, AreControls(controls), NEW writebacks, IsSequence(writebacks)
  PROVE  LET r == PushFrame(m, callable, params, arguments, types, controls, writebacks)
         IN Reckoned(r, 0, w) /\ (Running(r) => r.frames # <<>>)
<1> DEFINE r        == PushFrame(m, callable, params, arguments, types, controls, writebacks)
           retained == Retain(m, 64)
           f        == NewFrame(callable.returns, callable.kind, controls, writebacks)
           opened   == [retained EXCEPT !.frames = Append(@, f),
                                        !.calls = Append(@, callable.name)]
           bound    == Bound(opened, params, arguments, types)
<1>1. r = IF Len(m.calls) = m.limits.depth THEN Fail(m, "LimitExceeded", "CallDepth")
          ELSE IF Len(params) # Len(arguments) THEN Fail(m, "CreatorRejected", "ArgumentCount")
          ELSE IF ~ Running(retained) THEN retained
          ELSE IF ~ Running(bound)
          THEN [bound EXCEPT !.frames = m.frames, !.calls = m.calls]
          ELSE bound
  BY DEF PushFrame, NewFrame
<1>2. /\ Reckoned(retained, 64, w)
      /\ Running(retained) => retained.frames = m.frames /\ retained.calls = m.calls
  <2>1. /\ Reckoned(retained, 0 + 64, w)
        /\ Running(retained) => retained.frames = m.frames /\ retained.calls = m.calls
    BY RetainReckoned
  <2> QED BY <2>1
<1>3. /\ IsFrame(f) /\ FrameMemory(f) = 64 /\ DOMAIN f.locals = {}
      /\ f.callable = callable.kind
  <2> DEFINE kind    == callable.kind
             returns == callable.returns
  <2>1. kind \notin EngineFrames
    OBVIOUS
  <2> HIDE DEF kind, returns
  <2>2. LET g == NewFrame(returns, kind, controls, writebacks)
        IN /\ IsFrame(g) /\ FrameMemory(g) = 64 /\ DOMAIN g.locals = {} /\ g.callable = kind
    BY <2>1, NewFrameFacts
  <2> QED BY <2>2 DEF kind, returns
<1> HIDE DEF r, retained, f, bound
<1>4. CASE Len(m.calls) = m.limits.depth
  <2>1. r = [m EXCEPT !.outcome = [kind |-> "LimitExceeded", of |-> "CallDepth"]]
    BY <1>1, <1>4 DEF Fail
  <2>2. DOMAIN m = MachineFields
    BY DEF Reckoned, OfRoot
  <2>3. /\ DOMAIN r = MachineFields /\ r.limits = m.limits /\ r.prior = m.prior
        /\ r.calls = m.calls /\ r.outcome = [kind |-> "LimitExceeded", of |-> "CallDepth"]
    BY <2>1, <2>2 DEF MachineFields
  <2>4. ~ Running(r) /\ Stopped(r)
    BY <1>4, <2>3 DEF Running, Stopped
  <2> QED BY <2>3, <2>4 DEF Reckoned, OfRoot, r
<1>5. CASE Len(m.calls) # m.limits.depth /\ Len(params) # Len(arguments)
  <2>1. r = Fail(m, "CreatorRejected", "ArgumentCount")
    BY <1>1, <1>5
  <2>2. Reckoned(r, 0, w) /\ ~ Running(r)
    BY <2>1, FailReckoned
  <2> QED BY <2>2 DEF r
<1>6. CASE Len(m.calls) # m.limits.depth /\ Len(params) = Len(arguments) /\ ~ Running(retained)
  <2>1. r = retained
    BY <1>1, <1>6
  <2>2. Reckoned(r, 0, w)
    BY <1>2, <1>6, <2>1, StoppedReckoned
  <2> QED BY <1>6, <2>1, <2>2 DEF r
<1>7. CASE Len(m.calls) # m.limits.depth /\ Len(params) = Len(arguments) /\ Running(retained)
  <2>2. Shallow(retained)
    <3>1. retained.calls = m.calls /\ retained.limits = m.limits
      BY <1>2, <1>7 DEF Reckoned, OfRoot
    <3>2. Len(m.calls) <= m.limits.depth /\ Len(m.calls) \in Nat /\ m.limits.depth \in Nat
      BY SequenceFacts DEF Reckoned, Live, OfRoot, Ceilings, AreFrames
    <3> QED BY <1>7, <3>1, <3>2 DEF Shallow
  <2> DEFINE u == Under(w, f.callable)
  <2>3. Accounted(opened, 0, u) /\ Running(opened) /\ Top(opened) = f
    <3>1. Opens(opened, retained, f, callable.name)
      BY DEF Opens
    <3> HIDE DEF opened
    <3> QED BY <1>2, <1>3, <1>7, <2>2, <3>1, OpenedAccounted
  <2> HIDE DEF opened
  <2>4. DOMAIN Locals(opened) = {}
    BY <1>3, <2>3 DEF Locals
  <2>5. Ordinary(u)
    BY <1>3 DEF Ordinary, Under
  <2> HIDE DEF u
  <2>6. Accounted(bound, 0, u) /\ NotTooDeep(bound)
    BY <1>7, <2>3, <2>4, <2>5, BoundAccounted DEF bound
  <2>7. Reckoned(bound, 0, w)
    BY <2>6, UnderReckoned DEF Accounted, u
  <2>8. CASE Running(bound)
    BY <1>1, <1>7, <2>6, <2>7, <2>8 DEF Accounted, Topped, r
  <2>9. CASE ~ Running(bound)
    <3>1. r = [bound EXCEPT !.frames = m.frames, !.calls = m.calls]
      BY <1>1, <1>7, <2>9
    <3>2. DOMAIN bound = MachineFields /\ Stopped(bound) /\ OfRoot(bound, w)
      BY <2>7, <2>9 DEF Reckoned, OfRoot
    <3>3. /\ DOMAIN r = MachineFields /\ r.limits = bound.limits /\ r.prior = bound.prior
          /\ r.peak = bound.peak /\ r.outcome = bound.outcome
      BY <3>1, <3>2 DEF MachineFields
    <3>4. ~ Running(r) /\ Stopped(r) /\ OfRoot(r, w)
      BY <2>6, <2>9, <3>2, <3>3 DEF Running, Stopped, NotTooDeep, OfRoot
    <3> QED BY <3>4 DEF Reckoned, r
  <2> QED BY <2>8, <2>9
<1> QED
  BY <1>4, <1>5, <1>6, <1>7

LEMMA PushFunctionAccounted ==
  ASSUME NEW m, NEW w, Reckoned(m, 0, w), Running(m), NEW f, IsHirFunction(f),
         NEW arguments, AreValues(arguments), NEW writebacks, IsSequence(writebacks)
  PROVE  LET r == PushFunction(m, f, arguments, writebacks)
         IN Reckoned(r, 0, w) /\ (Running(r) => r.frames # <<>>)
<1> DEFINE first  == [op |-> "FunctionFallthrough"]
           second == Block(f.body)
           both   == <<first, second>>
<1>1. IsControl(first) /\ IsControl(second)
  BY DEF IsControl, IsHirFunction, Block, FinishOp
<1> HIDE DEF first, second
<1>2. AreControls(both)
  BY <1>1, FewControls
<1> HIDE DEF both
<1>3. PushFunction(m, f, arguments, writebacks)
        = PushFrame(m, f, f.params, arguments, f.types, both, writebacks)
  BY DEF PushFunction, both, first, second
<1> QED
  BY <1>2, <1>3, PushFrameAccounted DEF IsHirFunction, EngineFrames


(* A frame is left: what it retained has been released.                     *)
LEMMA PoppedFrameAccounted ==
  ASSUME NEW m, NEW off, NEW w, Accounted(m, off, w), Ordinary(w), Running(m),
         off = 0 - FrameMemory(Top(m))
  PROVE  LET r == PoppedFrame(m)
         IN /\ Reckoned(r, 0, w) /\ Running(r)
            /\ r.frames = <<>> <=> Depth(m) = 1
<1> DEFINE r == PoppedFrame(m)
<1>1. /\ AreFrames(m.frames) /\ IsSequence(m.calls) /\ IsSequence(m.frames)
      /\ Len(m.calls) = Len(m.frames) - Len(Marks("engine", m.frames))
      /\ Len(m.calls) <= m.limits.depth /\ m.memory = FramesMemory(m.frames) + off
      /\ m.peak \in Int /\ m.memory <= m.peak /\ m.peak <= m.limits.memory
      /\ DOMAIN m = MachineFields /\ m.limits.depth \in Nat /\ m.frames # <<>>
  BY DEF Accounted, Topped, Reckoned, Live, OfRoot, Ceilings, AreFrames
<1>2. /\ DOMAIN r = MachineFields /\ r.limits = m.limits /\ r.prior = m.prior
      /\ r.frames = Front(m.frames) /\ r.calls = Front(m.calls)
      /\ r.memory = m.memory /\ r.peak = m.peak /\ r.outcome = m.outcome
  BY <1>1 DEF MachineFields, PoppedFrame
<1> HIDE DEF r
<1>3. /\ AreFrames(Front(m.frames)) /\ Last(m.frames) = m.frames[Len(m.frames)]
      /\ Len(m.frames) \in Nat \ {0} /\ Len(Front(m.frames)) = Len(m.frames) - 1
      /\ FramesMemory(m.frames) = FramesMemory(Front(m.frames)) + FrameMemory(Last(m.frames))
      /\ IsFrame(Last(m.frames))
  BY <1>1, FramesFront
<1>4. /\ Last(m.frames) = Top(m) /\ Depth(m) = Len(m.frames)
      /\ Top(m).callable \notin EngineFrames
  BY <1>3, TopFrame DEF Top, Depth, Ordinary
<1>5. /\ \A kind : Marks(kind, m.frames) = Marks(kind, r.frames)
      /\ Len(Marks("engine", r.frames)) \in Nat
      /\ Len(Marks("engine", r.frames)) <= Len(r.frames)
  BY <1>1, <1>2, <1>3, <1>4, MarksOrdinary, MarksAreFew DEF AreFrames
<1>6. IsSequence(r.calls) /\ Len(r.calls) = Len(m.calls) - 1
  <2>1. Len(m.calls) # 0
    BY <1>1, <1>2, <1>3, <1>5
  <2>2. m.calls # <<>>
    BY <2>1
  <2> QED BY <1>1, <1>2, <2>2, FrontFacts
<1>7. FramesMemory(Front(m.frames)) \in Nat /\ FrameMemory(Top(m)) \in Nat
  BY <1>3, <1>4, MemoryOfFrames, MemoryOfFrame
<1>8. r.memory = FramesMemory(r.frames) + 0
  BY <1>1, <1>2, <1>3, <1>4, <1>7
<1>9. /\ Len(r.calls) = Len(r.frames) - Len(Marks("engine", r.frames))
      /\ Len(r.calls) <= r.limits.depth
  <2>1. Marks("engine", m.frames) = Marks("engine", r.frames)
    BY <1>5
  <2>2. Len(r.frames) = Len(m.frames) - 1 /\ Len(r.calls) = Len(m.calls) - 1
    BY <1>2, <1>3, <1>6
  <2>3. Len(m.calls) \in Nat
    BY <1>1, SequenceFacts
  <2>4. Len(r.calls) = Len(r.frames) - Len(Marks("engine", r.frames))
    <3>1. Len(m.calls) = Len(m.frames) - Len(Marks("engine", m.frames))
      BY <1>1
    <3> DEFINE calls  == Len(m.calls)
               frames == Len(m.frames)
               marks  == Len(Marks("engine", r.frames))
    <3>3. calls \in Nat /\ frames \in Nat /\ marks \in Nat /\ calls = frames - marks
      BY <1>3, <1>5, <2>1, <2>3, <3>1
    <3>4. Len(r.calls) = calls - 1 /\ Len(r.frames) = frames - 1
      BY <2>2
    <3> HIDE DEF calls, frames, marks
    <3>5. calls - 1 = (frames - 1) - marks
      BY <3>3
    <3> QED BY <3>4, <3>5 DEF marks
  <2>5. Len(m.calls) <= m.limits.depth /\ r.limits = m.limits /\ m.limits.depth \in Nat
    BY <1>1, <1>2
  <2>6. Len(r.calls) <= r.limits.depth
    BY <2>2, <2>3, <2>5
  <2> QED BY <2>4, <2>6
<1>10. r.peak \in Int /\ r.memory <= r.peak /\ r.peak <= r.limits.memory /\ AreFrames(r.frames)
  BY <1>1, <1>2, <1>3
<1>11. Running(r) /\ Live(r, 0) /\ Marked(r, w)
  <2>1. Live(r, 0)
    <3>1. Grounded(m.frames)
      BY DEF Accounted, Reckoned, Live
    <3>2. Grounded(r.frames)
      BY <1>1, <1>2, <1>4, <3>1, GroundedStack DEF EngineFrames
    <3> QED BY <1>6, <1>8, <1>9, <1>10, <3>2 DEF Live
  <2>2. Marked(m, w)
    BY DEF Accounted, Reckoned
  <2> QED BY <1>2, <1>5, <2>1, <2>2 DEF Running, Marked
<1>12. Reckoned(r, 0, w)
  BY <1>2, <1>11 DEF Accounted, Reckoned, OfRoot
<1>13. r.frames = <<>> <=> Depth(m) = 1
  <2>1. Len(r.frames) = Len(m.frames) - 1 /\ IsSequence(r.frames)
    BY <1>2, <1>3, <1>10 DEF AreFrames
  <2>2. r.frames = <<>> <=> Len(r.frames) = 0
    <3>1. r.frames # <<>> => Len(r.frames) \in Nat \ {0}
      BY <2>1, FrontFacts
    <3> QED BY <3>1
  <2> QED BY <1>3, <1>4, <2>1, <2>2
<1> QED
  BY <1>11, <1>12, <1>13 DEF r

LEMMA CompleteFrameAccounted ==
  ASSUME NEW m, NEW w, Accounted(m, 0, w), Ordinary(w), NEW v, Running(m) => IsValue(v)
  PROVE  LET r == CompleteFrame(m, v)
         IN Reckoned(r, 0, w) /\ (Running(r) => r.frames # <<>>)
<1> DEFINE r        == CompleteFrame(m, v)
           frame    == Top(m)
           missing  == \E i \in DOMAIN frame.writebacks :
                         frame.writebacks[i].local \notin DOMAIN frame.locals
           retained == FrameMemory(frame)
           released == Release(m, retained)
           popped   == PoppedFrame(released)
           written  == WriteBack(popped, frame)
<1>1. r = IF ~ Running(m) THEN m
          ELSE IF missing THEN Fail(m, "Defect", "writeback references a missing local")
          ELSE IF ~ Running(released) THEN released
          ELSE IF Depth(m) = 1 THEN Fail(popped, "Completed", v)
          ELSE IF Running(written) THEN PushValue(written, v) ELSE written
  BY DEF CompleteFrame, FrameMemory
<1> HIDE DEF r
<1> SUFFICES Reckoned(r, 0, w) /\ (Running(r) => r.frames # <<>>)
  BY DEF r
<1>2. CASE ~ Running(m)
  BY <1>1, <1>2 DEF Accounted
<1>3. CASE Running(m) /\ missing
  <2>1. r = Fail(m, "Defect", "writeback references a missing local")
    BY <1>1, <1>3
  <2>2. Accounted(r, 0, w)
    <3> DEFINE f == Fail(m, "Defect", "writeback references a missing local")
    <3>1. 0 \in Int /\ "Defect" \in {"Completed", "Panicked", "CreatorRejected", "Defect"}
      OBVIOUS
    <3>2. Accounted(f, 0, w)
      BY ONLY <3>1, FailAccounted, Accounted(m, 0, w)
    <3> QED BY <2>1, <3>2
  <2> QED BY <2>2 DEF Accounted, Topped
<1>4. CASE Running(m) /\ ~ missing
  <2>1. IsFrame(frame) /\ retained \in Nat /\ AreLocals(frame.locals) /\ IsSequence(frame.writebacks)
    BY <1>4, TopFrame, MemoryOfFrame DEF IsFrame
  <2>2. \A i \in DOMAIN frame.writebacks : IsValue(frame.locals[frame.writebacks[i].local])
    BY <1>4, <2>1 DEF AreLocals
  <2> HIDE DEF retained
  <2>3. /\ Accounted(released, 0 - retained, w)
        /\ Running(released) => released.frames = m.frames
    BY <2>1, ReleaseAccounted
  <2> HIDE DEF released
  <2>4. CASE ~ Running(released)
    <3>1. r = released
      BY <1>1, <1>4, <2>4
    <3> QED BY <2>3, <2>4, <3>1, StoppedAccounted DEF Accounted
  <2>5. CASE Running(released)
    <3>1. Top(released) = frame /\ Depth(released) = Depth(m)
      BY <2>3, <2>5 DEF Top, Depth
    <3>2. 0 - retained = 0 - FrameMemory(Top(released))
      BY <3>1 DEF retained
    <3>3. /\ Reckoned(popped, 0, w) /\ Running(popped)
          /\ popped.frames = <<>> <=> Depth(m) = 1
      <4> DEFINE off == 0 - retained
      <4>1. Accounted(released, off, w) /\ off = 0 - FrameMemory(Top(released))
        BY <2>3, <3>2
      <4> HIDE DEF off
      <4>2. /\ Reckoned(popped, 0, w) /\ Running(popped)
            /\ popped.frames = <<>> <=> Depth(released) = 1
        BY <2>5, <4>1, PoppedFrameAccounted
      <4> QED BY <3>1, <4>2
    <3> HIDE DEF popped
    <3>4. CASE Depth(m) = 1
      <4>1. r = Fail(popped, "Completed", v)
        BY <1>1, <1>4, <2>5, <3>4
      <4>2. Reckoned(r, 0, w) /\ ~ Running(r)
        BY <3>3, <4>1, FailReckoned
      <4> QED BY <4>2
    <3>5. CASE Depth(m) # 1
      <4> DEFINE u == Under(w, Top(popped).callable)
      <4>1. Accounted(popped, 0, u)
        BY <3>3, <3>5, UnderAccounted
      <4> HIDE DEF frame, u
      <4>2. Accounted(written, 0, u)
        BY <2>1, <2>2, <4>1, WriteBackAccounted
      <4> HIDE DEF written
      <4>3. r = IF Running(written) THEN PushValue(written, v) ELSE written
        BY <1>1, <1>4, <2>5, <3>5
      <4>4. Accounted(r, 0, u)
        BY <1>4, <4>2, <4>3, PushValueAccounted
      <4> QED BY <4>4, UnderReckoned DEF Accounted, Topped, u
    <3> QED BY <3>4, <3>5
  <2> QED BY <2>4, <2>5
<1> QED
  BY <1>2, <1>3, <1>4

LEMMA CompleteCoercedAccounted ==
  ASSUME NEW m, NEW w, Accounted(m, 0, w), Ordinary(w), NEW v, Running(m) => IsValue(v),
         NEW type
  PROVE  LET r == CompleteCoerced(m, v, type)
         IN Reckoned(r, 0, w) /\ (Running(r) => r.frames # <<>>)
<1> DEFINE c == Coerced(v, type)
<1>1. CASE c = NoValue
  <2>1. CompleteCoerced(m, v, type) = Fail(m, "CreatorRejected", "ReturnTypeMismatch")
    BY <1>1 DEF CompleteCoerced
  <2>2. Reckoned(Fail(m, "CreatorRejected", "ReturnTypeMismatch"), 0, w)
        /\ ~ Running(Fail(m, "CreatorRejected", "ReturnTypeMismatch"))
    BY FailReckoned DEF Accounted
  <2> QED BY <2>1, <2>2
<1>2. CASE c # NoValue
  <2>1. Running(m) => IsValue(c)
    BY <1>2, CoercedValue
  <2>2. CompleteCoerced(m, v, type) = CompleteFrame(m, c)
    BY <1>2 DEF CompleteCoerced
  <2> HIDE DEF c
  <2> QED BY <2>1, <2>2, CompleteFrameAccounted
<1> QED
  BY <1>1, <1>2


-----------------------------------------------------------------------------
(***************************************************************************)
(* Fuel.                                                                   *)
(***************************************************************************)

LEMMA TariffIsNatural == Tariff \in {0, 1, 5}
  BY DEF Tariff

-----------------------------------------------------------------------------
(***************************************************************************)
(* What the handlers push: flattened, reversed and filtered sequences.     *)
(***************************************************************************)

LEMMA FlattenIn ==
  ASSUME NEW S, NEW s \in Seq(Seq(S))
  PROVE  FlattenSeq(s) \in Seq(S)
<1> DEFINE n       == Len(s)
           flatten == CHOOSE f : Flattening(f, s, n)
           G       == {k \in 0..n : k > 0 => flatten[k] \in Seq(S)}
<1>1. n \in Nat /\ \A i \in 1..n : s[i] \in Seq(S)
  OBVIOUS
<1>2. Flattening(flatten, s, n)
  BY <1>1, FlattenExists
<1>3. FlattenSeq(s) = IF n = 0 THEN s ELSE flatten[n]
  BY DEF FlattenSeq, Flattening
<1>4. n = 0 => s = <<>>
  OBVIOUS
<1> HIDE DEF n, flatten
<1>5. \A i \in 1..n : flatten[i] = IF i = 1 THEN s[i] ELSE flatten[i - 1] \o s[i]
  BY <1>2 DEF Flattening
<1>6. 0 \in G
  BY <1>1
<1>7. ASSUME NEW k \in 1..n, k - 1 \in G PROVE k \in G
  <2>1. k \in 0..n
    BY <1>1
  <2>2. CASE k = 1
    BY <1>1, <1>5, <2>1, <2>2
  <2>3. CASE k # 1
    <3>1. flatten[k] = flatten[k - 1] \o s[k] /\ k - 1 > 0
      <4>1. flatten[k] = flatten[k - 1] \o s[k]
        BY <1>5, <2>3
      <4> QED BY <1>1, <2>3, <4>1
    <3>2. flatten[k - 1] \in Seq(S) /\ s[k] \in Seq(S)
      BY <1>1, <1>7, <3>1
    <3>3. flatten[k] \in Seq(S)
      BY <3>1, <3>2
    <3> QED BY <2>1, <3>3
  <2> QED BY <2>2, <2>3
<1> HIDE DEF G
<1>8. n \in G
  BY <1>1, <1>6, <1>7, Upto
<1> QED
  BY <1>1, <1>3, <1>4, <1>8 DEF G

LEMMA ReverseIn ==
  ASSUME NEW S, NEW s \in Seq(S)
  PROVE  Reverse(s) \in Seq(S) /\ Len(Reverse(s)) = Len(s)
<1>1. Len(s) \in Nat /\ DOMAIN s = 1..Len(s)
  OBVIOUS
<1>2. \A i \in 1..Len(s) : (Len(s) - i) + 1 \in 1..Len(s)
  BY <1>1
<1>3. Reverse(s) \in [1..Len(s) -> S]
  BY <1>1, <1>2 DEF Reverse
<1> QED
  BY <1>1, <1>3

(* What scopes deferred are expressions, and so are scheduled controls.    *)
LEMMA DeferredCode ==
  ASSUME NEW controls, AreControls(controls)
  PROVE  DeferredExpressions(controls) \in Seq(Code)
<1> DEFINE s == [i \in DOMAIN controls |-> Deferred(controls[i])]
<1>1. DOMAIN controls = 1..Len(controls) /\ Len(controls) \in Nat
  BY SequenceFacts DEF AreControls
<1>2. \A i \in DOMAIN controls : Deferred(controls[i]) \in Seq(Code)
  <2> SUFFICES ASSUME NEW i \in DOMAIN controls PROVE Deferred(controls[i]) \in Seq(Code)
    OBVIOUS
  <2>1. IsControl(controls[i])
    BY DEF AreControls
  <2>2. controls[i].op = "EndScope" => controls[i].deferred \in Seq(Code)
    BY <2>1 DEF IsControl
  <2> QED BY <2>2 DEF Deferred
<1>3. s \in Seq(Seq(Code))
  BY <1>1, <1>2
<1> HIDE DEF s
<1>4. FlattenSeq(s) \in Seq(Code)
  BY <1>3, FlattenIn
<1> QED
  BY <1>4, ReverseIn DEF DeferredExpressions, s

LEMMA ExpressionControls ==
  ASSUME NEW s \in Seq({Discard} \cup {Expr(e) : e \in Code})
  PROVE  AreControls(s)
<1>1. \A c \in {Discard} \cup {Expr(e) : e \in Code} : IsControl(c)
  BY DEF Discard, Expr, IsControl, FinishOp
<1>2. IsSequence(s)
  BY SequenceOf
<1>3. \A i \in DOMAIN s : s[i] \in {Discard} \cup {Expr(e) : e \in Code}
  OBVIOUS
<1> QED
  BY <1>1, <1>2, <1>3 DEF AreControls

LEMMA ScheduledControls ==
  ASSUME NEW s \in Seq(Code)
  PROVE  AreControls(Scheduled(s))
<1> DEFINE S == {Discard} \cup {Expr(e) : e \in Code}
           t == [i \in DOMAIN s |-> <<Discard, Expr(Reverse(s)[i])>>]
<1>1. DOMAIN s = 1..Len(s) /\ Len(s) \in Nat
  OBVIOUS
<1>2. \A i \in DOMAIN s : Reverse(s)[i] \in Code
  BY <1>1, ReverseIn
<1>3. \A i \in DOMAIN s : <<Discard, Expr(Reverse(s)[i])>> \in Seq(S)
  BY <1>2
<1>4. t \in Seq(Seq(S))
  <2> HIDE DEF S
  <2> QED BY <1>1, <1>3
<1> HIDE DEF t, S
<1>5. FlattenSeq(t) \in Seq(S)
  BY <1>4, FlattenIn
<1> QED
  BY <1>5, ExpressionControls DEF Scheduled, t, S

LEMMA ClosingControls ==
  ASSUME NEW s \in Seq(Code)
  PROVE  AreControls(FlattenSeq([i \in DOMAIN s |-> <<Discard, Expr(s[i])>>]))
<1> DEFINE S == {Discard} \cup {Expr(e) : e \in Code}
           t == [i \in DOMAIN s |-> <<Discard, Expr(s[i])>>]
<1>1. DOMAIN s = 1..Len(s) /\ Len(s) \in Nat
  OBVIOUS
<1>2. \A i \in DOMAIN s : <<Discard, Expr(s[i])>> \in Seq(S)
  OBVIOUS
<1>3. t \in Seq(Seq(S))
  <2> HIDE DEF S
  <2> QED BY <1>1, <1>2
<1> HIDE DEF t, S
<1>4. FlattenSeq(t) \in Seq(S)
  BY <1>3, FlattenIn
<1> QED
  BY <1>4, ExpressionControls DEF t, S

LEMMA ControlsWithin ==
  ASSUME NEW s, AreControls(s), NEW a \in Nat \ {0}, NEW b \in Nat, b <= Len(s)
  PROVE  AreControls(SubSeq(s, a, b))
<1> DEFINE t == SubSeq(s, a, b)
<1>1. s \in Seq(ToSet(s)) /\ Len(s) \in Nat /\ DOMAIN s = 1..Len(s)
  BY SequenceFacts DEF AreControls
<1>2. t \in Seq(ToSet(s)) /\ Len(t) = IF a <= b THEN b - a + 1 ELSE 0
  BY <1>1
<1>3. \A i \in 1..Len(t) : t[i] = s[a + i - 1] /\ a + i - 1 \in DOMAIN s
  BY <1>1
<1> HIDE DEF t
<1>4. IsSequence(t) /\ DOMAIN t = 1..Len(t)
  BY <1>2, SequenceOf
<1>5. AreControls(t)
  BY <1>3, <1>4 DEF AreControls
<1> QED
  BY <1>5 DEF t


-----------------------------------------------------------------------------
(***************************************************************************)
(* The handlers, one lemma each: the machine a handler leaves is reckoned  *)
(* as the one it found was.                                                *)
(***************************************************************************)

Bearings == [limits |-> machine.limits, prior |-> machine.prior,
             open |-> Marks("engine", machine.frames), ids |-> Marks("constant", machine.frames),
             top |-> Top(machine).callable]

MachineOK == Reckoned(machine, 0, Bearings)

Keeps == Reckoned(machine', 0, Bearings) /\ program' = program

LEMMA BecomesReckoned ==
  ASSUME NEW STATE m, Becomes(m), Reckoned(m, 0, Bearings)
  PROVE  Keeps
  BY DEF Becomes, Keeps

LEMMA BecomesKeeps ==
  ASSUME NEW STATE m, Becomes(m), Accounted(m, 0, Bearings)
  PROVE  Keeps
  BY BecomesReckoned DEF Accounted

LEMMA ChoosesKeeps ==
  ASSUME NEW STATE m, NEW STATE site, NEW STATE choice, Chooses(site, choice, m),
         Accounted(m, 0, Bearings)
  PROVE  Keeps
  BY DEF Chooses, Accounted, Keeps

LEMMA TopParts ==
  ASSUME NEW m, NEW w, Accounted(m, 0, w), Running(m)
  PROVE  /\ Allowed(w.top, Top(m).controls)
         /\ Ordinary(w) => AreControls(Top(m).controls)
         /\ AreValues(Top(m).values) /\ AreLocals(Locals(m))
         /\ \A l : IsLive(m, l) => IsValue(Locals(m)[l])
<1>1. IsFrame(Top(m)) /\ Top(m).callable = w.top
  BY TopFrame
<1> QED
  BY <1>1 DEF IsFrame, Locals, IsLive, AreLocals, Allowed, Ordinary

(* Taking the last control off a frame of the engine leaves its first one, *)
(* unless that is the one taken.                                           *)
LEMMA AllowedFront ==
  ASSUME NEW callable, NEW s, Allowed(callable, s), s # <<>>,
         Last(s).op \notin {"FinishRoot", "FinishConstant"}
  PROVE  /\ Allowed(callable, Front(s)) /\ IsControl(Last(s))
         /\ callable \in EngineFrames => IsPlain(Last(s))
<1>1. CASE callable \notin EngineFrames
  BY <1>1, ControlsFront DEF Allowed
<1>2. CASE callable \in EngineFrames
  <2>1. /\ IsSequence(s) /\ s[1].op \in {"FinishRoot", "FinishConstant"}
        /\ s[1].op = Ending(callable)
        /\ \A i \in DOMAIN s : i # 1 => IsControl(s[i]) /\ IsPlain(s[i])
    BY <1>2 DEF Allowed, Guarded, Ending
  <2>2. /\ Len(s) \in Nat \ {0} /\ IsSequence(Front(s)) /\ Len(Front(s)) = Len(s) - 1
        /\ \A i \in 1..Len(s)-1 : Front(s)[i] = s[i]
        /\ Last(s) = s[Len(s)] /\ Len(s) \in DOMAIN s
    BY <2>1, FrontFacts
  <2>3. Len(s) # 1
    BY <2>1, <2>2
  <2> DEFINE t == Front(s)
  <2>4. DOMAIN t = 1..Len(s)-1 /\ DOMAIN s = 1..Len(s) /\ IsSequence(t) /\ Len(t) = Len(s) - 1
    BY <2>1, <2>2, SequenceFacts
  <2>5. \A i \in DOMAIN t : t[i] = s[i] /\ i \in DOMAIN s
    BY <2>2, <2>4
  <2> HIDE DEF t
  <2>6. 1 \in DOMAIN t /\ t # <<>>
    BY <2>2, <2>3, <2>4
  <2>7. Guarded(callable, t)
    BY <2>1, <2>4, <2>5, <2>6 DEF Guarded
  <2> QED BY <1>2, <2>1, <2>2, <2>3, <2>7 DEF Allowed, t
<1> QED
  BY <1>1, <1>2

(* What every handler starts from.                                         *)
LEMMA Pops ==
  ASSUME MachineOK, NEW op, At(op), op \notin {"FinishRoot", "FinishConstant"}
  PROVE  /\ Accounted(Popped, 0, Bearings) /\ Running(Popped)
         /\ IsControl(Control) /\ Control.op = op
         /\ ~ IsPlain(Control) => Ordinary(Bearings)
         /\ Ordinary(Bearings) => AreControls(Top(Popped).controls)
         /\ AreLocals(Locals(Popped)) /\ Top(Popped).values = Top(machine).values
<1>1. Accounted(machine, 0, Bearings) /\ Running(machine)
  <2>1. Running(machine) /\ Depth(machine) > 0
    BY DEF At
  <2>2. machine.frames # <<>>
    BY <2>1 DEF Depth
  <2>3. Top(machine).callable = Bearings.top
    BY DEF Bearings
  <2> QED BY <2>1, <2>2, <2>3 DEF MachineOK, Accounted, Topped
<1>2. Allowed(Bearings.top, Top(machine).controls) /\ Top(machine).controls # <<>>
  BY <1>1, TopParts DEF At
<1>3. Control.op = op
  BY DEF At
<1>4. /\ Allowed(Bearings.top, Front(Top(machine).controls)) /\ IsControl(Control)
      /\ Bearings.top \in EngineFrames => IsPlain(Control)
  BY <1>2, <1>3, AllowedFront DEF Control
<1>5. /\ Accounted(Popped, 0, Bearings) /\ Running(Popped)
      /\ Top(Popped).values = Top(machine).values
  BY <1>1, <1>4, ControlsAccounted DEF Popped
<1> QED
  BY <1>3, <1>4, <1>5, TopParts DEF Ordinary

LEMMA TakesValue ==
  ASSUME NEW m, NEW w, Accounted(m, 0, w)
  PROVE  /\ Accounted(PopValue(m), 0, w)
         /\ Running(PopValue(m)) => Running(m) /\ IsValue(TopValue(m))
  BY PopValueAccounted

LEMMA GivesValue ==
  ASSUME NEW m, NEW w, Accounted(m, 0, w), NEW v, Running(m) => IsValue(v)
  PROVE  Accounted(PushValue(m, v), 0, w)
  BY PushValueAccounted

LEMMA Fails ==
  ASSUME NEW m, NEW w, Accounted(m, 0, w), NEW of,
         NEW kind \in {"Panicked", "CreatorRejected", "Defect"}
  PROVE  Accounted(Fail(m, kind, of), 0, w)
<1> DEFINE zero == 0
<1>1. zero \in Int /\ kind \in {"Completed", "Panicked", "CreatorRejected", "Defect"}
  OBVIOUS
<1>2. Accounted(m, zero, w)
  OBVIOUS
<1> HIDE DEF zero
<1>3. Accounted(Fail(m, kind, of), zero, w)
  BY <1>1, <1>2, FailAccounted
<1> QED
  BY <1>3 DEF zero

LEMMA Pushes ==
  ASSUME NEW m, NEW w, Accounted(m, 0, w), NEW controls, Running(m) => AreControls(controls),
         Ordinary(w) \/ ArePlain(controls)
  PROVE  Accounted(Push(m, controls), 0, w)
  BY PushAccounted

LEMMA PushesOne ==
  ASSUME NEW m, NEW w, Accounted(m, 0, w), NEW c, Running(m) => IsControl(c),
         Ordinary(w) \/ IsPlain(c)
  PROVE  Accounted(Push(m, <<c>>), 0, w)
<1>1. Running(m) => AreControls(<<c>>)
  BY FewControls
<1>2. IsPlain(c) => ArePlain(<<c>>)
  BY DEF ArePlain
<1> QED
  BY <1>1, <1>2, Pushes

LEMMA PushesTwo ==
  ASSUME NEW m, NEW w, Accounted(m, 0, w), Ordinary(w), NEW c, NEW d,
         Running(m) => IsControl(c) /\ IsControl(d)
  PROVE  Accounted(Push(m, <<c, d>>), 0, w)
<1>1. Running(m) => AreControls(<<c, d>>)
  BY FewControls
<1> QED
  BY <1>1, Pushes

LEMMA LeafKeeps == ASSUME MachineOK, Leaf PROVE Keeps
<1> DEFINE e == Control.expression
<1>1. AtExpr("Leaf") /\ e \in Code /\ e.kind = "Leaf"
  BY Pops DEF Leaf, AtExpr, IsControl
<1>2. Accounted(Popped, 0, Bearings)
  BY <1>1, Pops DEF AtExpr
<1>3. PICK choice \in LeafChoices(e) : Chooses(e.site, choice, PushValue(Popped, LeafValue(e, choice)))
  BY DEF Leaf
<1>4. choice \in BOOLEAN
  BY <1>3 DEF LeafChoices
<1>5. IsValue(LeafValue(e, choice))
  BY <1>1, <1>4, LeafOfValue
<1> DEFINE m == PushValue(Popped, LeafValue(e, choice))
<1>6. Accounted(m, 0, Bearings)
  BY <1>2, <1>5, GivesValue
<1> QED
  BY <1>3, <1>6, ChoosesKeeps

LEMMA ReadKeeps == ASSUME MachineOK, Read PROVE Keeps
<1> DEFINE e == Control.expression
           v == Locals(Popped)[e.local]
           a == Fail(Popped, "CreatorRejected", "MissingLocal")
           b == Fail(Popped, "Defect", "place field projects a non-struct value")
           c == PushValue(Popped, Projected(v, e.field))
           m == IF ~ IsLive(Popped, e.local) THEN a
                ELSE IF ~ Projects(v, e.field) THEN b ELSE c
<1>1. Accounted(Popped, 0, Bearings) /\ Running(Popped)
  BY Pops DEF Read, AtExpr
<1>2. Becomes(m)
  BY DEF Read
<1>3. Accounted(a, 0, Bearings) /\ Accounted(b, 0, Bearings)
  BY <1>1, Fails
<1>4. IsLive(Popped, e.local) /\ Projects(v, e.field) => Accounted(c, 0, Bearings)
  <2>1. IsLive(Popped, e.local) => IsValue(v)
    BY <1>1, TopParts
  <2> HIDE DEF v
  <2> QED BY <1>1, <2>1, ProjectedValue, GivesValue
<1>5. Accounted(m, 0, Bearings)
  <2> HIDE DEF a, b, c, v
  <2> QED BY <1>3, <1>4
<1> QED
  BY <1>2, <1>5, BecomesKeeps

LEMMA MakeFunctionKeeps == ASSUME MachineOK, MakeFunction PROVE Keeps
<1> DEFINE m == PushValue(Popped, FunctionValue(Control.expression.function))
<1>1. Accounted(Popped, 0, Bearings)
  BY Pops DEF MakeFunction, AtExpr
<1>2. Accounted(m, 0, Bearings)
  BY <1>1, FunctionIsValue, GivesValue
<1>3. Becomes(m)
  BY DEF MakeFunction
<1> QED
  BY <1>2, <1>3, BecomesKeeps

LEMMA MakeClosureKeeps == ASSUME MachineOK, MakeClosure PROVE Keeps
<1> DEFINE e == Control.expression
           m == IF \A i \in DOMAIN e.captures : IsLive(Popped, e.captures[i])
                THEN PushValue(Popped, Closure(e, Locals(Popped)))
                ELSE Fail(Popped, "CreatorRejected", "MissingLocal")
<1>1. /\ Accounted(Popped, 0, Bearings) /\ Running(Popped) /\ e \in Code /\ e.kind = "Closure"
  BY Pops DEF MakeClosure, AtExpr, IsControl
<1>2. \A l : IsLive(Popped, l) => IsValue(Locals(Popped)[l])
  BY <1>1, TopParts
<1>3. (\A i \in DOMAIN e.captures : IsLive(Popped, e.captures[i]))
         => IsValue(Closure(e, Locals(Popped)))
  BY <1>1, <1>2, ClosureValue
<1>4. Accounted(m, 0, Bearings)
  BY <1>1, <1>3, GivesValue, Fails
<1>5. Becomes(m)
  BY DEF MakeClosure
<1> QED
  BY <1>4, <1>5, BecomesKeeps


(* Compound expressions: their operands, then what finishes them.          *)
LEMMA FinishControl ==
  ASSUME NEW e \in Code, e.kind \in DOMAIN FinishOp
  PROVE  IsControl([op |-> FinishOp[e.kind], expression |-> e])
<1> DEFINE c == [op |-> FinishOp[e.kind], expression |-> e]
<1>1. c.op = FinishOp[e.kind] /\ c.expression = e
  OBVIOUS
<1>2. c.op \in {"FinishArray", "FinishCall", "FinishBinary", "FinishNegate",
                "FinishShortCircuit", "FinishReadPlace", "FinishPropagate"}
  BY <1>1 DEF FinishOp
<1> HIDE DEF c
<1>3. IsControl(c)
  BY <1>1, <1>2 DEF IsControl
<1> QED
  BY <1>3 DEF c

LEMMA OperandsOfCode ==
  ASSUME NEW e \in Code, e.kind \in DOMAIN FinishOp
  PROVE  Operands(e) \in Seq(Code)
<1>1. IsHirExpression(e)
  BY CodeAssumption
<1>2. e.kind \in {"Array", "Call", "CallClosure", "Variant", "Struct", "Binary", "Negate",
                  "ShortCircuit", "ReadPlace", "Propagate"}
  BY DEF FinishOp
<1>3. CASE e.kind \in {"Array", "Call", "Variant", "Struct"}
  BY <1>1, <1>3 DEF IsHirExpression, Operands
<1>4. CASE e.kind = "CallClosure"
  <2>1. e.callable \in Code /\ e.arguments \in Seq(Code)
    BY <1>1, <1>4 DEF IsHirExpression
  <2>2. Operands(e) = <<e.callable>> \o e.arguments
    BY <1>4 DEF Operands
  <2>3. <<e.callable>> \in Seq(Code)
    BY <2>1
  <2> QED BY <2>1, <2>2, <2>3
<1>5. CASE e.kind \in {"Binary", "ShortCircuit"}
  <2>1. e.left \in Code /\ e.right \in Code
    BY <1>1, <1>5 DEF IsHirExpression
  <2> QED BY <1>5, <2>1 DEF Operands
<1>6. CASE e.kind \in {"Negate", "ReadPlace", "Propagate"}
  <2>1. Operands(e) = <<IF e.kind = "ReadPlace" THEN e.index ELSE e.value>>
    BY <1>6 DEF Operands
  <2>2. (IF e.kind = "ReadPlace" THEN e.index ELSE e.value) \in Code
    BY <1>1, <1>6 DEF IsHirExpression
  <2> QED BY <2>1, <2>2
<1> QED
  BY <1>2, <1>3, <1>4, <1>5, <1>6

LEMMA CompoundKeeps == ASSUME MachineOK, Compound PROVE Keeps
<1> DEFINE e     == Control.expression
           c     == [op |-> FinishOp[e.kind], expression |-> e]
           s     == [i \in DOMAIN Operands(e) |-> Expr(Reverse(Operands(e))[i])]
           m     == Push(Popped, <<c>> \o s)
<1>1. Accounted(Popped, 0, Bearings) /\ e \in Code /\ e.kind \in DOMAIN FinishOp
  BY Pops DEF Compound, IsControl
<1>2. AreControls(<<c>>)
  <2>1. IsControl(c)
    BY <1>1, FinishControl
  <2> HIDE DEF c
  <2> QED BY <2>1, FewControls
<1>3. AreControls(s)
  <2>1. Operands(e) \in Seq(Code)
    BY <1>1, OperandsOfCode
  <2> DEFINE o == Operands(e)
  <2> HIDE DEF o
  <2>2. o \in Seq(Code) /\ s = [i \in DOMAIN o |-> Expr(Reverse(o)[i])]
    BY <2>1 DEF o
  <2>3. Reverse(o) \in Seq(Code) /\ Len(Reverse(o)) = Len(o) /\ DOMAIN o = 1..Len(o) /\ Len(o) \in Nat
    BY <2>2, ReverseIn
  <2>4. \A i \in DOMAIN o : Reverse(o)[i] \in Code
    BY <2>3
  <2>5. s \in Seq({Discard} \cup {Expr(x) : x \in Code})
    BY <2>2, <2>3, <2>4
  <2> QED BY <2>5, ExpressionControls
<1>4. Becomes(m)
  BY DEF Compound
<1> HIDE DEF c, s
<1>5. AreControls(<<c>> \o s)
  BY <1>2, <1>3, ControlsConcat
<1>6. ArePlain(<<c>> \o s)
  <2> DEFINE t == <<c>> \o s
  <2>1. /\ IsSequence(<<c>>) /\ IsSequence(s) /\ Len(<<c>>) = 1 /\ Len(s) \in Nat
        /\ DOMAIN s = 1..Len(s)
    BY <1>2, <1>3, SequenceFacts DEF AreControls
  <2>2. /\ IsSequence(t) /\ Len(t) = 1 + Len(s)
        /\ \A i \in 1..1+Len(s) : t[i] = IF i <= 1 THEN <<c>>[i] ELSE s[i - 1]
    <3> DEFINE u == <<c>>
    <3> HIDE DEF u
    <3> QED BY <2>1, ConcatFacts DEF u
  <2>3. DOMAIN t = 1..1+Len(s)
    BY <2>1, <2>2, SequenceFacts
  <2>4. IsPlain(c)
    BY <1>1 DEF c, IsPlain, FinishOp
  <2>5. \A i \in DOMAIN s : IsPlain(s[i])
    BY DEF s, IsPlain, Expr
  <2> HIDE DEF t
  <2>6. \A i \in DOMAIN t : IsPlain(t[i])
    <3> TAKE i \in DOMAIN t
    <3>1. CASE i = 1
      BY <2>2, <2>3, <2>4, <3>1
    <3>2. CASE i # 1
      <4>1. i - 1 \in DOMAIN s /\ t[i] = s[i - 1]
        BY <2>1, <2>2, <2>3, <3>2
      <4> QED BY <2>5, <4>1
    <3> QED BY <3>1, <3>2
  <2> QED BY <2>6 DEF ArePlain, t
<1>7. Accounted(m, 0, Bearings)
  BY <1>1, <1>5, <1>6, Pushes
<1> QED
  BY <1>4, <1>7, BecomesKeeps

LEMMA FinishArrayKeeps == ASSUME MachineOK, FinishArray PROVE Keeps
<1> DEFINE n == Len(Control.expression.arguments)
           p == PopValues(Popped, n)
           m == PushValue(p, Array(TopValues(Popped, n)))
<1>1. /\ Accounted(Popped, 0, Bearings) /\ Control.expression \in Code
      /\ Control.expression.kind = "Array"
  <2>1. IsControl(Control) /\ Control.op = "FinishArray" /\ Accounted(Popped, 0, Bearings)
    BY Pops DEF FinishArray
  <2> QED BY <2>1 DEF IsControl, FinishOp
<1>2. n \in Nat
  <2>1. IsHirExpression(Control.expression)
    BY <1>1, CodeAssumption
  <2>2. Control.expression.arguments \in Seq(Code)
    BY <1>1, <2>1 DEF IsHirExpression
  <2> QED BY <2>2
<1>3. Becomes(m)
  BY DEF FinishArray
<1> HIDE DEF n
<1>4. Accounted(p, 0, Bearings) /\ (Running(p) => AreValues(TopValues(Popped, n)))
  BY <1>1, <1>2, PopValuesAccounted
<1> HIDE DEF p
<1>5. Running(p) => IsValue(Array(TopValues(Popped, n)))
  BY <1>4, ArrayValue
<1>6. Accounted(m, 0, Bearings)
  BY <1>4, <1>5, GivesValue
<1> QED
  BY <1>3, <1>6, BecomesKeeps

LEMMA FinishReadPlaceKeeps == ASSUME MachineOK, FinishReadPlace PROVE Keeps
<1> DEFINE e     == Control.expression
           index == TopValue(Popped)
           p     == PopValue(Popped)
           root  == Locals(Popped)[e.local]
<1>1. Accounted(Popped, 0, Bearings) /\ Running(Popped)
  BY Pops DEF FinishReadPlace
<1>2. Accounted(p, 0, Bearings) /\ (IsLive(Popped, e.local) => IsValue(root))
  BY <1>1, TakesValue, TopParts
<1>3. \/ ~ IsLive(Popped, e.local) /\ Becomes(Fail(p, "CreatorRejected", "MissingLocal"))
      \/ Becomes(Fail(p, "Defect", "place index projects a non-array value"))
      \/ /\ IsLive(Popped, e.local) /\ root.tag = "Array"
         /\ \E i \in 0..Len(root.elements) :
              Chooses(e.site, i, IF i = 0 THEN Fail(p, "Panicked", e.site)
                                 ELSE PushValue(p, root.elements[i]))
  BY DEF FinishReadPlace
<1> HIDE DEF p, root, e
<1>4. CASE Becomes(Fail(p, "CreatorRejected", "MissingLocal"))
  <2>1. Accounted(Fail(p, "CreatorRejected", "MissingLocal"), 0, Bearings)
    BY <1>2, Fails
  <2> QED BY <1>4, <2>1, BecomesKeeps
<1>5. CASE Becomes(Fail(p, "Defect", "place index projects a non-array value"))
  <2>1. Accounted(Fail(p, "Defect", "place index projects a non-array value"), 0, Bearings)
    BY <1>2, Fails
  <2> QED BY <1>5, <2>1, BecomesKeeps
<1>6. CASE /\ IsLive(Popped, e.local) /\ root.tag = "Array"
           /\ \E i \in 0..Len(root.elements) :
                Chooses(e.site, i, IF i = 0 THEN Fail(p, "Panicked", e.site)
                                   ELSE PushValue(p, root.elements[i]))
  <2>1. AreValues(root.elements)
    BY <1>2, <1>6, ValueParts
  <2>2. DOMAIN root.elements = 1..Len(root.elements) /\ Len(root.elements) \in Nat
    BY <2>1, SequenceFacts DEF AreValues
  <2>3. PICK i \in 0..Len(root.elements) :
          Chooses(e.site, i, IF i = 0 THEN Fail(p, "Panicked", e.site)
                             ELSE PushValue(p, root.elements[i]))
    BY <1>6
  <2> DEFINE m == IF i = 0 THEN Fail(p, "Panicked", e.site) ELSE PushValue(p, root.elements[i])
  <2>4. i # 0 => IsValue(root.elements[i])
    <3>1. i # 0 => i \in DOMAIN root.elements
      BY <2>2
    <3> QED BY <2>1, <3>1 DEF AreValues
  <2>5. Accounted(m, 0, Bearings)
    BY <1>2, <2>4, GivesValue, Fails
  <2> QED BY <2>3, <2>5, ChoosesKeeps
<1> QED
  BY <1>3, <1>4, <1>5, <1>6

LEMMA FinishNegateKeeps == ASSUME MachineOK, FinishNegate PROVE Keeps
<1> DEFINE e == Control.expression
           p == PopValue(Popped)
<1>1. Accounted(Popped, 0, Bearings)
  BY Pops DEF FinishNegate
<1>2. Accounted(p, 0, Bearings)
  BY <1>1, TakesValue
<1> HIDE DEF p
<1>3. PICK fits \in BOOLEAN :
        Chooses(e.site, fits, IF fits THEN PushValue(p, Integer(e.site))
                              ELSE Fail(p, "Panicked", e.site))
  BY DEF FinishNegate, p
<1> DEFINE m == IF fits THEN PushValue(p, Integer(e.site)) ELSE Fail(p, "Panicked", e.site)
<1>4. Accounted(m, 0, Bearings)
  BY <1>2, PlainValues, GivesValue, Fails
<1> QED
  BY <1>3, <1>4, ChoosesKeeps DEF p

LEMMA FinishBinaryKeeps == ASSUME MachineOK, FinishBinary PROVE Keeps
<1> DEFINE e        == Control.expression
           operands == TopValues(Popped, 2)
           p        == PopValues(Popped, 2)
<1>1. Accounted(Popped, 0, Bearings)
  BY Pops DEF FinishBinary
<1>2. Accounted(p, 0, Bearings)
  <2>1. 2 \in Nat
    OBVIOUS
  <2> QED BY <1>1, <2>1, PopValuesAccounted
<1> HIDE DEF p
<1>3. CASE \E i \in 1..2 : operands[i].tag # "Int"
  <2>1. Becomes(Fail(p, "CreatorRejected", "BinaryTypeMismatch"))
    BY <1>3 DEF FinishBinary, p
  <2>2. Accounted(Fail(p, "CreatorRejected", "BinaryTypeMismatch"), 0, Bearings)
    BY <1>2, Fails
  <2> QED BY <2>1, <2>2, BecomesKeeps DEF p
<1>4. CASE ~ \E i \in 1..2 : operands[i].tag # "Int"
  <2>1. PICK fits \in BOOLEAN :
          Chooses(e.site, fits, IF fits THEN PushValue(p, Integer(e.site))
                                ELSE Fail(p, "Panicked", e.site))
    BY <1>4 DEF FinishBinary, p
  <2> DEFINE m == IF fits THEN PushValue(p, Integer(e.site)) ELSE Fail(p, "Panicked", e.site)
  <2>2. Accounted(m, 0, Bearings)
    BY <1>2, PlainValues, GivesValue, Fails
  <2> QED BY <2>1, <2>2, ChoosesKeeps DEF p
<1> QED
  BY <1>3, <1>4

LEMMA FinishShortCircuitKeeps == ASSUME MachineOK, FinishShortCircuit PROVE Keeps
<1> DEFINE e    == Control.expression
           left == TopValue(Popped)
           p    == PopValue(Popped)
           m    == CASE left.tag # "Bool" -> Fail(p, "Defect", "operand is not Bool")
                     [] left.tag = "Bool" /\ left.truth = (e.operator = "or")
                          -> PushValue(p, left)
                     [] OTHER -> Push(p, <<Expr(e.right)>>)
<1>1. Accounted(Popped, 0, Bearings) /\ e \in Code /\ e.kind = "ShortCircuit"
  <2>1. IsControl(Control) /\ Control.op = "FinishShortCircuit" /\ Accounted(Popped, 0, Bearings)
    BY Pops DEF FinishShortCircuit
  <2> QED BY <2>1 DEF IsControl, FinishOp
<1>2. Accounted(p, 0, Bearings) /\ (Running(p) => IsValue(left))
  BY <1>1, TakesValue
<1>3. IsControl(Expr(e.right))
  <2>1. IsHirExpression(e)
    BY <1>1, CodeAssumption
  <2>2. e.right \in Code
    BY <1>1, <2>1 DEF IsHirExpression
  <2> QED BY <2>2 DEF IsControl, Expr, FinishOp
<1>4. Becomes(m) /\ IsPlain(Expr(e.right))
  BY DEF FinishShortCircuit, IsPlain, Expr
<1> DEFINE a == Fail(p, "Defect", "operand is not Bool")
           b == PushValue(p, left)
           c == Push(p, <<Expr(e.right)>>)
<1>5. Accounted(a, 0, Bearings) /\ Accounted(b, 0, Bearings) /\ Accounted(c, 0, Bearings)
  <2> HIDE DEF p, left
  <2> QED BY <1>2, <1>3, <1>4, Fails, GivesValue, PushesOne
<1>6. m = a \/ m = b \/ m = c
  <2> HIDE DEF p, left
  <2> QED OBVIOUS
<1>7. Accounted(m, 0, Bearings)
  <2> HIDE DEF a, b, c, m
  <2> QED BY <1>5, <1>6
<1> QED
  BY <1>4, <1>7, BecomesKeeps


(* Leaving a frame early.                                                  *)
LEMMA UnwoundAccounted ==
  ASSUME NEW m, NEW w, Accounted(m, 0, w), Running(m) => Ordinary(w),
         NEW finish, IsControl(finish)
  PROVE  Accounted(Unwound(m, finish), 0, w)
<1> DEFINE s == Scheduled(DeferredExpressions(Top(m).controls))
<1>1. Running(m) => AreControls(s)
  BY TopParts, DeferredCode, ScheduledControls
<1> HIDE DEF s
<1>2. AreControls(<<finish>>)
  BY FewControls
<1>3. Running(m) => AreControls(<<finish>> \o s)
  BY <1>1, <1>2, ControlsConcat
<1>4. Accounted(WithControls(m, <<finish>> \o s), 0, w)
  BY <1>3, ControlsAccounted DEF Allowed, Ordinary
<1> QED
  BY <1>4 DEF Unwound, s

LEMMA FinishingControls ==
  ASSUME NEW type
  PROVE  IsControl(FinishReturn(type)) /\ IsControl([op |-> "FinishUnitReturn"])
  BY DEF IsControl, FinishReturn, FinishOp

LEMMA FinishPropagateKeeps == ASSUME MachineOK, FinishPropagate PROVE Keeps
<1> DEFINE v         == TopValue(Popped)
           p         == PopValue(Popped)
           frame     == Top(p)
           scheduled == \E i \in DOMAIN frame.controls : frame.controls[i].op = "FinishReturn"
           u         == Unwound(p, FinishReturn(frame.returns))
           a         == PushValue(p, v.payload)
           b         == Fail(p, "Defect", "alternative does not match callable return")
           c         == PushValue(p, v)
           d         == PushValue(u, v)
           f         == Fail(p, "CreatorRejected", "PropagationRequiresResult")
           m         == CASE v.tag = "Ok" -> a
                          [] v.tag = "Err" /\ frame.returns # "Result" -> b
                          [] v.tag = "Err" /\ frame.returns = "Result" /\ scheduled -> c
                          [] v.tag = "Err" /\ frame.returns = "Result" /\ ~ scheduled -> d
                          [] OTHER -> f
<1>1. Accounted(Popped, 0, Bearings)
  BY Pops DEF FinishPropagate
<1>2. Accounted(p, 0, Bearings) /\ (Running(p) => IsValue(v))
  BY <1>1, TakesValue
<1>3. Becomes(m)
  BY DEF FinishPropagate
<1>0. Running(p) /\ frame.returns = "Result" => Ordinary(Bearings)
  <2> SUFFICES ASSUME Running(p), frame.returns = "Result" PROVE Ordinary(Bearings)
    OBVIOUS
  <2>1. IsFrame(Top(p)) /\ Top(p).callable = Bearings.top
    <3> HIDE DEF p, frame
    <3> QED BY <1>2, TopFrame
  <2> QED BY <2>1 DEF IsFrame, Bare, Ordinary
<1> HIDE DEF p, v, frame
<1>4. frame.returns = "Result" => Accounted(u, 0, Bearings) /\ (Running(u) => Running(p))
  <2>0. SUFFICES ASSUME frame.returns = "Result"
                 PROVE  Accounted(u, 0, Bearings) /\ (Running(u) => Running(p))
    OBVIOUS
  <2>1. IsControl(FinishReturn(frame.returns))
    BY FinishingControls
  <2>2. Accounted(u, 0, Bearings)
    BY <1>0, <1>2, <2>0, <2>1, UnwoundAccounted
  <2>3. u.outcome = p.outcome
    <3>1. p.outcome = WithTop(p, [Top(p) EXCEPT !.controls =
              <<FinishReturn(frame.returns)>> \o Scheduled(DeferredExpressions(Top(p).controls))]).outcome
      BY <1>2 DEF WithTop, Accounted, Reckoned, OfRoot, MachineFields
    <3> QED BY <3>1 DEF Unwound, WithControls
  <2> QED BY <2>2, <2>3 DEF Running
<1> HIDE DEF u
<1>5. v.tag = "Ok" => (Running(p) => IsValue(v.payload))
  BY <1>2, ValueParts
<1>6. Accounted(b, 0, Bearings) /\ Accounted(f, 0, Bearings)
  BY <1>2, Fails
<1>7. Accounted(c, 0, Bearings) /\ (frame.returns = "Result" => Accounted(d, 0, Bearings))
  BY <1>2, <1>4, GivesValue
<1>8. v.tag = "Ok" => Accounted(a, 0, Bearings)
  BY <1>2, <1>5, GivesValue
<1>9. \/ v.tag = "Ok" /\ m = a
      \/ m = b \/ m = c \/ m = f
      \/ frame.returns = "Result" /\ m = d
  <2> HIDE DEF a, b, c, d, f, scheduled
  <2> QED OBVIOUS
<1>10. Accounted(m, 0, Bearings)
  <2> HIDE DEF a, b, c, d, f, m
  <2> QED BY <1>6, <1>7, <1>8, <1>9
<1> QED
  BY <1>3, <1>10, BecomesKeeps DEF p, v, frame, u

-----------------------------------------------------------------------------
(* Calls.                                                                  *)
IsProgram(p) == "main" \in DOMAIN p /\ \A f \in DOMAIN p : IsHirFunction(p[f])

LEMMA CallsFunction ==
  ASSUME NEW m, NEW w, Accounted(m, 0, w), NEW f, IsHirFunction(f),
         NEW arguments, Running(m) => AreValues(arguments),
         NEW writebacks, IsSequence(writebacks)
  PROVE  Reckoned(PushFunction(m, f, arguments, writebacks), 0, w)
<1>1. CASE ~ Running(m)
  BY <1>1 DEF PushFunction, PushFrame, Accounted
<1>2. CASE Running(m)
  BY <1>2, PushFunctionAccounted DEF Accounted
<1> QED
  BY <1>1, <1>2

LEMMA ValuesConcat ==
  ASSUME NEW s, AreValues(s), NEW t, AreValues(t)
  PROVE  AreValues(s \o t)
<1>1. IsSequence(s) /\ IsSequence(t)
  BY DEF AreValues
<1>2. /\ IsSequence(s \o t) /\ Len(s \o t) = Len(s) + Len(t)
      /\ \A i \in 1..Len(s)+Len(t) : (s \o t)[i] = IF i <= Len(s) THEN s[i] ELSE t[i - Len(s)]
  BY <1>1, ConcatFacts
<1>3. /\ DOMAIN (s \o t) = 1..Len(s)+Len(t) /\ DOMAIN s = 1..Len(s) /\ DOMAIN t = 1..Len(t)
      /\ Len(s) \in Nat /\ Len(t) \in Nat
  BY <1>1, <1>2, SequenceFacts
<1>4. ASSUME NEW i \in DOMAIN (s \o t) PROVE IsValue((s \o t)[i])
  <2>1. CASE i <= Len(s)
    BY <1>2, <1>3, <2>1 DEF AreValues
  <2>2. CASE ~ i <= Len(s)
    <3>1. i - Len(s) \in DOMAIN t
      BY <1>3, <2>2
    <3> QED BY <1>2, <1>3, <2>2, <3>1 DEF AreValues
  <2> QED BY <2>1, <2>2
<1> QED
  BY <1>2, <1>4 DEF AreValues

LEMMA CallsClosure ==
  ASSUME NEW m, NEW w, Accounted(m, 0, w), NEW v, Running(m) => IsValue(v), v.tag = "Closure",
         NEW arguments, Running(m) => AreValues(arguments)
  PROVE  Reckoned(PushClosure(m, v, arguments), 0, w)
<1> DEFINE e        == v.expression
           captures == e.captures
           params   == captures \o e.params
           captured == [i \in DOMAIN captures |-> v.captured[captures[i]]]
           types    == [i \in DOMAIN captures |-> v.captured[captures[i]].tag] \o e.types
           first    == [op |-> "FinishClosure", returns |-> e.returns]
           second   == Expr(e.body)
           controls == <<first, second>>
           r        == PushFrame(m, e, params, captured \o arguments, types, controls, <<>>)
<1>1. r = PushClosure(m, v, arguments)
  BY DEF PushClosure
<1>2. CASE ~ Running(m)
  BY <1>2 DEF PushClosure, PushFrame, Accounted
<1>3. CASE Running(m)
  <2>1. /\ e \in Code /\ e.kind = "Closure"
        /\ \A i \in DOMAIN captures : IsValue(v.captured[captures[i]])
    BY <1>3, ValueParts
  <2>2. IsHirExpression(e)
    BY <2>1, CodeAssumption
  <2>3. IsSequence(captures) /\ IsSequence(e.params) /\ e.body \in Code /\ IsInjective(params)
    BY <2>1, <2>2 DEF IsHirExpression
  <2>4. IsSequence(params)
    BY <2>3, ConcatFacts
  <2>5. AreValues(captured)
    <3>1. DOMAIN captures = 1..Len(captures) /\ Len(captures) \in Nat
      BY <2>3, SequenceFacts
    <3>2. captured = [i \in 1..Len(captures) |-> captured[i]]
      BY <3>1
    <3>3. \A i \in DOMAIN captured : IsValue(captured[i])
      BY <2>1
    <3> HIDE DEF captured
    <3>4. IsSequence(captured)
      BY <3>1, <3>2, Tabulated
    <3> QED BY <3>3, <3>4 DEF AreValues
  <2> HIDE DEF captured, params
  <2>6. AreValues(captured \o arguments)
    BY <1>3, <2>5, ValuesConcat
  <2>7. AreControls(controls)
    <3>1. IsControl(first) /\ IsControl(second)
      BY <2>3 DEF IsControl, Expr, FinishOp
    <3> HIDE DEF first, second
    <3> QED BY <3>1, FewControls
  <2>8. IsSequence(<<>>)
    BY FewControls, FinishingControls DEF AreControls
  <2>10. e.kind \notin EngineFrames
    BY <2>1 DEF EngineFrames
  <2> HIDE DEF controls, types, e
  <2>9. Reckoned(r, 0, w)
    BY <1>3, <2>3, <2>4, <2>6, <2>7, <2>8, <2>10, PushFrameAccounted DEF Accounted
  <2> QED BY <1>1, <2>9 DEF e, controls, types, captured, params
<1> QED
  BY <1>2, <1>3

LEMMA WriteBacksListed ==
  ASSUME NEW e \in Code, e.kind \in {"Call", "CallClosure"}, NEW f
  PROVE  IsSequence(WriteBacks(e, f))
<1> DEFINE s == WriteBacks(e, f)
<1>1. IsHirExpression(e)
  BY CodeAssumption
<1>2. e.mutable \in Seq(DOMAIN e.arguments)
  BY <1>1 DEF IsHirExpression
<1>3. DOMAIN e.mutable = 1..Len(e.mutable) /\ Len(e.mutable) \in Nat
  BY <1>2
<1>4. s = [i \in 1..Len(e.mutable) |-> s[i]]
  BY <1>3 DEF WriteBacks
<1> HIDE DEF s
<1>5. IsSequence(s)
  BY <1>3, <1>4, Tabulated
<1> QED
  BY <1>5 DEF s

(* A call, of a callable and with arguments that were taken from the stack. *)
LEMMA CallReckoned ==
  ASSUME IsProgram(program), NEW m, NEW w, Accounted(m, 0, w),
         NEW e \in Code, e.kind \in {"Call", "CallClosure"}, NEW callee, NEW arguments,
         Running(m) => /\ IsValue(callee) /\ AreValues(arguments)
                       /\ Len(arguments) = Len(e.arguments)
  PROVE  Reckoned(Call(m, e, callee, arguments), 0, w)
<1> DEFINE f       == program[callee.name]
           ordered == IF e.kind = "Call" THEN InOrder(arguments, e.order) ELSE arguments
           a == Fail(m, "Defect", "callable target is not a function value")
           b == Fail(m, "CreatorRejected", "UnresolvedCall")
           c == Fail(m, "Defect", "call argument binding")
           d == PushFunction(m, f, ordered, WriteBacks(e, f))
           g == PushClosure(m, callee, arguments)
           bound == callee.tag = "Function" /\ IsResolved(callee) /\ Binds(e, f)
<1>1. Reckoned(a, 0, w) /\ Reckoned(b, 0, w) /\ Reckoned(c, 0, w)
  <2>1. Accounted(a, 0, w) /\ Accounted(b, 0, w) /\ Accounted(c, 0, w)
    BY Fails
  <2> HIDE DEF a, b, c
  <2> QED BY <2>1 DEF Accounted
<1>2. bound => Reckoned(d, 0, w)
  <2> SUFFICES ASSUME bound PROVE Reckoned(d, 0, w)
    OBVIOUS
  <2>1. IsHirFunction(f)
    BY DEF IsResolved, IsProgram
  <2>2. Running(m) => AreValues(ordered)
    <3>1. CASE e.kind # "Call"
      BY <3>1
    <3>2. CASE e.kind = "Call"
      <4>1. IsHirExpression(e)
        BY CodeAssumption
      <4>2. e.order \in Seq(Nat) /\ e.arguments \in Seq(Code)
        BY <3>2, <4>1 DEF IsHirExpression
      <4>3. Len(e.order) = Len(e.arguments) /\ ToSet(e.order) = DOMAIN e.arguments
        BY <3>2 DEF Binds, IsBinding
      <4>4. Running(m) => Len(e.order) = Len(arguments) /\ ToSet(e.order) = DOMAIN arguments
        <5>1. Running(m) => DOMAIN arguments = 1..Len(arguments)
          BY SequenceFacts DEF AreValues
        <5>2. DOMAIN e.arguments = 1..Len(e.arguments)
          BY <4>2
        <5> QED BY <4>3, <5>1, <5>2
      <4>5. Running(m) => AreValues(InOrder(arguments, e.order))
        BY <4>2, <4>4, OrderedValues
      <4> QED BY <3>2, <4>5
    <3> QED BY <3>1, <3>2
  <2>3. IsSequence(WriteBacks(e, f))
    BY WriteBacksListed
  <2> HIDE DEF f, ordered
  <2> QED BY <2>1, <2>2, <2>3, CallsFunction
<1>3. callee.tag = "Closure" => Reckoned(g, 0, w)
  BY CallsClosure
<1>4. \/ Call(m, e, callee, arguments) \in {a, b, c}
      \/ bound /\ Call(m, e, callee, arguments) = d
      \/ callee.tag = "Closure" /\ Call(m, e, callee, arguments) = g
  <2>1. \/ ~ IsCallable(callee)
        \/ IsCallable(callee) /\ ~ IsResolved(callee)
        \/ callee.tag = "Function" /\ IsResolved(callee) /\ ~ Binds(e, f)
        \/ bound
        \/ callee.tag = "Closure"
    BY DEF IsCallable
  <2>2. Call(m, e, callee, arguments)
          = CASE ~ IsCallable(callee) -> a
              [] IsCallable(callee) /\ ~ IsResolved(callee) -> b
              [] callee.tag = "Function" /\ IsResolved(callee) /\ ~ Binds(e, f) -> c
              [] callee.tag = "Function" /\ IsResolved(callee) /\ Binds(e, f) -> d
              [] callee.tag = "Closure" -> g
    BY DEF Call
  <2> HIDE DEF a, b, c, d, g, f
  <2> QED BY <2>1, <2>2
<1> HIDE DEF a, b, c, d, g, bound
<1> QED
  BY <1>1, <1>2, <1>3, <1>4

LEMMA FinishCallKeeps == ASSUME MachineOK, IsProgram(program), FinishCall PROVE Keeps
<1> DEFINE e         == Control.expression
           n         == Len(e.arguments)
           arguments == TopValues(Popped, n)
           p         == PopValues(Popped, n)
           callee    == CalleeOf(e)
           a == PushValue(p, Variant(e.name, arguments[1]))
           b == PushValue(p, Struct(InOrder(arguments, e.order)))
           c == Fail(p, "Defect", "struct construction omitted a field")
           d == Call(p, e, callee, arguments)
           f == Call(PopValue(p), e, callee, arguments)
           m == CASE e.kind = "Variant" -> a
                  [] e.kind = "Struct" /\ IsBinding(e.order, e.arguments) -> b
                  [] e.kind = "Struct" /\ ~ IsBinding(e.order, e.arguments) -> c
                  [] e.kind = "Call" -> d
                  [] e.kind = "CallClosure" -> f
<1>1. /\ Accounted(Popped, 0, Bearings) /\ Running(Popped) /\ e \in Code
      /\ e.kind \in {"Call", "CallClosure", "Variant", "Struct"}
      /\ Top(Popped).values = Top(machine).values
  <2>1. /\ IsControl(Control) /\ Control.op = "FinishCall" /\ Accounted(Popped, 0, Bearings)
        /\ Running(Popped) /\ Top(Popped).values = Top(machine).values
    BY Pops DEF FinishCall
  <2>2. e \in Code /\ e.kind \in DOMAIN FinishOp /\ FinishOp[e.kind] = "FinishCall"
    BY <2>1 DEF IsControl, FinishOp
  <2> QED BY <2>1, <2>2 DEF FinishOp
<1>2. IsHirExpression(e) /\ e.arguments \in Seq(Code) /\ n \in Nat
  <2>1. IsHirExpression(e)
    BY <1>1, CodeAssumption
  <2>2. e.arguments \in Seq(Code)
    BY <1>1, <2>1 DEF IsHirExpression
  <2> QED BY <2>1, <2>2
<1>3. Becomes(m)
  BY DEF FinishCall
<1> HIDE DEF e, n
<1>4. /\ Accounted(p, 0, Bearings)
      /\ Running(p) =>
           /\ AreValues(arguments) /\ Len(arguments) = n /\ DOMAIN arguments = 1..n
           /\ n <= Len(Top(Popped).values) /\ Len(Top(p).values) = Len(Top(Popped).values) - n
  BY <1>1, <1>2, PopValuesAccounted
<1> HIDE DEF p, arguments
<1>5. e.kind = "Variant" => Accounted(a, 0, Bearings)
  <2> SUFFICES ASSUME e.kind = "Variant" PROVE Accounted(a, 0, Bearings)
    OBVIOUS
  <2>1. e.name \in {"Ok", "Err"} /\ e.arguments # <<>>
    BY <1>2 DEF IsHirExpression
  <2>2. n # 0
    BY <1>2, <2>1 DEF n
  <2>3. Running(p) => IsValue(arguments[1])
    BY <1>2, <1>4, <2>2 DEF AreValues
  <2>4. Running(p) => IsValue(Variant(e.name, arguments[1]))
    BY <2>1, <2>3, VariantValue
  <2> QED BY <1>4, <2>4, GivesValue
<1>6. e.kind = "Struct" /\ IsBinding(e.order, e.arguments) => Accounted(b, 0, Bearings)
  <2> SUFFICES ASSUME e.kind = "Struct", IsBinding(e.order, e.arguments)
               PROVE  Accounted(b, 0, Bearings)
    OBVIOUS
  <2>1. e.order \in Seq(Nat)
    BY <1>2 DEF IsHirExpression
  <2>2. DOMAIN e.arguments = 1..n
    BY <1>2 DEF n
  <2>3. Running(p) => /\ Len(e.order) = Len(arguments)
                      /\ ToSet(e.order) = DOMAIN arguments
    BY <1>4, <2>2 DEF IsBinding, n
  <2>4. Running(p) => IsValue(Struct(InOrder(arguments, e.order)))
    BY <1>4, <2>1, <2>3, OrderedValues, StructValue
  <2> QED BY <1>4, <2>4, GivesValue
<1>7. Accounted(c, 0, Bearings)
  BY <1>4, Fails
<1>8. e.kind = "Call" => Reckoned(d, 0, Bearings)
  <2> SUFFICES ASSUME e.kind = "Call" PROVE Reckoned(d, 0, Bearings)
    OBVIOUS
  <2>1. IsValue(callee)
    BY FunctionIsValue DEF CalleeOf
  <2> HIDE DEF callee
  <2> QED BY <1>1, <1>4, <2>1, CallReckoned DEF n
<1>9. e.kind = "CallClosure" => Reckoned(f, 0, Bearings)
  <2> SUFFICES ASSUME e.kind = "CallClosure" PROVE Reckoned(f, 0, Bearings)
    OBVIOUS
  <2> DEFINE q      == PopValue(p)
             values == Top(machine).values
  <2>1. Accounted(q, 0, Bearings) /\ (Running(q) => Running(p) /\ Top(p).values # <<>>)
    BY <1>4, PopValueAccounted
  <2>2. AreValues(values) /\ Len(values) \in Nat /\ DOMAIN values = 1..Len(values)
    <3>1. AreValues(values)
      BY <1>1, TopParts
    <3> QED BY <3>1, SequenceFacts DEF AreValues
  <2>3. callee = values[Len(values) - n]
    BY DEF CalleeOf, n
  <2>4. Running(p) => AreValues(Top(p).values)
    BY <1>4, TopParts
  <2> HIDE DEF q, values, callee
  <2>5. Running(q) => IsValue(callee)
    <3> SUFFICES ASSUME Running(q) PROVE IsValue(callee)
      OBVIOUS
    <3>1. Len(Top(p).values) \in Nat \ {0}
      BY <2>1, <2>4, FrontFacts DEF AreValues
    <3>2. Len(values) - n \in 1..Len(values)
      BY <1>1, <1>2, <1>4, <2>1, <2>2, <3>1 DEF values
    <3> QED BY <2>2, <2>3, <3>2 DEF AreValues
  <2>6. Reckoned(Call(q, e, callee, arguments), 0, Bearings)
    BY <1>1, <1>4, <2>1, <2>5, CallReckoned DEF n
  <2> QED BY <2>6 DEF q
<1>10. \/ e.kind = "Variant" /\ m = a
       \/ e.kind = "Struct" /\ IsBinding(e.order, e.arguments) /\ m = b
       \/ m = c
       \/ e.kind = "Call" /\ m = d
       \/ e.kind = "CallClosure" /\ m = f
  <2> HIDE DEF a, b, c, d, f
  <2> QED BY <1>1
<1>11. Reckoned(m, 0, Bearings)
  <2> HIDE DEF a, b, c, d, f, m
  <2> QED BY <1>5, <1>6, <1>7, <1>8, <1>9, <1>10 DEF Accounted
<1> QED
  BY <1>3, <1>11, BecomesReckoned DEF e, n, p, arguments


-----------------------------------------------------------------------------
(* Statements.                                                             *)
LEMMA PushesThree ==
  ASSUME NEW m, NEW w, Accounted(m, 0, w), Ordinary(w), NEW c, NEW d, NEW e,
         Running(m) => IsControl(c) /\ IsControl(d) /\ IsControl(e)
  PROVE  Accounted(Push(m, <<c, d, e>>), 0, w)
<1>1. Running(m) => AreControls(<<c, d, e>>)
  BY FewControls
<1> QED
  BY <1>1, Pushes

LEMMA PushesFour ==
  ASSUME NEW m, NEW w, Accounted(m, 0, w), Ordinary(w), NEW c, NEW d, NEW e, NEW f,
         Running(m) => IsControl(c) /\ IsControl(d) /\ IsControl(e) /\ IsControl(f)
  PROVE  Accounted(Push(m, <<c, d, e, f>>), 0, w)
<1>1. Running(m) => AreControls(<<c, d, e, f>>)
  BY FewControls
<1> QED
  BY <1>1, Pushes

LEMMA StatementFacts ==
  ASSUME MachineOK, At("Statement")
  PROVE  /\ Accounted(Popped, 0, Bearings) /\ Running(Popped) /\ Ordinary(Bearings)
         /\ Statement \in Code /\ IsHirStatement(Statement)
<1>1. /\ Accounted(Popped, 0, Bearings) /\ Running(Popped) /\ Ordinary(Bearings)
      /\ IsControl(Control) /\ Control.op = "Statement"
  BY Pops DEF IsPlain
<1>2. Statement \in Code
  BY <1>1 DEF IsControl, Statement
<1> QED
  BY <1>1, <1>2, CodeAssumption

LEMMA ExpressionControl ==
  ASSUME NEW e \in Code
  PROVE  IsControl(Expr(e))
  BY DEF IsControl, Expr, FinishOp

LEMMA BlockControl ==
  ASSUME NEW s \in Seq(Code)
  PROVE  IsControl(Block(s))
  BY DEF IsControl, Block, FinishOp

LEMMA PlainControls ==
  ASSUME NEW l, NEW init
  PROVE  IsControl(Discard) /\ IsControl(Store(l, init)) /\ IsControl(ClearLocals(l))
  BY DEF IsControl, Discard, Store, ClearLocals, FinishOp

LEMMA ReturnValueKeeps == ASSUME MachineOK, ReturnValue PROVE Keeps
<1> DEFINE u == Unwound(Popped, FinishReturn(Top(machine).returns))
           m == Push(u, <<Expr(Statement.value)>>)
<1>1. /\ Accounted(Popped, 0, Bearings) /\ Ordinary(Bearings) /\ Statement.value \in Code
  <2>1. At("Statement") /\ Statement.kind = "Return"
    BY DEF ReturnValue, AtStmt, Statement
  <2> QED BY <2>1, StatementFacts DEF IsHirStatement
<1>2. Accounted(u, 0, Bearings)
  BY <1>1, FinishingControls, UnwoundAccounted
<1>3. Becomes(m)
  BY DEF ReturnValue
<1> HIDE DEF u
<1>4. Accounted(m, 0, Bearings)
  BY <1>1, <1>2, ExpressionControl, PushesOne
<1> QED
  BY <1>3, <1>4, BecomesKeeps DEF u

LEMMA ReturnUnitKeeps == ASSUME MachineOK, ReturnUnit PROVE Keeps
<1> DEFINE m == Unwound(Popped, [op |-> "FinishUnitReturn"])
<1>1. Accounted(Popped, 0, Bearings) /\ Ordinary(Bearings)
  BY Pops DEF ReturnUnit, AtStmt, IsPlain
<1>2. Accounted(m, 0, Bearings)
  BY <1>1, FinishingControls, UnwoundAccounted
<1>3. Becomes(m)
  BY DEF ReturnUnit
<1> QED
  BY <1>2, <1>3, BecomesKeeps

LEMMA FinishStatementControl ==
  ASSUME NEW s \in Code, IsHirStatement(s),
         s.kind \in {"Panic", "Assert", "Evaluate", "Initialize", "Assign", "AssignField",
                     "If", "IfPattern", "For", "Match"}
  PROVE  IsControl(FinishOfStatement(s))
<1> DEFINE c == FinishOfStatement(s)
<1>1. CASE s.kind \in {"Panic", "Assert", "AssignField"}
  <2>1. c.op \in {"FinishPanic", "FinishAssert", "StoreField"}
    BY <1>1 DEF FinishOfStatement
  <2> QED BY <2>1 DEF IsControl, FinishOp
<1>2. CASE s.kind \in {"Evaluate", "Initialize", "Assign"}
  <2>1. c \in {Discard, Store(s.local, TRUE), Store(s.local, FALSE)}
    BY <1>2 DEF FinishOfStatement
  <2> QED BY <2>1, PlainControls
<1>3. CASE s.kind \in {"If", "IfPattern", "For"}
  <2>1. /\ c.statement = s
        /\ \/ s.kind = "If" /\ c.op = "SelectBranch"
           \/ s.kind = "IfPattern" /\ c.op = "SelectPatternBranch"
           \/ s.kind = "For" /\ c.op = "FinishFor"
    BY <1>3 DEF FinishOfStatement
  <2> HIDE DEF c
  <2>2. IsControl(c)
    BY <2>1 DEF IsControl, FinishOp
  <2> QED BY <2>2 DEF c
<1>4. CASE s.kind = "Match"
  <2>1. c.op = "FinishMatch" /\ c.cases = s.cases
    BY <1>4 DEF FinishOfStatement
  <2>2. IsSequence(s.cases) /\ \A x \in ToSet(s.cases) : IsCase(x)
    BY <1>4 DEF IsHirStatement
  <2>3. \A i \in DOMAIN s.cases : s.cases[i] \in ToSet(s.cases)
    BY DEF ToSet
  <2>4. AreCases(s.cases)
    BY <2>2, <2>3 DEF AreCases
  <2> HIDE DEF c
  <2>5. IsControl(c)
    BY <2>1, <2>4 DEF IsControl, FinishOp
  <2> QED BY <2>5 DEF c
<1> QED
  BY <1>1, <1>2, <1>3, <1>4

LEMMA EvaluateThenFinishKeeps == ASSUME MachineOK, EvaluateThenFinish PROVE Keeps
<1> DEFINE c == FinishOfStatement(Statement)
           d == Expr(Statement.value)
           m == Push(Popped, <<c, d>>)
<1>1. /\ At("Statement") /\ Becomes(m)
      /\ Statement.kind \in {"Panic", "Assert", "Evaluate", "Initialize", "Assign",
                             "AssignField", "If", "IfPattern", "For", "Match"}
  BY DEF EvaluateThenFinish
<1>2. /\ Accounted(Popped, 0, Bearings) /\ Ordinary(Bearings)
      /\ Statement \in Code /\ IsHirStatement(Statement)
  BY <1>1, StatementFacts
<1>3. IsControl(c)
  BY <1>1, <1>2, FinishStatementControl
<1>4. IsControl(d)
  <2>1. Statement.value \in Code
    BY <1>1, <1>2 DEF IsHirStatement
  <2> QED BY <2>1, ExpressionControl
<1> HIDE DEF c, d
<1>5. Accounted(m, 0, Bearings)
  BY <1>2, <1>3, <1>4, PushesTwo
<1> QED
  BY <1>1, <1>5, BecomesKeeps

LEMMA AssignPlaceKeeps == ASSUME MachineOK, AssignPlace PROVE Keeps
<1> DEFINE c == [op |-> "StorePlace", statement |-> Statement]
           d == Expr(Statement.value)
           e == Expr(Statement.index)
           m == Push(Popped, <<c, d, e>>)
<1>1. At("Statement") /\ Statement.kind = "AssignPlace" /\ Becomes(m)
  BY DEF AssignPlace, AtStmt, Statement
<1>2. /\ Accounted(Popped, 0, Bearings) /\ Ordinary(Bearings)
      /\ Statement.value \in Code /\ Statement.index \in Code
  BY <1>1, StatementFacts DEF IsHirStatement
<1>3. IsControl(c)
  BY DEF IsControl, FinishOp
<1>4. IsControl(d) /\ IsControl(e)
  BY <1>2, ExpressionControl
<1> HIDE DEF c, d, e
<1>5. Accounted(m, 0, Bearings)
  BY <1>2, <1>3, <1>4, PushesThree
<1> QED
  BY <1>1, <1>5, BecomesKeeps

LEMMA WhileKeeps == ASSUME MachineOK, While PROVE Keeps
<1> DEFINE c == [op |-> "WhileNext", statement |-> Statement, remaining |-> Statement.bound]
           m == Push(Popped, <<c>>)
<1>1. At("Statement") /\ Statement.kind = "While" /\ Becomes(m)
  BY DEF While, AtStmt, Statement
<1>2. Accounted(Popped, 0, Bearings) /\ Ordinary(Bearings) /\ Statement \in Code
  BY <1>1, StatementFacts
<1>3. IsControl(c)
  BY <1>1, <1>2 DEF IsControl, FinishOp
<1> HIDE DEF c
<1>4. Accounted(m, 0, Bearings)
  BY <1>2, <1>3, PushesOne
<1> QED
  BY <1>1, <1>4, BecomesKeeps

(* Leaving a loop.                                                         *)
LEMMA GreatestOf ==
  ASSUME NEW n \in Nat, NEW I \in SUBSET (1..n), I # {}
  PROVE  Max(I) \in I
<1> DEFINE S == {n - i : i \in I}
<1>1. S \subseteq Nat /\ S # {}
  <2>1. \A i \in I : i \in 1..n
    OBVIOUS
  <2>2. \A i \in I : n - i \in Nat
    BY <2>1
  <2> QED BY <2>2
<1>2. PICK x \in S : \A y \in S : x <= y
  BY <1>1, LeastNumber
<1>3. PICK i \in I : x = n - i
  BY <1>2
<1>4. ASSUME NEW j \in I PROVE i >= j
  <2>1. n - j \in S
    OBVIOUS
  <2>2. n - i <= n - j
    BY <1>2, <1>3, <2>1
  <2> QED BY <2>2
<1> QED
  BY <1>4 DEF Max

LEMMA InnermostFacts ==
  ASSUME NEW m, AreControls(Top(m).controls)
  PROVE  InnermostLoop(m) \in 0..Len(Top(m).controls)
<1> DEFINE s == Top(m).controls
           I == {i \in 1..Len(s) : IsLoopMarker(s[i])}
<1>1. Len(s) \in Nat
  BY SequenceFacts DEF AreControls
<1>2. InnermostLoop(m) = IF I # {} THEN Max(I) ELSE 0
  BY DEF InnermostLoop, SelectLastInSeq
<1>3. I # {} => Max(I) \in I
  BY <1>1, GreatestOf
<1> QED
  BY <1>1, <1>2, <1>3

LEMMA LeaveLoopAccounted ==
  ASSUME NEW m, NEW w, Accounted(m, 0, w), Ordinary(w), NEW keep,
         keep = InnermostLoop(m) - 1 \/ keep = InnermostLoop(m)
  PROVE  Accounted(LeaveLoop(m, keep), 0, w)
<1> DEFINE controls == Top(m).controls
           loop     == InnermostLoop(m)
           exited   == SubSeq(controls, loop + 1, Len(controls))
           kept     == SubSeq(controls, 1, keep)
           clear    == <<ClearLocals(ExitedLocals(exited))>>
           late     == Scheduled(DeferredExpressions(exited))
           r        == WithControls(m, kept \o clear \o late)
<1>1. LeaveLoop(m, keep) = IF loop = 0 THEN Fail(m, "Defect", "break or continue outside a loop")
                           ELSE r
  BY DEF LeaveLoop
<1>2. CASE loop = 0
  BY <1>1, <1>2, Fails
<1>3. CASE loop # 0
  <2>1. ASSUME Running(m) PROVE AreControls(kept \o clear \o late)
    <3>1. AreControls(controls) /\ Len(controls) \in Nat
      BY <2>1, TopParts, SequenceFacts DEF AreControls
    <3>2. loop \in 1..Len(controls)
      BY <1>3, <3>1, InnermostFacts
    <3> HIDE DEF loop, controls
    <3>3. keep \in Nat /\ keep <= Len(controls) /\ loop + 1 \in Nat \ {0}
      BY <3>1, <3>2 DEF loop
    <3>4. AreControls(kept)
      BY <3>1, <3>3, ControlsWithin, 1 \in Nat \ {0}
    <3>5. AreControls(exited)
      BY <3>1, <3>3, ControlsWithin
    <3> HIDE DEF exited, kept
    <3>6. AreControls(clear)
      BY PlainControls, FewControls
    <3>7. AreControls(late)
      BY <3>5, DeferredCode, ScheduledControls
    <3> HIDE DEF clear, late
    <3>8. AreControls(kept \o clear)
      BY <3>4, <3>6, ControlsConcat
    <3> QED BY <3>7, <3>8, ControlsConcat
  <2> DEFINE all == kept \o clear \o late
  <2>2. LeaveLoop(m, keep) = WithControls(m, all) /\ (Running(m) => AreControls(all))
    BY <1>1, <1>3, <2>1
  <2> HIDE DEF all
  <2> QED BY <2>2, ControlsAccounted DEF Allowed, Ordinary
<1> QED
  BY <1>2, <1>3

LEMMA BreakKeeps == ASSUME MachineOK, Break PROVE Keeps
<1> DEFINE keep == InnermostLoop(Popped) - 1
           m    == LeaveLoop(Popped, keep)
<1>1. Accounted(Popped, 0, Bearings) /\ Ordinary(Bearings) /\ Becomes(m)
  BY Pops DEF Break, AtStmt, IsPlain
<1>2. Accounted(m, 0, Bearings)
  BY <1>1, LeaveLoopAccounted
<1> QED
  BY <1>1, <1>2, BecomesKeeps

LEMMA ContinueKeeps == ASSUME MachineOK, Continue PROVE Keeps
<1> DEFINE keep == InnermostLoop(Popped)
           m    == LeaveLoop(Popped, keep)
<1>1. Accounted(Popped, 0, Bearings) /\ Ordinary(Bearings) /\ Becomes(m)
  BY Pops DEF Continue, AtStmt, IsPlain
<1>2. Accounted(m, 0, Bearings)
  BY <1>1, LeaveLoopAccounted
<1> QED
  BY <1>1, <1>2, BecomesKeeps


LEMMA DeferredAppend ==
  ASSUME NEW controls, AreControls(controls), NEW scope \in DOMAIN controls,
         controls[scope].op = "EndScope", NEW e \in Code
  PROVE  AreControls([controls EXCEPT ![scope].deferred = Append(@, e)])
<1> DEFINE c    == controls[scope]
           d    == [c EXCEPT !.deferred = Append(@, e)]
           both == [controls EXCEPT ![scope] = d]
<1>1. IsControl(c) /\ c.op = "EndScope"
  BY DEF AreControls
<1>2. DOMAIN c = {"op", "deferred"} /\ c.deferred \in Seq(Code)
  BY <1>1 DEF IsControl
<1>3. d.op = "EndScope" /\ d.deferred = Append(c.deferred, e) /\ DOMAIN d = {"op", "deferred"}
  BY <1>1, <1>2
<1>4. d.deferred \in Seq(Code)
  BY <1>2, <1>3
<1> HIDE DEF d, c
<1>5. IsControl(d)
  BY <1>3, <1>4 DEF IsControl, FinishOp
<1>6. AreControls(both)
  <2>1. IsSequence(controls) /\ DOMAIN controls = 1..Len(controls) /\ Len(controls) \in Nat
    BY SequenceFacts DEF AreControls
  <2>2. controls = [i \in 1..Len(controls) |-> controls[i]]
    BY <2>1 DEF IsSequence
  <2>3. DOMAIN both = 1..Len(controls) /\ both = [i \in 1..Len(controls) |-> both[i]]
    BY <2>1, <2>2
  <2>4. IsSequence(both)
    <3> HIDE DEF both
    <3> QED BY <2>1, <2>3, Tabulated
  <2>5. \A i \in DOMAIN controls : IsControl(both[i])
    BY <1>5 DEF AreControls
  <2> QED BY <2>1, <2>3, <2>4, <2>5 DEF AreControls
<1>7. both = [controls EXCEPT ![scope].deferred = Append(@, e)]
  BY DEF d, c
<1> QED
  BY <1>6, <1>7

LEMMA DeferKeeps == ASSUME MachineOK, Defer PROVE Keeps
<1> DEFINE controls == Top(Popped).controls
           I        == {i \in 1..Len(controls) : controls[i].op = "EndScope"}
           scope    == SelectLastInSeq(controls, LAMBDA c : c.op = "EndScope")
           new      == [controls EXCEPT ![scope].deferred = Append(@, Statement.expression)]
           m        == IF scope = 0 THEN Fail(Popped, "Defect", "defer outside a lexical scope")
                       ELSE WithControls(Popped, new)
<1>1. At("Statement") /\ Statement.kind = "Defer" /\ Becomes(m)
  BY DEF Defer, AtStmt, Statement
<1>2. /\ Accounted(Popped, 0, Bearings) /\ Running(Popped) /\ Ordinary(Bearings)
      /\ Statement.expression \in Code
  BY <1>1, StatementFacts DEF IsHirStatement
<1>3. AreControls(controls)
  BY <1>2, TopParts
<1>4. DOMAIN controls = 1..Len(controls) /\ Len(controls) \in Nat
  BY <1>3, SequenceFacts DEF AreControls
<1>5. scope = IF I # {} THEN Max(I) ELSE 0
  BY DEF SelectLastInSeq
<1> HIDE DEF scope, controls
<1>6. scope # 0 => scope \in I
  BY <1>4, <1>5, GreatestOf
<1>7. scope # 0 => AreControls(new)
  BY <1>2, <1>3, <1>4, <1>6, DeferredAppend
<1> HIDE DEF new
<1>8. scope # 0 => Accounted(WithControls(Popped, new), 0, Bearings)
  BY <1>2, <1>7, ControlsAccounted DEF Allowed, Ordinary
<1>9. Accounted(m, 0, Bearings)
  BY <1>2, <1>8, Fails
<1> QED
  BY <1>1, <1>9, BecomesKeeps DEF scope, controls, new

LEMMA WithPoolKeeps == ASSUME MachineOK, WithPool PROVE Keeps
<1> DEFINE c == ClearLocals({Statement.local})
           d == Block(Statement.body)
           e == Store(Statement.local, TRUE)
           f == Expr(Statement.scope)
           m == Push(Popped, <<c, d, e, f>>)
<1>1. At("Statement") /\ Statement.kind = "WithPool" /\ Becomes(m)
  BY DEF WithPool, AtStmt, Statement
<1>2. /\ Accounted(Popped, 0, Bearings) /\ Ordinary(Bearings) /\ Statement.body \in Seq(Code)
      /\ Statement.scope \in Code
  BY <1>1, StatementFacts DEF IsHirStatement
<1>3. IsControl(c) /\ IsControl(d) /\ IsControl(e) /\ IsControl(f)
  BY <1>2, PlainControls, BlockControl, ExpressionControl
<1> HIDE DEF c, d, e, f
<1>4. Accounted(m, 0, Bearings)
  BY <1>2, <1>3, PushesFour
<1> QED
  BY <1>1, <1>4, BecomesKeeps

LEMMA PassKeeps == ASSUME MachineOK, Pass PROVE Keeps
  BY Pops, BecomesKeeps DEF Pass, AtStmt

-----------------------------------------------------------------------------
(* Blocks, scopes and the ends of frames.                                  *)
LEMMA RunBlockKeeps == ASSUME MachineOK, RunBlock PROVE Keeps
<1> DEFINE statements == Control.statements
           index      == Control.index
           scope      == IF index = 1 THEN <<EndScope(<<>>)>> ELSE <<>>
           c          == [Control EXCEPT !.index = index + 1]
           d          == [op |-> "Statement", statement |-> statements[index]]
           next       == IF index > Len(statements) THEN <<>> ELSE <<c, d>>
           m          == Push(Popped, scope \o next)
<1>1. /\ Accounted(Popped, 0, Bearings) /\ Ordinary(Bearings)
      /\ IsControl(Control) /\ Control.op = "Block" /\ Becomes(m)
  BY Pops DEF RunBlock, IsPlain
<1>2. /\ DOMAIN Control = {"op", "statements", "index"}
      /\ statements \in Seq(Code) /\ index \in Nat \ {0}
  BY <1>1 DEF IsControl
<1>3. AreControls(<<>>)
  BY FewControls, FinishingControls
<1>4. AreControls(scope)
  <2> DEFINE e == EndScope(<<>>)
  <2>1. IsControl(e)
    <3>1. <<>> \in Seq(Code)
      OBVIOUS
    <3> QED BY <3>1 DEF IsControl, EndScope, FinishOp
  <2> HIDE DEF e
  <2>2. AreControls(<<e>>)
    BY <2>1, FewControls
  <2> QED BY <1>3, <2>2 DEF e
<1>5. AreControls(next)
  <2>1. CASE index > Len(statements)
    BY <1>3, <2>1
  <2>2. CASE ~ index > Len(statements)
    <3>1. /\ DOMAIN c = {"op", "statements", "index"} /\ c.op = "Block"
          /\ c.statements = statements /\ c.index = index + 1
      BY <1>1, <1>2
    <3>2. c.index \in Nat \ {0}
      BY <1>2, <3>1
    <3>3. IsControl(c)
      <4> HIDE DEF c
      <4> QED BY <1>2, <3>1, <3>2 DEF IsControl, FinishOp
    <3>4. statements[index] \in Code
      BY <1>2, <2>2
    <3>5. IsControl(d)
      BY <3>4 DEF IsControl, FinishOp
    <3> HIDE DEF c, d
    <3>6. AreControls(<<c, d>>)
      BY <3>3, <3>5, FewControls
    <3> QED BY <2>2, <3>6
  <2> QED BY <2>1, <2>2
<1> HIDE DEF scope, next
<1>6. AreControls(scope \o next)
  BY <1>4, <1>5, ControlsConcat
<1>7. Accounted(m, 0, Bearings)
  BY <1>1, <1>6, Pushes
<1> QED
  BY <1>1, <1>7, BecomesKeeps

LEMMA CloseScopeKeeps == ASSUME MachineOK, CloseScope PROVE Keeps
<1> DEFINE s == FlattenSeq([i \in DOMAIN Control.deferred |->
                              <<Discard, Expr(Control.deferred[i])>>])
           m == Push(Popped, s)
<1>1. /\ Accounted(Popped, 0, Bearings) /\ Ordinary(Bearings)
      /\ IsControl(Control) /\ Control.op = "EndScope" /\ Becomes(m)
  BY Pops DEF CloseScope, IsPlain
<1>2. Control.deferred \in Seq(Code)
  BY <1>1 DEF IsControl
<1>3. AreControls(s)
  BY <1>2, ClosingControls
<1> HIDE DEF s
<1>4. Accounted(m, 0, Bearings)
  BY <1>1, <1>3, Pushes
<1> QED
  BY <1>1, <1>4, BecomesKeeps

LEMMA FinishValueKeeps == ASSUME MachineOK, FinishValue PROVE Keeps
<1> DEFINE p == PopValue(Popped)
           v == TopValue(Popped)
           m == CompleteCoerced(p, v, Control.returns)
<1>1. Accounted(Popped, 0, Bearings) /\ Ordinary(Bearings) /\ Becomes(m)
  BY Pops DEF FinishValue, IsPlain
<1>2. Accounted(p, 0, Bearings) /\ (Running(p) => IsValue(v))
  BY <1>1, TakesValue
<1> HIDE DEF p, v
<1>3. Reckoned(m, 0, Bearings)
  BY <1>1, <1>2, CompleteCoercedAccounted
<1> QED
  BY <1>1, <1>3, BecomesReckoned DEF p, v

LEMMA FinishUnitReturnKeeps == ASSUME MachineOK, FinishUnitReturn PROVE Keeps
<1> DEFINE m == CompleteFrame(Popped, Unit)
<1>1. Accounted(Popped, 0, Bearings) /\ Ordinary(Bearings) /\ Becomes(m)
  BY Pops DEF FinishUnitReturn, IsPlain
<1>2. Reckoned(m, 0, Bearings)
  BY <1>1, PlainValues, CompleteFrameAccounted
<1> QED
  BY <1>1, <1>2, BecomesReckoned

LEMMA FallthroughKeeps == ASSUME MachineOK, Fallthrough PROVE Keeps
<1> DEFINE c == CompleteFrame(Popped, Unit)
           f == Fail(Popped, "Defect", "non-Unit function fell through")
           m == IF Top(machine).returns = "Unit" THEN c ELSE f
<1>1. Accounted(Popped, 0, Bearings) /\ Ordinary(Bearings) /\ Becomes(m)
  <2>1. At("FunctionFallthrough") /\ Becomes(m)
    BY DEF Fallthrough
  <2> HIDE DEF m
  <2> QED BY <2>1, Pops DEF IsPlain
<1>2. Reckoned(c, 0, Bearings) /\ Reckoned(f, 0, Bearings)
  BY <1>1, PlainValues, CompleteFrameAccounted, Fails DEF Accounted
<1>3. Reckoned(m, 0, Bearings)
  <2> HIDE DEF c, f
  <2> QED BY <1>2
<1> QED
  BY <1>1, <1>3, BecomesReckoned

LEMMA FinishPanicKeeps == ASSUME MachineOK, FinishPanic PROVE Keeps
<1> DEFINE p == PopValue(Popped)
           m == Fail(p, "Panicked", Control.site)
<1>1. Accounted(Popped, 0, Bearings) /\ Becomes(m)
  BY Pops DEF FinishPanic
<1>2. Accounted(p, 0, Bearings)
  BY <1>1, TakesValue
<1>3. Accounted(m, 0, Bearings)
  BY <1>2, Fails
<1> QED
  BY <1>1, <1>3, BecomesKeeps

LEMMA FinishAssertKeeps == ASSUME MachineOK, FinishAssert PROVE Keeps
<1> DEFINE v == TopValue(Popped)
           p == PopValue(Popped)
           a == Fail(p, "Defect", "assertion condition is not Bool")
           b == Fail(p, "Panicked", Control.site)
           m == CASE v.tag # "Bool" -> a
                  [] v.tag = "Bool" /\ v.truth -> p
                  [] OTHER -> b
<1>1. Accounted(Popped, 0, Bearings) /\ Becomes(m)
  BY Pops DEF FinishAssert
<1>2. Accounted(p, 0, Bearings)
  BY <1>1, TakesValue
<1>3. Accounted(a, 0, Bearings) /\ Accounted(b, 0, Bearings)
  BY <1>2, Fails
<1>4. m = a \/ m = p \/ m = b
  <2> HIDE DEF a, b, p, v
  <2> QED OBVIOUS
<1>5. Accounted(m, 0, Bearings)
  <2> HIDE DEF a, b, p, m
  <2> QED BY <1>2, <1>3, <1>4
<1> QED
  BY <1>1, <1>5, BecomesKeeps

LEMMA DiscardValueKeeps == ASSUME MachineOK, DiscardValue PROVE Keeps
<1> DEFINE m == PopValue(Popped)
<1>1. Accounted(Popped, 0, Bearings) /\ Becomes(m)
  BY Pops DEF DiscardValue
<1>2. Accounted(m, 0, Bearings)
  BY <1>1, TakesValue
<1> QED
  BY <1>1, <1>2, BecomesKeeps


-----------------------------------------------------------------------------
(* Locals.                                                                 *)

(* Whatever the local held is released and what it will hold is retained.  *)
LEMMA StoreAccounted ==
  ASSUME NEW m, NEW w, Accounted(m, 0, w), Ordinary(w),
         NEW v, Running(m) => IsValue(v), NEW l,
         NEW freed, freed = IF IsLive(m, l) THEN Release(m, Locals(m)[l].size) ELSE m,
         NEW kept, kept = Retain(freed, v.size)
  PROVE  Accounted(IF Running(kept) THEN SetLocal(kept, l, v) ELSE kept, 0, w)
<1> DEFINE r == IF Running(kept) THEN SetLocal(kept, l, v) ELSE kept
<1>1. CASE ~ Running(m)
  <2>1. freed = m
    BY <1>1 DEF Release
  <2>2. kept = m
    BY <1>1, <2>1 DEF Retain
  <2> QED BY <1>1, <2>2
<1>2. CASE Running(m)
  <2> DEFINE old == SizeIn(Locals(m), l)
  <2>1. old \in Nat /\ v.size \in Nat
    BY <1>2, TopParts, LocalsWith
  <2>2. /\ Accounted(freed, 0 - old, w)
        /\ Running(freed) => freed.frames = m.frames
    <3>1. CASE IsLive(m, l)
      <4>1. Locals(m)[l].size = old
        BY <3>1 DEF IsLive, SizeIn
      <4>2. freed = Release(m, old)
        BY <3>1, <4>1
      <4> HIDE DEF old
      <4> QED BY <2>1, <4>2, ReleaseAccounted
    <3>2. CASE ~ IsLive(m, l)
      <4>1. old = 0 /\ freed = m
        BY <3>2 DEF IsLive, SizeIn
      <4>2. 0 - old = 0
        BY <4>1
      <4> QED BY <4>1, <4>2
    <3> QED BY <3>1, <3>2
  <2> HIDE DEF old
  <2> DEFINE off == 0 - old
             size == v.size
  <2>3. Accounted(freed, off, w)
    BY <2>2
  <2> HIDE DEF off, size
  <2>4. /\ Accounted(kept, off + size, w)
        /\ Running(kept) => Running(freed) /\ kept.frames = freed.frames
    BY <2>1, <2>3, RetainAccounted DEF size
  <2>5. CASE ~ Running(kept)
    <3>1. Accounted(kept, 0, w)
      BY <2>4, <2>5, StoppedAccounted
    <3> QED BY <2>5, <3>1
  <2>6. CASE Running(kept)
    <3>1. SizeIn(Locals(kept), l) = old
      BY <2>2, <2>4, <2>6 DEF old, Locals, Top, Depth
    <3>2. Accounted(SetLocal(kept, l, v), (off + size) + SizeIn(Locals(kept), l) - v.size, w)
      BY <1>2, <2>4, <2>6, SetLocalAccounted
    <3>3. (off + size) + SizeIn(Locals(kept), l) - v.size = 0
      BY <2>1, <3>1 DEF off, size
    <3> QED BY <2>6, <3>2, <3>3
  <2> QED BY <2>5, <2>6
<1> QED
  BY <1>1, <1>2

LEMMA StoreLocalKeeps == ASSUME MachineOK, StoreLocal PROVE Keeps
<1> DEFINE l     == Control.local
           v     == TopValue(Popped)
           p     == PopValue(Popped)
           freed == IF IsLive(p, l) THEN Release(p, Locals(p)[l].size) ELSE p
           kept  == Retain(freed, v.size)
           a     == Fail(p, "Defect", "initializer targets an initialized local")
           b     == Fail(p, "Defect", "assignment targets no local")
           c     == IF Running(kept) THEN SetLocal(kept, l, v) ELSE kept
           m     == CASE Control.initialize /\ IsLive(p, l) -> a
                      [] ~ Control.initialize /\ ~ IsLive(p, l) -> b
                      [] OTHER -> c
<1>1. Accounted(Popped, 0, Bearings) /\ Ordinary(Bearings) /\ Becomes(m)
  <2>1. At("Store") /\ Becomes(m)
    BY DEF StoreLocal
  <2> HIDE DEF m
  <2> QED BY <2>1, Pops DEF IsPlain
<1>2. Accounted(p, 0, Bearings) /\ (Running(p) => IsValue(v))
  BY <1>1, TakesValue
<1> HIDE DEF p, v
<1>3. Accounted(a, 0, Bearings) /\ Accounted(b, 0, Bearings)
  BY <1>2, Fails
<1>4. Accounted(c, 0, Bearings)
  BY <1>1, <1>2, StoreAccounted
<1>5. m = a \/ m = b \/ m = c
  <2> HIDE DEF a, b, c
  <2> QED OBVIOUS
<1>6. Accounted(m, 0, Bearings)
  <2> HIDE DEF a, b, c, m
  <2> QED BY <1>3, <1>4, <1>5
<1> QED
  BY <1>1, <1>6, BecomesKeeps DEF p, v

LEMMA StoreFieldKeeps == ASSUME MachineOK, StoreField PROVE Keeps
<1> DEFINE s == Control.statement
           v == TopValue(Popped)
           p == PopValue(Popped)
           m == StoreProjected(p, s.local, s.field, v)
<1>1. Accounted(Popped, 0, Bearings) /\ Becomes(m)
  BY Pops DEF StoreField
<1>2. Accounted(p, 0, Bearings) /\ (Running(p) => IsValue(v))
  BY <1>1, TakesValue
<1> HIDE DEF p, v, s
<1>3. CASE Running(p)
  <2>1. Accounted(m, 0, Bearings)
    BY <1>2, <1>3, StoreProjectedAccounted
  <2> QED BY <1>1, <2>1, BecomesKeeps
<1>4. CASE ~ Running(p)
  <2>1. m = p
    BY <1>4 DEF StoreProjected, ReplaceLocal, Fail, Retain, Release
  <2>2. Becomes(p)
    BY <1>1, <2>1
  <2> QED BY <1>2, <2>2, BecomesKeeps
<1> QED
  BY <1>3, <1>4

LEMMA StorePlaceKeeps == ASSUME MachineOK, StorePlace PROVE Keeps
<1> DEFINE s    == Control.statement
           v    == TopValue(Popped)
           p    == PopValues(Popped, 2)
           root == Locals(Popped)[s.local]
           with(i) == IF i = 0 THEN Fail(p, "Panicked", s.site)
                      ELSE ReplaceLocal(p, s.local, Array([root.elements EXCEPT ![i] = v]))
<1>1. Accounted(Popped, 0, Bearings) /\ Running(Popped)
  BY Pops DEF StorePlace
<1>2. /\ Accounted(p, 0, Bearings)
      /\ Running(p) => 2 <= Len(Top(Popped).values) /\ Locals(p) = Locals(Popped)
  <2>1. 2 \in Nat
    OBVIOUS
  <2> QED BY <1>1, <2>1, PopValuesAccounted DEF Locals
<1>3. Running(p) => IsValue(v)
  <2>1. AreValues(Top(Popped).values)
    BY <1>1, TopParts
  <2> DEFINE values == Top(Popped).values
  <2>2. Running(p) => values # <<>> /\ AreValues(values)
    BY <1>2, <2>1
  <2>3. v = Last(values)
    BY DEF TopValue
  <2> HIDE DEF values, v, p
  <2>4. Running(p) => Last(values) = values[Len(values)] /\ Len(values) \in Nat \ {0}
    BY <2>2, FrontFacts DEF AreValues
  <2>5. Running(p) => Len(values) \in DOMAIN values
    BY <2>2, <2>4, SequenceFacts DEF AreValues
  <2> QED BY <2>2, <2>3, <2>4, <2>5 DEF AreValues
<1>4. \/ Becomes(Fail(p, "CreatorRejected", "MissingLocal"))
      \/ Becomes(Fail(p, "Defect", "place index stores through a non-array value"))
      \/ /\ IsLive(Popped, s.local) /\ root.tag = "Array"
         /\ \E i \in 0..Len(root.elements) : Chooses(s.site, i, with(i))
  BY DEF StorePlace
<1>5. IsLive(Popped, s.local) => IsValue(root)
  BY <1>1, TopParts
<1> HIDE DEF p, v, s, root
<1>6. CASE Becomes(Fail(p, "CreatorRejected", "MissingLocal"))
  <2>1. Accounted(Fail(p, "CreatorRejected", "MissingLocal"), 0, Bearings)
    BY <1>2, Fails
  <2> QED BY <1>6, <2>1, BecomesKeeps
<1>7. CASE Becomes(Fail(p, "Defect", "place index stores through a non-array value"))
  <2>1. Accounted(Fail(p, "Defect", "place index stores through a non-array value"), 0, Bearings)
    BY <1>2, Fails
  <2> QED BY <1>7, <2>1, BecomesKeeps
<1>8. CASE /\ IsLive(Popped, s.local) /\ root.tag = "Array"
           /\ \E i \in 0..Len(root.elements) : Chooses(s.site, i, with(i))
  <2>1. AreValues(root.elements)
    BY <1>5, <1>8, ValueParts
  <2>2. DOMAIN root.elements = 1..Len(root.elements) /\ Len(root.elements) \in Nat
    BY <2>1, SequenceFacts DEF AreValues
  <2>3. PICK i \in 0..Len(root.elements) : Chooses(s.site, i, with(i))
    BY <1>8
  <2> DEFINE new == Array([root.elements EXCEPT ![i] = v])
  <2>4. CASE i = 0
    <3>1. Accounted(with(i), 0, Bearings)
      BY <1>2, <2>4, Fails
    <3> QED BY <2>3, <3>1, ChoosesKeeps
  <2>5. CASE i # 0 /\ Running(p)
    <3>1. i \in DOMAIN root.elements
      BY <2>2, <2>5
    <3>2. IsValue(new)
      BY <1>3, <2>1, <2>5, <3>1, ReplacedElement, ArrayValue
    <3>3. IsLive(p, s.local)
      BY <1>2, <1>8, <2>5 DEF IsLive
    <3> HIDE DEF new
    <3>4. Accounted(ReplaceLocal(p, s.local, new), 0, Bearings)
      BY <1>2, <2>5, <3>2, <3>3, ReplaceLocalAccounted
    <3>5. Accounted(with(i), 0, Bearings)
      BY <2>5, <3>4 DEF new
    <3> QED BY <2>3, <3>5, ChoosesKeeps
  <2>6. CASE i # 0 /\ ~ Running(p)
    <3> HIDE DEF new
    <3>1. ReplaceLocal(p, s.local, new) = p
      BY <2>6 DEF ReplaceLocal, Retain, Release
    <3>2. Accounted(with(i), 0, Bearings)
      BY <1>2, <2>6, <3>1 DEF new
    <3> QED BY <2>3, <3>2, ChoosesKeeps
  <2> QED BY <2>4, <2>5, <2>6
<1> QED
  BY <1>4, <1>6, <1>7, <1>8

LEMMA ClearScopeKeeps == ASSUME MachineOK, ClearScope PROVE Keeps
<1> DEFINE m == Clear(Popped, Control.locals)
<1>1. Accounted(Popped, 0, Bearings) /\ Ordinary(Bearings) /\ Becomes(m)
  BY Pops DEF ClearScope, IsPlain
<1>2. Accounted(m, 0, Bearings)
  BY <1>1, ClearAccounted
<1> QED
  BY <1>1, <1>2, BecomesKeeps

-----------------------------------------------------------------------------
(* Branches, loops and matches.                                            *)
LEMMA SelectBranchKeeps == ASSUME MachineOK, SelectBranch PROVE Keeps
<1> DEFINE s == Control.statement
           v == TopValue(Popped)
           p == PopValue(Popped)
           a == Fail(p, "Defect", "non-bool condition")
           b == Push(p, <<Block(s.then)>>)
           c == Push(p, <<Block(s.else)>>)
           m == CASE v.tag # "Bool" -> a
                  [] v.tag = "Bool" /\ v.truth -> b
                  [] OTHER -> c
<1>1. /\ Accounted(Popped, 0, Bearings) /\ Ordinary(Bearings) /\ Becomes(m)
      /\ IsControl(Control) /\ Control.op = "SelectBranch"
  <2>1. At("SelectBranch") /\ Becomes(m)
    BY DEF SelectBranch
  <2> HIDE DEF m
  <2> QED BY <2>1, Pops DEF IsPlain
<1>2. s.then \in Seq(Code) /\ s.else \in Seq(Code)
  <2>1. s \in Code /\ s.kind = "If"
    BY <1>1 DEF IsControl
  <2>2. IsHirStatement(s)
    BY <2>1, CodeAssumption
  <2> QED BY <2>1, <2>2 DEF IsHirStatement
<1>3. Accounted(p, 0, Bearings)
  BY <1>1, TakesValue
<1> HIDE DEF p, v
<1>4. Accounted(a, 0, Bearings)
  BY <1>3, Fails
<1>5. Accounted(b, 0, Bearings) /\ Accounted(c, 0, Bearings)
  BY <1>1, <1>2, <1>3, BlockControl, PushesOne
<1>6. m = a \/ m = b \/ m = c
  <2> HIDE DEF a, b, c
  <2> QED OBVIOUS
<1>7. Accounted(m, 0, Bearings)
  <2> HIDE DEF a, b, c, m
  <2> QED BY <1>4, <1>5, <1>6
<1> QED
  BY <1>1, <1>7, BecomesKeeps DEF p, v

LEMMA RunWithAccounted ==
  ASSUME NEW m, NEW w, Accounted(m, 0, w), Ordinary(w),
         NEW bindings, Running(m) => AreLocals(bindings),
         NEW below, AreControls(below), NEW body \in Seq(Code)
  PROVE  Accounted(RunWith(m, bindings, below, body), 0, w)
<1> DEFINE bound == Bind(m, bindings)
           c     == ClearLocals(DOMAIN bindings)
           d     == Block(body)
           all   == below \o <<c, d>>
<1>1. Accounted(bound, 0, w)
  BY BindAccounted
<1>2. AreControls(all)
  <2>1. IsControl(c) /\ IsControl(d)
    BY PlainControls, BlockControl
  <2> HIDE DEF c, d
  <2>2. AreControls(<<c, d>>)
    BY <2>1, FewControls
  <2> QED BY <2>2, ControlsConcat
<1>3. RunWith(m, bindings, below, body) = IF Running(bound) THEN Push(bound, all) ELSE bound
  BY DEF RunWith
<1> HIDE DEF bound, all
<1>4. Accounted(Push(bound, all), 0, w)
  BY <1>1, <1>2, Pushes
<1> QED
  BY <1>1, <1>3, <1>4

LEMMA SelectPatternBranchKeeps == ASSUME MachineOK, SelectPatternBranch PROVE Keeps
<1> DEFINE s == Control.statement
           v == TopValue(Popped)
           p == PopValue(Popped)
           a == RunWith(p, Bindings(v, s.pattern), <<>>, s.then)
           b == Push(p, <<Block(s.else)>>)
           m == IF Fits(v, s.pattern) THEN a ELSE b
<1>1. /\ Accounted(Popped, 0, Bearings) /\ Ordinary(Bearings) /\ Becomes(m)
      /\ IsControl(Control) /\ Control.op = "SelectPatternBranch"
  BY Pops DEF SelectPatternBranch, IsPlain
<1>2. s.then \in Seq(Code) /\ s.else \in Seq(Code) /\ IsPattern(s.pattern)
  <2>1. s \in Code /\ s.kind = "IfPattern"
    BY <1>1 DEF IsControl
  <2>2. IsHirStatement(s)
    BY <2>1, CodeAssumption
  <2> QED BY <2>1, <2>2 DEF IsHirStatement
<1>3. Accounted(p, 0, Bearings) /\ (Running(p) => IsValue(v))
  BY <1>1, TakesValue
<1> HIDE DEF p, v, s
<1>4. Accounted(b, 0, Bearings)
  BY <1>1, <1>2, <1>3, BlockControl, PushesOne
<1>5. Fits(v, s.pattern) => Accounted(a, 0, Bearings)
  <2> DEFINE bindings == Bindings(v, s.pattern)
  <2>1. Fits(v, s.pattern) => (Running(p) => AreLocals(bindings))
    BY <1>2, <1>3, BoundValues
  <2>2. AreControls(<<>>)
    BY FewControls, FinishingControls
  <2> HIDE DEF bindings
  <2>3. Fits(v, s.pattern) => Accounted(RunWith(p, bindings, <<>>, s.then), 0, Bearings)
    BY <1>1, <1>2, <1>3, <2>1, <2>2, RunWithAccounted
  <2> QED BY <2>3 DEF bindings
<1>6. Accounted(m, 0, Bearings)
  <2> HIDE DEF a, b
  <2> QED BY <1>4, <1>5
<1> QED
  BY <1>1, <1>6, BecomesKeeps DEF p, v, s


LEMMA FinishForKeeps == ASSUME MachineOK, FinishFor PROVE Keeps
<1> DEFINE v == TopValue(Popped)
           p == PopValue(Popped)
           c == [op |-> "ForNext", statement |-> Control.statement,
                 index |-> 1, values |-> v.elements]
           a == Fail(p, "Defect", "for iterable is not an array")
           b == Push(p, <<c>>)
           m == IF v.tag # "Array" THEN a ELSE b
<1>1. /\ Accounted(Popped, 0, Bearings) /\ Ordinary(Bearings) /\ Becomes(m)
      /\ IsControl(Control) /\ Control.op = "FinishFor"
  <2>1. At("FinishFor") /\ Becomes(m)
    BY DEF FinishFor
  <2> HIDE DEF m
  <2> QED BY <2>1, Pops DEF IsPlain
<1>2. Control.statement \in Code /\ Control.statement.kind = "For"
  BY <1>1 DEF IsControl
<1>3. Accounted(p, 0, Bearings) /\ (Running(p) => IsValue(v))
  BY <1>1, TakesValue
<1> HIDE DEF p, v
<1>4. Accounted(a, 0, Bearings)
  BY <1>3, Fails
<1>5. v.tag = "Array" => Accounted(b, 0, Bearings)
  <2>1. v.tag = "Array" => (Running(p) => AreValues(v.elements))
    BY <1>3, ValueParts
  <2>2. v.tag = "Array" => (Running(p) => IsControl(c))
    <3>1. /\ DOMAIN c = {"op", "statement", "index", "values"} /\ c.op = "ForNext"
          /\ c.statement = Control.statement /\ c.index = 1 /\ c.values = v.elements
      OBVIOUS
    <3> HIDE DEF c
    <3> QED BY <1>2, <2>1, <3>1 DEF IsControl, FinishOp
  <2> HIDE DEF c
  <2> QED BY <1>1, <1>3, <2>2, PushesOne
<1>6. Accounted(m, 0, Bearings)
  <2> HIDE DEF a, b
  <2> QED BY <1>4, <1>5
<1> QED
  BY <1>1, <1>6, BecomesKeeps DEF p, v

LEMMA ForNextKeeps == ASSUME MachineOK, ForNext PROVE Keeps
<1> DEFINE s == Control.statement
           v == Control.values[Control.index]
           c == [Control EXCEPT !.index = @ + 1]
           a == Fail(Popped, "Defect", "for pattern did not match")
           b == RunWith(Popped, Bindings(v, s.pattern), <<c>>, s.body)
           m == IF Control.index > Len(Control.values) THEN Popped
                ELSE IF ~ Fits(v, s.pattern) THEN a ELSE b
<1>1. /\ Accounted(Popped, 0, Bearings) /\ Ordinary(Bearings) /\ Becomes(m)
      /\ IsControl(Control) /\ Control.op = "ForNext"
  <2>1. At("ForNext") /\ Becomes(m)
    BY DEF ForNext
  <2> HIDE DEF m
  <2> QED BY <2>1, Pops DEF IsPlain
<1>2. /\ DOMAIN Control = {"op", "statement", "index", "values"}
      /\ s \in Code /\ s.kind = "For"
      /\ AreValues(Control.values) /\ Control.index \in Nat \ {0}
  BY <1>1 DEF IsControl
<1>3. s.body \in Seq(Code) /\ IsPattern(s.pattern)
  <2>1. IsHirStatement(s)
    BY <1>2, CodeAssumption
  <2> QED BY <1>2, <2>1 DEF IsHirStatement
<1>4. Accounted(a, 0, Bearings)
  BY <1>1, Fails
<1>5. AreControls(<<c>>)
  <2>1. /\ DOMAIN c = {"op", "statement", "index", "values"} /\ c.op = "ForNext"
        /\ c.statement = s /\ c.index = Control.index + 1 /\ c.values = Control.values
    BY <1>1, <1>2
  <2>2. c.index \in Nat \ {0}
    BY <1>2, <2>1
  <2> HIDE DEF c
  <2>3. IsControl(c)
    BY <1>2, <2>1, <2>2 DEF IsControl, FinishOp
  <2> QED BY <2>3, FewControls
<1>6. ~ Control.index > Len(Control.values) => IsValue(v)
  <2>1. DOMAIN Control.values = 1..Len(Control.values) /\ Len(Control.values) \in Nat
    BY <1>2, SequenceFacts DEF AreValues
  <2>2. ~ Control.index > Len(Control.values) => Control.index \in DOMAIN Control.values
    BY <1>2, <2>1
  <2> QED BY <1>2, <2>2 DEF AreValues
<1> HIDE DEF v, s, c
<1>7. IsValue(v) /\ Fits(v, s.pattern) => Accounted(b, 0, Bearings)
  <2> DEFINE bindings == Bindings(v, s.pattern)
             below    == <<c>>
  <2>1. IsValue(v) /\ Fits(v, s.pattern) => AreLocals(bindings)
    BY <1>3, BoundValues
  <2> HIDE DEF bindings, below
  <2>2. AreLocals(bindings) => Accounted(RunWith(Popped, bindings, below, s.body), 0, Bearings)
    BY <1>1, <1>3, <1>5, RunWithAccounted DEF below
  <2> QED BY <2>1, <2>2 DEF bindings, below
<1>8. Accounted(m, 0, Bearings)
  <2> HIDE DEF a, b
  <2> QED BY <1>1, <1>4, <1>6, <1>7
<1> QED
  BY <1>1, <1>8, BecomesKeeps DEF v, s, c

LEMMA WhileControlFacts ==
  ASSUME IsControl(Control), Control.op \in {"WhileNext", "FinishWhileCondition"}
  PROVE  /\ DOMAIN Control = {"op", "statement", "remaining"}
         /\ Control.statement \in Code /\ Control.statement.kind = "While"
         /\ Control.statement.condition \in Code /\ Control.statement.body \in Seq(Code)
<1>1. /\ DOMAIN Control = {"op", "statement", "remaining"}
      /\ Control.statement \in Code /\ Control.statement.kind = "While"
  BY DEF IsControl
<1>2. IsHirStatement(Control.statement)
  BY <1>1, CodeAssumption
<1> QED
  BY <1>1, <1>2 DEF IsHirStatement

LEMMA WhileNextKeeps == ASSUME MachineOK, WhileNext PROVE Keeps
<1> DEFINE c == [Control EXCEPT !.op = "FinishWhileCondition"]
           d == Expr(Control.statement.condition)
           m == Push(Popped, <<c, d>>)
<1>1. /\ Accounted(Popped, 0, Bearings) /\ Ordinary(Bearings) /\ Becomes(m)
      /\ IsControl(Control) /\ Control.op = "WhileNext"
  BY Pops DEF WhileNext, IsPlain
<1>2. /\ DOMAIN Control = {"op", "statement", "remaining"}
      /\ Control.statement \in Code /\ Control.statement.kind = "While"
      /\ Control.statement.condition \in Code
  BY <1>1, WhileControlFacts
<1>3. IsControl(c)
  <2>1. /\ DOMAIN c = {"op", "statement", "remaining"} /\ c.op = "FinishWhileCondition"
        /\ c.statement = Control.statement
    BY <1>2
  <2> HIDE DEF c
  <2> QED BY <1>2, <2>1 DEF IsControl, FinishOp
<1>4. IsControl(d)
  BY <1>2, ExpressionControl
<1> HIDE DEF c, d
<1>5. Accounted(m, 0, Bearings)
  BY <1>1, <1>3, <1>4, PushesTwo
<1> QED
  BY <1>1, <1>5, BecomesKeeps

LEMMA FinishWhileConditionKeeps == ASSUME MachineOK, FinishWhileCondition PROVE Keeps
<1> DEFINE v == TopValue(Popped)
           p == PopValue(Popped)
           x == [Control EXCEPT !.op = "WhileNext", !.remaining = @ - 1]
           y == Block(Control.statement.body)
           a == Fail(p, "Defect", "while condition is not Bool")
           b == Fail(p, "Defect", "while exceeded its compiler-derived bound")
           c == Push(p, <<x, y>>)
           m == CASE v.tag # "Bool" -> a
                  [] v.tag = "Bool" /\ ~ v.truth -> p
                  [] v.tag = "Bool" /\ v.truth /\ Control.remaining = 0 -> b
                  [] OTHER -> c
<1>1. /\ Accounted(Popped, 0, Bearings) /\ Ordinary(Bearings) /\ Becomes(m)
      /\ IsControl(Control) /\ Control.op = "FinishWhileCondition"
  <2>1. At("FinishWhileCondition") /\ Becomes(m)
    BY DEF FinishWhileCondition
  <2> HIDE DEF m
  <2> QED BY <2>1, Pops DEF IsPlain
<1>2. /\ DOMAIN Control = {"op", "statement", "remaining"}
      /\ Control.statement \in Code /\ Control.statement.kind = "While"
      /\ Control.statement.body \in Seq(Code)
  BY <1>1, WhileControlFacts
<1>3. IsControl(x)
  <2>1. /\ DOMAIN x = {"op", "statement", "remaining"} /\ x.op = "WhileNext"
        /\ x.statement = Control.statement
    BY <1>2
  <2> HIDE DEF x
  <2> QED BY <1>2, <2>1 DEF IsControl, FinishOp
<1>4. IsControl(y)
  BY <1>2, BlockControl
<1>5. Accounted(p, 0, Bearings)
  BY <1>1, TakesValue
<1> HIDE DEF p, v, x, y
<1>6. Accounted(a, 0, Bearings) /\ Accounted(b, 0, Bearings)
  BY <1>5, Fails
<1>7. Accounted(c, 0, Bearings)
  BY <1>1, <1>3, <1>4, <1>5, PushesTwo
<1>8. m = a \/ m = p \/ m = b \/ m = c
  <2> HIDE DEF a, b, c
  <2> QED OBVIOUS
<1>9. Accounted(m, 0, Bearings)
  <2> HIDE DEF a, b, c, m
  <2> QED BY <1>5, <1>6, <1>7, <1>8
<1> QED
  BY <1>1, <1>9, BecomesKeeps DEF p, v, x, y

LEMMA TryMatchControl ==
  ASSUME NEW cases, AreCases(cases), NEW v, IsValue(v), NEW index \in Nat \ {0}
  PROVE  IsControl(TryMatchOf(cases, v, index))
<1> DEFINE c == TryMatchOf(cases, v, index)
<1>1. /\ DOMAIN c = {"op", "cases", "value", "index"} /\ c.op = "TryMatch"
      /\ c.cases = cases /\ c.value = v /\ c.index = index
  BY DEF TryMatchOf
<1> HIDE DEF c
<1>2. IsControl(c)
  BY <1>1 DEF IsControl, FinishOp
<1> QED
  BY <1>2 DEF c

LEMMA FinishMatchKeeps == ASSUME MachineOK, FinishMatch PROVE Keeps
<1> DEFINE p == PopValue(Popped)
           v == TopValue(Popped)
           c == TryMatchOf(Control.cases, v, 1)
           m == Push(p, <<c>>)
<1>1. /\ Accounted(Popped, 0, Bearings) /\ Ordinary(Bearings) /\ Becomes(m)
      /\ IsControl(Control) /\ Control.op = "FinishMatch"
  BY Pops DEF FinishMatch, IsPlain
<1>2. AreCases(Control.cases)
  BY <1>1 DEF IsControl
<1>3. Accounted(p, 0, Bearings) /\ (Running(p) => IsValue(v))
  BY <1>1, TakesValue
<1> HIDE DEF p, v
<1>4. Running(p) => IsControl(c)
  BY <1>2, <1>3, TryMatchControl, 1 \in Nat \ {0}
<1> HIDE DEF c
<1>5. Accounted(m, 0, Bearings)
  BY <1>1, <1>3, <1>4, PushesOne
<1> QED
  BY <1>1, <1>5, BecomesKeeps DEF p, v, c

LEMMA CaseFacts ==
  ASSUME NEW cases, AreCases(cases), NEW i \in DOMAIN cases
  PROVE  /\ IsPattern(cases[i].pattern) /\ cases[i].body \in Seq(Code)
         /\ cases[i].guard \in Seq(Code)
         /\ cases[i].guard # <<>> => cases[i].guard[1] \in Code
  BY DEF AreCases, IsCase

LEMMA TryMatchKeeps == ASSUME MachineOK, TryMatch PROVE Keeps
<1> DEFINE index    == Control.index
           case     == Control.cases[index]
           v        == Control.value
           bindings == Bindings(v, case.pattern)
           bound    == Bind(Popped, bindings)
           x        == [Control EXCEPT !.op = "FinishMatchGuard"]
           y        == Expr(case.guard[1])
           z        == TryMatchOf(Control.cases, v, index + 1)
           a        == Fail(Popped, "Defect", "exhaustive match selected no case")
           b        == Push(Popped, <<z>>)
           c        == RunWith(Popped, bindings, <<>>, case.body)
           d        == Push(bound, <<x, y>>)
           m        == CASE index > Len(Control.cases) -> a
                         [] index <= Len(Control.cases) /\ ~ Fits(v, case.pattern) -> b
                         [] OTHER -> IF case.guard = <<>> THEN c
                                     ELSE IF ~ Running(bound) THEN bound ELSE d
<1>1. /\ Accounted(Popped, 0, Bearings) /\ Running(Popped) /\ Ordinary(Bearings) /\ Becomes(m)
      /\ IsControl(Control) /\ Control.op = "TryMatch"
  <2>1. At("TryMatch") /\ Becomes(m)
    BY DEF TryMatch
  <2> HIDE DEF m
  <2> QED BY <2>1, Pops DEF IsPlain
<1>2. /\ DOMAIN Control = {"op", "cases", "value", "index"}
      /\ AreCases(Control.cases) /\ IsValue(v) /\ index \in Nat \ {0}
  BY <1>1 DEF IsControl
<1>3. DOMAIN Control.cases = 1..Len(Control.cases) /\ Len(Control.cases) \in Nat
  BY <1>2, SequenceFacts DEF AreCases
<1> DEFINE last == Len(Control.cases)
           fits == Fits(v, case.pattern)
           e    == IF case.guard = <<>> THEN c ELSE IF ~ Running(bound) THEN bound ELSE d
<1>4. /\ index > last => m = a
      /\ index <= last /\ ~ fits => m = b
      /\ index <= last /\ fits => m = e
  <2>1. index <= last <=> ~ index > last
    BY <1>2, <1>3
  <2> HIDE DEF a, b, c, d, index, case, v, bound
  <2> QED BY <2>1
<1>5. CASE index > Len(Control.cases)
  <2>1. m = a
    BY <1>5, <1>4
  <2>2. Accounted(a, 0, Bearings)
    BY <1>1, Fails
  <2> HIDE DEF a
  <2> QED BY <1>1, <2>1, <2>2, BecomesKeeps
<1>6. CASE index \in DOMAIN Control.cases /\ ~ Fits(v, case.pattern)
  <2>1. m = b
    <3>1. index <= last
      BY <1>2, <1>3, <1>6
    <3> QED BY <1>6, <1>4, <3>1
  <2>2. IsControl(z)
    BY <1>2, TryMatchControl, index + 1 \in Nat \ {0}
  <2> HIDE DEF z
  <2>3. Accounted(b, 0, Bearings)
    BY <1>1, <2>2, PushesOne
  <2> HIDE DEF b
  <2> QED BY <1>1, <2>1, <2>3, BecomesKeeps
<1>7. CASE index \in DOMAIN Control.cases /\ Fits(v, case.pattern)
  <2>1. m = IF case.guard = <<>> THEN c ELSE IF ~ Running(bound) THEN bound ELSE d
    <3>1. index <= last
      BY <1>2, <1>3, <1>7
    <3> QED BY <1>7, <1>4, <3>1
  <2>2. /\ IsPattern(case.pattern) /\ case.body \in Seq(Code)
        /\ case.guard # <<>> => case.guard[1] \in Code
    BY <1>2, <1>7, CaseFacts
  <2>3. AreLocals(bindings)
    BY <1>2, <1>7, <2>2, BoundValues
  <2>4. AreControls(<<>>)
    BY FewControls, FinishingControls
  <2> HIDE DEF bindings, case
  <2>5. Accounted(c, 0, Bearings)
    BY <1>1, <2>2, <2>3, <2>4, RunWithAccounted
  <2>6. Accounted(bound, 0, Bearings)
    BY <1>1, <2>3, BindAccounted
  <2> HIDE DEF bound
  <2>7. case.guard # <<>> => Accounted(d, 0, Bearings)
    <3>1. IsControl(x)
      <4>1. /\ DOMAIN x = {"op", "cases", "value", "index"} /\ x.op = "FinishMatchGuard"
            /\ x.cases = Control.cases /\ x.value = v /\ x.index = index
        BY <1>2
      <4> HIDE DEF x, v, index
      <4> QED BY <1>2, <1>7, <4>1 DEF IsControl, FinishOp
    <3>2. case.guard # <<>> => IsControl(y)
      BY <2>2, ExpressionControl
    <3> HIDE DEF x, y
    <3> QED BY <1>1, <2>6, <3>1, <3>2, PushesTwo
  <2>8. Accounted(m, 0, Bearings)
    <3> HIDE DEF c, d, m
    <3> QED BY <2>1, <2>5, <2>6, <2>7
  <2> QED BY <1>1, <2>8, BecomesKeeps DEF bindings, bound, case
<1> QED
  BY <1>2, <1>3, <1>5, <1>6, <1>7

LEMMA FinishMatchGuardKeeps == ASSUME MachineOK, FinishMatchGuard PROVE Keeps
<1> DEFINE case   == Control.cases[Control.index]
           locals == DOMAIN Bindings(Control.value, case.pattern)
           v      == TopValue(Popped)
           p      == PopValue(Popped)
           clear  == Clear(p, locals)
           x      == ClearLocals(locals)
           y      == Block(case.body)
           z      == TryMatchOf(Control.cases, Control.value, Control.index + 1)
           a      == Fail(p, "Defect", "match guard is not Bool")
           b      == Push(p, <<x, y>>)
           c      == IF Running(clear) THEN Push(clear, <<z>>) ELSE clear
           m      == CASE v.tag # "Bool" -> a
                       [] v.tag = "Bool" /\ v.truth -> b
                       [] OTHER -> c
<1>1. /\ Accounted(Popped, 0, Bearings) /\ Ordinary(Bearings) /\ Becomes(m)
      /\ IsControl(Control) /\ Control.op = "FinishMatchGuard"
  <2>1. At("FinishMatchGuard") /\ Becomes(m)
    BY DEF FinishMatchGuard
  <2> HIDE DEF m
  <2> QED BY <2>1, Pops DEF IsPlain
<1>2. /\ AreCases(Control.cases) /\ IsValue(Control.value) /\ Control.index \in Nat \ {0}
      /\ Control.index \in DOMAIN Control.cases
  BY <1>1 DEF IsControl
<1>3. Accounted(p, 0, Bearings)
  BY <1>1, TakesValue
<1>4. IsControl(x) /\ IsControl(y)
  BY <1>2, CaseFacts, PlainControls, BlockControl
<1>5. IsControl(z)
  BY <1>2, TryMatchControl, Control.index + 1 \in Nat \ {0}
<1> HIDE DEF p, v, x, y, z, locals, case
<1>6. Accounted(a, 0, Bearings)
  BY <1>3, Fails
<1>7. Accounted(b, 0, Bearings)
  BY <1>1, <1>3, <1>4, PushesTwo
<1>8. Accounted(clear, 0, Bearings)
  BY <1>1, <1>3, ClearAccounted
<1> HIDE DEF clear
<1>9. Accounted(Push(clear, <<z>>), 0, Bearings)
  BY <1>1, <1>5, <1>8, PushesOne
<1>10. Accounted(c, 0, Bearings)
  BY <1>8, <1>9
<1>11. m = a \/ m = b \/ m = c
  <2> HIDE DEF a, b, c
  <2> QED OBVIOUS
<1>12. Accounted(m, 0, Bearings)
  <2> HIDE DEF a, b, c, m
  <2> QED BY <1>6, <1>7, <1>10, <1>11
<1> QED
  BY <1>1, <1>12, BecomesKeeps DEF p, v, x, y, z, locals, case, clear


-----------------------------------------------------------------------------
(***************************************************************************)
(* The inductive invariant, and what follows from it.                      *)
(***************************************************************************)

(* The fuel charged is within both ceilings.                               *)
Within == fuel <= Limits.fuel /\ machine.prior + fuel <= Limits.compilationFuel

(* A charge was refused.                                                   *)
OutOfFuel ==
  LET o == machine.outcome IN
  \/ o.kind = "Cancelled"
  \/ /\ o.kind = "LimitExceeded"
     /\ \/ /\ o.of = "RootFuel" /\ fuel > Limits.fuel
           /\ machine.prior + fuel <= Limits.compilationFuel
        \/ o.of = "CompilationFuel" /\ machine.prior + fuel > Limits.compilationFuel

Unstarted == Running(machine) /\ machine.frames = <<>>

(* A root function has no frame that the engine opens.                     *)
Unmarked == Running(machine) => Marks("engine", machine.frames) = <<>>

IInv == /\ IsProgram(program) /\ fuel \in Nat /\ machine.prior \in Nat
        /\ \/ MachineOK /\ Unmarked /\ (Unstarted \/ Within)
           \/ OutOfFuel

(* The machine before a root starts.                                       *)
LEMMA FreshReckoned ==
  ASSUME NEW prior, NEW limits \in Ceilings,
         NEW w, w.limits = limits, w.prior = prior, w.open = <<>>, w.ids = <<>>
  PROVE  LET m == Fresh(prior, limits)
         IN /\ Reckoned(m, 0, w) /\ Running(m) /\ m.frames = <<>>
            /\ m.prior = prior /\ m.limits = limits
            /\ \A kind : Marks(kind, m.frames) = <<>>
<1> DEFINE m == Fresh(prior, limits)
<1>1. /\ DOMAIN m = MachineFields /\ m.frames = <<>> /\ m.calls = <<>>
      /\ m.memory = 0 /\ m.peak = 0 /\ m.prior = prior
      /\ m.limits = limits /\ Running(m)
  BY DEF Fresh, MachineFields, Running
<1> HIDE DEF m
<1>2. IsSequence(<<>>) /\ Len(<<>>) = 0
  BY FewControls, FinishingControls DEF AreControls
<1>3. AreFrames(<<>>)
  BY <1>2 DEF AreFrames
<1>4. FramesMemory(<<>>) = 0
  BY <1>3, MemoryOfFrames
<1>5. limits.depth \in Nat /\ limits.memory \in Nat
  BY DEF Ceilings
<1>6. \A kind : Marks(kind, m.frames) = <<>>
  BY <1>1, <1>2, MarksOf
<1>7. Live(m, 0)
  BY <1>1, <1>2, <1>3, <1>4, <1>5, <1>6 DEF Live, Grounded
<1>8. Reckoned(m, 0, w)
  BY <1>1, <1>6, <1>7 DEF Reckoned, OfRoot, Marked
<1> QED
  BY <1>1, <1>6, <1>8 DEF m

LEMMA InitReckoned == Init => IInv
<1> SUFFICES ASSUME Init PROVE IInv
  OBVIOUS
<1>1. PICK w \in Workloads : program = w.program /\ machine = Fresh(w.prior, w.limits)
  BY DEF Init
<1>2. IsProgram(program) /\ fuel = 0 /\ w.prior \in Nat /\ w.limits \in Ceilings
  BY <1>1, CodeAssumption, WorkloadAssumption DEF Init, IsProgram
<1> DEFINE start == [limits |-> w.limits, prior |-> w.prior, open |-> <<>>, ids |-> <<>>]
<1>3. /\ start.limits = w.limits /\ start.prior = w.prior /\ start.open = <<>>
      /\ start.ids = <<>>
  OBVIOUS
<1> HIDE DEF start
<1>4. /\ Reckoned(machine, 0, start) /\ Running(machine) /\ machine.frames = <<>>
      /\ machine.prior = w.prior /\ machine.limits = w.limits
      /\ Marks("engine", machine.frames) = <<>>
  BY <1>1, <1>2, <1>3, FreshReckoned
<1>5. MachineOK
  BY <1>4 DEF MachineOK, Reckoned, OfRoot, Marked, Bearings
<1>6. Unstarted /\ Unmarked
  BY <1>4 DEF Unstarted, Unmarked
<1> QED
  BY <1>2, <1>4, <1>5, <1>6 DEF IInv

LEMMA StartRootKeeps == ASSUME MachineOK, IsProgram(program), StartRoot PROVE Keeps
<1> DEFINE m == PushFunction(machine, program["main"], <<>>, <<>>)
<1>1. Running(machine) /\ Becomes(m)
  BY DEF StartRoot
<1>2. IsHirFunction(program["main"])
  BY DEF IsProgram
<1>3. AreValues(<<>>) /\ IsSequence(<<>>)
  <2>1. IsSequence(<<>>)
    BY FewControls, FinishingControls DEF AreControls
  <2> QED BY <2>1 DEF AreValues
<1>4. Reckoned(m, 0, Bearings)
  BY <1>1, <1>2, <1>3, PushFunctionAccounted DEF MachineOK
<1> QED
  BY <1>1, <1>4, BecomesReckoned

(* What runs is paid for.                                                  *)
Steps == \/ StartRoot \/ Expression \/ FinishExpression \/ RunStatement
         \/ FinishStatement \/ Scope

LEMMA StepsCharge ==
  Steps => /\ Charged /\ Running(machine)
           /\ Depth(machine) > 0 => Control.op # "Constant"
<1>1. CASE StartRoot
  BY <1>1 DEF StartRoot, Becomes
<1>2. CASE Expression
  BY <1>2 DEF Expression, Leaf, Read, MakeFunction, MakeClosure, Compound, AtExpr, At, Becomes,
     Chooses
<1>3. CASE FinishExpression
  BY <1>3 DEF FinishExpression, FinishArray, FinishReadPlace, FinishNegate, FinishBinary,
     FinishShortCircuit, FinishPropagate, FinishCall, At, Becomes, Chooses
<1>4. CASE RunStatement
  BY <1>4 DEF RunStatement, ReturnValue, ReturnUnit, EvaluateThenFinish, AssignPlace, While,
     Break, Continue, Defer, WithPool, Pass, AtStmt, At, Becomes
<1>5. CASE FinishStatement
  BY <1>5 DEF FinishStatement, FinishPanic, FinishAssert, DiscardValue, StoreLocal,
     StoreField, StorePlace, ClearScope, SelectBranch, SelectPatternBranch, FinishFor, ForNext, WhileNext,
     FinishWhileCondition, FinishMatch, TryMatch, FinishMatchGuard, At, Becomes, Chooses
<1>6. CASE Scope
  BY <1>6 DEF Scope, RunBlock, CloseScope, FinishValue, FinishUnitReturn, Fallthrough, At,
     Becomes
<1> QED
  BY <1>1, <1>2, <1>3, <1>4, <1>5, <1>6 DEF Steps

LEMMA StepsKeep == ASSUME MachineOK, IsProgram(program), Steps PROVE Keeps
<1>1. CASE StartRoot
  BY <1>1, StartRootKeeps
<1>2. CASE Expression
  BY <1>2, LeafKeeps, ReadKeeps, MakeFunctionKeeps, MakeClosureKeeps, CompoundKeeps DEF Expression
<1>3. CASE FinishExpression
  BY <1>3, FinishArrayKeeps, FinishReadPlaceKeeps, FinishNegateKeeps, FinishBinaryKeeps,
     FinishShortCircuitKeeps, FinishPropagateKeeps, FinishCallKeeps DEF FinishExpression
<1>4. CASE RunStatement
  BY <1>4, ReturnValueKeeps, ReturnUnitKeeps, EvaluateThenFinishKeeps, AssignPlaceKeeps,
     WhileKeeps, BreakKeeps, ContinueKeeps, DeferKeeps, WithPoolKeeps, PassKeeps
     DEF RunStatement
<1>5. CASE FinishStatement
  BY <1>5, FinishPanicKeeps, FinishAssertKeeps, DiscardValueKeeps, StoreLocalKeeps,
     StoreFieldKeeps, StorePlaceKeeps, ClearScopeKeeps, SelectBranchKeeps, SelectPatternBranchKeeps,
     FinishForKeeps, ForNextKeeps, WhileNextKeeps, FinishWhileConditionKeeps,
     FinishMatchKeeps, TryMatchKeeps, FinishMatchGuardKeeps DEF FinishStatement
<1>6. CASE Scope
  BY <1>6, RunBlockKeeps, CloseScopeKeeps, FinishValueKeeps, FinishUnitReturnKeeps,
     FallthroughKeeps DEF Scope
<1> QED
  BY <1>1, <1>2, <1>3, <1>4, <1>5, <1>6 DEF Steps

(* What is reckoned by any bearings is so by its own.                      *)
LEMMA OwnBearings ==
  ASSUME NEW STATE w, Reckoned(machine', 0, w)
  PROVE  /\ MachineOK' /\ machine'.limits = w.limits /\ machine'.prior = w.prior
         /\ Running(machine)' => Bearings'.open = w.open /\ Bearings'.ids = w.ids
  BY DEF MachineOK, Bearings, Reckoned, OfRoot, Marked, Running

LEMMA KeepsMachine == Keeps => MachineOK'
  BY DEF Keeps, MachineOK, Bearings, Reckoned, OfRoot, Marked

LEMMA StepsInductive == IInv /\ Steps => IInv'
<1> SUFFICES ASSUME IInv, Steps PROVE IInv'
  OBVIOUS
<1>1. Charged /\ Running(machine)
  BY StepsCharge
<1>2. /\ MachineOK /\ Unmarked /\ (Unstarted \/ Within)
      /\ IsProgram(program) /\ fuel \in Nat /\ machine.prior \in Nat
  BY <1>1 DEF IInv, OutOfFuel, Running
<1>3. Keeps /\ Reckoned(machine', 0, Bearings) /\ program' = program
  BY <1>2, StepsKeep DEF Keeps
<1>4. machine'.limits = machine.limits /\ machine'.prior = machine.prior
  BY <1>3 DEF Reckoned, OfRoot, Bearings
<1>5. MachineOK' /\ Unmarked'
  BY <1>1, <1>2, <1>3, KeepsMachine DEF Unmarked, Bearings, Reckoned, Marked, Keeps
<1>6. fuel' \in Nat /\ fuel' = fuel + Tariff
  BY <1>1, <1>2, TariffIsNatural DEF Charged
<1>7. Within'
  <2>1. CASE Tariff > 0
    <3>1. Affordable(Tariff)
      BY <1>1, <2>1 DEF Charged, Payable
    <3>2. machine.prior + fuel + Tariff = machine.prior + fuel'
      BY <1>2, <1>6, TariffIsNatural
    <3>3. fuel' <= Limits.fuel /\ machine.prior + fuel' <= Limits.compilationFuel
      BY <1>6, <3>1, <3>2 DEF Affordable
    <3> QED BY <1>4, <3>3 DEF Within, Limits
  <2>2. CASE ~ Tariff > 0
    <3>1. Tariff = 0 /\ fuel' = fuel
      BY <1>2, <1>6, <2>2, TariffIsNatural
    <3>2. Depth(machine) # 0
      BY <3>1 DEF Tariff
    <3>3. ~ Unstarted
      BY <3>2 DEF Unstarted, Depth
    <3> QED BY <1>2, <1>4, <3>1, <3>3 DEF Within, Limits
  <2> QED BY <2>1, <2>2
<1> QED
  BY <1>2, <1>3, <1>4, <1>5, <1>6, <1>7 DEF IInv

LEMMA RefusedFails ==
  ASSUME Refused, fuel \in Nat, machine.prior \in Nat, Limits \in Ceilings,
         DOMAIN machine = MachineFields
  PROVE  /\ OutOfFuel' /\ fuel' \in Nat /\ program' = program /\ ~ Running(machine)'
         /\ machine'.prior = machine.prior /\ machine'.limits = machine.limits
         /\ machine'.outcome.kind \in {"Cancelled", "LimitExceeded"}
<1>1. /\ Running(machine) /\ program' = program /\ Tariff \in Nat
      /\ Limits.fuel \in Nat /\ Limits.compilationFuel \in Nat
  <2>1. Tariff \in Nat
    BY TariffIsNatural
  <2>2. Running(machine) /\ program' = program
    BY DEF Refused
  <2>3. Limits.fuel \in Nat /\ Limits.compilationFuel \in Nat
    BY DEF Ceilings
  <2> QED BY <2>1, <2>2, <2>3
<1>2. CASE cancelled
  <2>1. machine' = [machine EXCEPT !.outcome = [kind |-> "Cancelled", of |-> ""]] /\ fuel' = fuel
    BY <1>1, <1>2 DEF Refused, Fail
  <2>2. /\ machine'.outcome.kind = "Cancelled" /\ machine'.prior = machine.prior
        /\ machine'.limits = machine.limits
    BY <2>1 DEF MachineFields
  <2> QED BY <1>1, <2>1, <2>2 DEF OutOfFuel, Running
<1>3. CASE ~ cancelled
  <2> DEFINE of == IF machine.prior + fuel + Tariff > Limits.compilationFuel
                   THEN "CompilationFuel" ELSE "RootFuel"
  <2>1. /\ machine' = [machine EXCEPT !.outcome = [kind |-> "LimitExceeded", of |-> of]]
        /\ fuel' = fuel + Tariff /\ ~ Affordable(Tariff)
    BY <1>1, <1>3 DEF Refused, Fail, Refusable
  <2>2. /\ machine'.outcome.kind = "LimitExceeded" /\ machine'.outcome.of = of
        /\ machine'.prior = machine.prior /\ machine'.limits = machine.limits
    BY <2>1 DEF MachineFields
  <2>3. \/ of = "RootFuel" /\ fuel' > Limits.fuel /\ machine.prior + fuel' <= Limits.compilationFuel
        \/ of = "CompilationFuel" /\ machine.prior + fuel' > Limits.compilationFuel
    BY <1>1, <2>1 DEF Affordable
  <2>4. fuel' \in Nat
    BY <1>1, <2>1
  <2> HIDE DEF of
  <2>5. OutOfFuel' /\ ~ Running(machine)'
    BY <2>2, <2>3 DEF OutOfFuel, Limits, Running
  <2> QED BY <1>1, <2>2, <2>4, <2>5
<1> QED
  BY <1>2, <1>3

LEMMA RefusedInductive == IInv /\ Refused => IInv'
<1> SUFFICES ASSUME IInv, Refused PROVE IInv'
  OBVIOUS
<1>1. /\ MachineOK /\ IsProgram(program) /\ fuel \in Nat /\ machine.prior \in Nat
  BY DEF IInv, OutOfFuel, Running, Refused
<1>2. Limits \in Ceilings /\ DOMAIN machine = MachineFields
  BY <1>1 DEF MachineOK, Reckoned, OfRoot, Bearings, Limits
<1> QED
  BY <1>1, <1>2, RefusedFails DEF IInv

LEMMA Inductive == Spec => []IInv
<1>1. IInv /\ [Next]_vars => IInv'
  <2> SUFFICES ASSUME IInv, [Next]_vars PROVE IInv'
    OBVIOUS
  <2>1. CASE Steps
    BY <2>1, StepsInductive
  <2>2. CASE Refused
    BY <2>2, RefusedInductive
  <2>3. CASE UNCHANGED <<program, machine, fuel, trace>>
    BY <2>3 DEF IInv, MachineOK, Bearings, Unmarked, Unstarted, Within, OutOfFuel, Limits
  <2> QED
    BY <2>1, <2>2, <2>3 DEF Next, Run, Steps, Cancel, Ended, vars
<1> QED
  BY <1>1, InitReckoned, PTL DEF Spec

(* The memory charged to a root is at every moment what the tariff says    *)
(* its frames, operands and locals retain: no way a frame is left, a scope *)
(* is unwound, a pattern is bound or a parameter is written back charges   *)
(* something for good or gives something back twice.                       *)
THEOREM MemoryIsConserved == Spec => []MemoryConserved
<1>1. IInv => MemoryConserved
  <2> SUFFICES ASSUME IInv, Running(machine) PROVE machine.memory = FramesMemory(machine.frames)
    BY DEF MemoryConserved
  <2>1. Live(machine, 0)
    BY DEF IInv, MachineOK, Reckoned, OutOfFuel, Running
  <2>2. machine.memory = FramesMemory(machine.frames) + 0 /\ FramesMemory(machine.frames) \in Nat
    BY <2>1, MemoryOfFrames DEF Live
  <2> QED BY <2>2
<1> QED
  BY <1>1, Inductive, PTL

(* The call stack names the frames that are open, at most as many as the   *)
(* depth allows.                                                           *)
THEOREM CallStackIsExact == Spec => []CallStackAgrees
<1>1. IInv => CallStackAgrees
  <2> SUFFICES ASSUME IInv, Running(machine)
               PROVE  Len(machine.calls) = Depth(machine) /\ Depth(machine) <= Limits.depth
    BY DEF CallStackAgrees
  <2>1. Live(machine, 0) /\ Marks("engine", machine.frames) = <<>>
    BY DEF IInv, MachineOK, Reckoned, Unmarked, OutOfFuel, Running
  <2>2. Len(machine.frames) \in Nat /\ Len(<<>>) = 0
    BY <2>1, SequenceFacts DEF Live, AreFrames
  <2> DEFINE calls  == Len(machine.calls)
             frames == Len(machine.frames)
             none   == Len(<<>>)
  <2>3. calls = frames - none /\ calls <= machine.limits.depth /\ frames \in Nat /\ none = 0
    BY <2>1, <2>2 DEF Live
  <2> HIDE DEF calls, frames, none
  <2>4. calls = frames /\ frames <= machine.limits.depth
    BY <2>3
  <2> QED BY <2>4 DEF Depth, Limits, calls, frames
<1> QED
  BY <1>1, Inductive, PTL

(* A root that went over a ceiling has no result, and the ceiling that is  *)
(* reported is one that was exceeded, the compilation's before the root's. *)
THEOREM CeilingsHold == Spec => []LimitsEnforced
<1>1. IInv => LimitsEnforced
  <2> SUFFICES ASSUME IInv PROVE LimitsEnforced
    OBVIOUS
  <2>1. CASE OutOfFuel
    BY <2>1 DEF OutOfFuel, LimitsEnforced
  <2>2. CASE MachineOK /\ Running(machine)
    BY <2>2 DEF Running, LimitsEnforced
  <2>3. CASE MachineOK /\ ~ Running(machine) /\ ~ OutOfFuel
    <3>1. Stopped(machine) /\ Within
      BY <2>3 DEF IInv, MachineOK, Reckoned, Unstarted
    <3> QED BY <3>1 DEF Stopped, Within, LimitsEnforced, Limits
  <2> QED BY <2>1, <2>2, <2>3 DEF IInv
<1> QED
  BY <1>1, Inductive, PTL
=============================================================================
