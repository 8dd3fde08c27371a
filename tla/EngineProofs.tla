----------------------------- MODULE EngineProofs -----------------------------
(***************************************************************************)
(* The engine links the roots of a compilation: its cycle stack names the  *)
(* constants being evaluated, and its ceilings hold over all the roots.    *)
(* The machine is reckoned as in module EvaluatorProofs; here the frames   *)
(* that the engine opens come and go.                                      *)
(***************************************************************************)
EXTENDS EvaluationEngine, EvaluatorProofs

-----------------------------------------------------------------------------
(***************************************************************************)
(* The roots, and the fuel that they used.                                 *)
(***************************************************************************)

LEMMA AscendingFacts ==
  ASSUME NEW S, S \subseteq Nat, IsFiniteSet(S)
  PROVE  IsSequence(Ascending(S)) /\ \A i \in DOMAIN Ascending(S) : Ascending(S)[i] \in S
<1> DEFINE n == Cardinality(S)
           e == Ascending(S)
<1>1. n \in Nat
  BY FS_CardinalityType
<1>2. PICK d : Rises(d, n, S)
  BY RisingExists
<1>3. d \in [1..n -> S] /\ \A i, j \in DOMAIN d : i < j => d[i] < d[j]
  BY <1>2 DEF Rises
<1>4. e \in [1..n -> S]
  BY <1>3 DEF Ascending
<1> HIDE DEF e, n
<1>5. e = [i \in 1..n |-> e[i]]
  BY <1>4
<1>6. IsSequence(e) /\ DOMAIN e = 1..n
  BY <1>1, <1>5, Tabulated
<1> QED
  BY <1>4, <1>6 DEF e

(* What is known of a root before it starts.                               *)
IsRoot(r) == /\ r.kind = "constant"  => r.id \in Identities
             /\ r.kind = "assertion" => r.assertion.expression \in Code

AreRoots(s) == IsSequence(s) /\ \A i \in DOMAIN s : IsRoot(s[i])

LEMMA RootsConcat ==
  ASSUME NEW s, AreRoots(s), NEW t, AreRoots(t)
  PROVE  AreRoots(s \o t)
<1>1. IsSequence(s) /\ IsSequence(t)
  BY DEF AreRoots
<1>2. /\ IsSequence(s \o t) /\ Len(s \o t) = Len(s) + Len(t)
      /\ \A i \in 1..Len(s)+Len(t) : (s \o t)[i] = IF i <= Len(s) THEN s[i] ELSE t[i - Len(s)]
  BY <1>1, ConcatFacts
<1>3. /\ DOMAIN (s \o t) = 1..Len(s)+Len(t) /\ DOMAIN s = 1..Len(s) /\ DOMAIN t = 1..Len(t)
      /\ Len(s) \in Nat /\ Len(t) \in Nat
  BY <1>1, <1>2, SequenceFacts
<1>4. ASSUME NEW i \in DOMAIN (s \o t) PROVE IsRoot((s \o t)[i])
  <2>1. CASE i <= Len(s)
    BY <1>2, <1>3, <2>1 DEF AreRoots
  <2>2. CASE ~ i <= Len(s)
    <3>1. i - Len(s) \in DOMAIN t
      BY <1>3, <2>2
    <3> QED BY <1>2, <1>3, <2>2, <3>1 DEF AreRoots
  <2> QED BY <2>1, <2>2
<1> QED
  BY <1>2, <1>4 DEF AreRoots

LEMMA RootsOfWorkload ==
  ASSUME NEW w \in Workloads
  PROVE  AreRoots(RootsOf(w.constants, w.assertions))
<1> DEFINE ids == Ascending(DOMAIN w.constants)
           a   == w.assertions
           first  == [i \in DOMAIN ids |-> ConstantRoot(ids[i])]
           second == [i \in DOMAIN a |-> AssertionRoot(a[i])]
<1>1. /\ DOMAIN w.constants = Identities /\ Identities \subseteq Nat /\ IsFiniteSet(Identities)
      /\ IsSequence(a) /\ \A x \in ToSet(a) : x.expression \in Code
  BY EngineAssumption
<1>2. IsSequence(ids) /\ \A i \in DOMAIN ids : ids[i] \in Identities
  BY <1>1, AscendingFacts
<1>3. \A i \in DOMAIN a : a[i].expression \in Code
  BY <1>1 DEF ToSet
<1>4. RootsOf(w.constants, w.assertions) = first \o second \o <<ImageRoot>>
  BY DEF RootsOf
<1> HIDE DEF ids, a
<1>5. AreRoots(first)
  <2>1. Len(ids) \in Nat /\ DOMAIN ids = 1..Len(ids)
    BY <1>2, SequenceFacts
  <2>2. first = [i \in 1..Len(ids) |-> first[i]]
    BY <2>1
  <2>3. IsSequence(first) /\ DOMAIN first = 1..Len(ids)
    <3> HIDE DEF first
    <3> QED BY <2>1, <2>2, Tabulated
  <2>4. \A i \in DOMAIN first : IsRoot(first[i])
    BY <1>2 DEF IsRoot, ConstantRoot
  <2> HIDE DEF first
  <2> QED BY <2>3, <2>4 DEF AreRoots
<1>6. AreRoots(second)
  <2>1. Len(a) \in Nat /\ DOMAIN a = 1..Len(a)
    BY <1>1, SequenceFacts
  <2>2. second = [i \in 1..Len(a) |-> second[i]]
    BY <2>1
  <2>3. IsSequence(second) /\ DOMAIN second = 1..Len(a)
    <3> HIDE DEF second
    <3> QED BY <2>1, <2>2, Tabulated
  <2>4. \A i \in DOMAIN second : IsRoot(second[i])
    BY <1>3 DEF IsRoot, AssertionRoot
  <2> HIDE DEF second
  <2> QED BY <2>3, <2>4 DEF AreRoots
<1>7. AreRoots(<<ImageRoot>>)
  <2>1. <<ImageRoot>> \in Seq({ImageRoot})
    OBVIOUS
  <2>2. IsSequence(<<ImageRoot>>)
    BY <2>1, SequenceOf
  <2> QED BY <2>2 DEF AreRoots, IsRoot, ImageRoot
<1> HIDE DEF first, second
<1>8. AreRoots((first \o second) \o <<ImageRoot>>)
  BY <1>5, <1>6, <1>7, RootsConcat
<1> QED
  BY <1>4, <1>8

LEMMA FuelTurns ==
  ASSUME NEW s, NEW n \in Nat, DOMAIN s = 1..n
  PROVE  \E acc : Turns(acc, "fuel", 0, 0, s, n) /\ FuelOf(s) = acc[n]
<1> DEFINE Loop(f) == f = [S \in SUBSET (DOMAIN s) |->
                             IF S = {} THEN 0 ELSE f[S \ {Max(S)}] + s[Max(S)].fuel]
           loop    == CHOOSE f : Loop(f)
<1>1. FuelOf(s) = loop[DOMAIN s]
  BY DEF FuelOf, FoldLeft, MapThenFoldSet
<1>2. \A f : Loop(f) <=> Folding(f, "fuel", 0, 0, s, DOMAIN s)
  BY DEF Folding, Step
<1>3. Loop(loop)
  <2>1. \E f : Loop(f)
    BY <1>2, FoldExists
  <2> QED BY <2>1
<1>4. Folding(loop, "fuel", 0, 0, s, DOMAIN s)
  BY <1>2, <1>3
<1> HIDE DEF loop
<1>5. \E acc : Turns(acc, "fuel", 0, 0, s, n) /\ loop[DOMAIN s] = acc[n]
  BY <1>4, FoldTurns
<1> QED
  BY <1>1, <1>5

AreFuelled(s) == IsSequence(s) /\ \A i \in DOMAIN s : s[i].fuel \in Nat

LEMMA FuelAppend ==
  ASSUME NEW s, AreFuelled(s), NEW r, r.fuel \in Nat
  PROVE  /\ AreFuelled(Append(s, r)) /\ FuelOf(s) \in Nat
         /\ FuelOf(Append(s, r)) = FuelOf(s) + r.fuel
         /\ s = <<>> => FuelOf(s) = 0
<1> DEFINE t == Append(s, r)
           n == Len(s)
<1>1. /\ IsSequence(s) /\ n \in Nat /\ DOMAIN s = 1..n
      /\ \A i \in 1..n : s[i].fuel \in Nat
  BY SequenceFacts DEF AreFuelled
<1>2. /\ IsSequence(t) /\ Len(t) = n + 1 /\ t[n + 1] = r /\ \A i \in 1..n : t[i] = s[i]
  BY <1>1, AppendFacts
<1> HIDE DEF t
<1>3. DOMAIN t = 1..n+1
  BY <1>2, SequenceFacts
<1> HIDE DEF n
<1>4. AreFuelled(t)
  BY <1>1, <1>2, <1>3 DEF AreFuelled
<1>5. PICK acc : Turns(acc, "fuel", 0, 0, t, n + 1) /\ FuelOf(t) = acc[n + 1]
  BY <1>1, <1>3, FuelTurns
<1>6. PICK b : Turns(b, "fuel", 0, 0, s, n) /\ FuelOf(s) = b[n]
  BY <1>1, FuelTurns
<1>7. b[0] = 0 /\ \A k \in 1..n : b[k] = b[k - 1] + s[k].fuel
  BY <1>6 DEF Turns, Step
<1>8. b[n] \in Nat
  <2> DEFINE G == {k \in 0..n : b[k] \in Nat}
  <2>1. 0 \in G
    BY <1>1, <1>7
  <2>2. ASSUME NEW k \in 1..n, k - 1 \in G PROVE k \in G
    <3>1. s[k].fuel \in Nat
      BY <1>1
    <3> QED BY <1>1, <1>7, <2>2, <3>1
  <2> HIDE DEF G
  <2>3. n \in G
    BY <1>1, <2>1, <2>2, Upto
  <2> QED BY <2>3 DEF G
<1>9. Turns(acc, "fuel", 0, 0, s, n)
  BY <1>1, <1>2, <1>5 DEF Turns, Step
<1>10. acc[n] = b[n]
  BY <1>1, <1>6, <1>9, SameTurns
<1>11. acc[n + 1] = acc[n] + r.fuel
  <2>1. n + 1 \in 1..n+1 /\ (n + 1) - 1 = n
    BY <1>1
  <2>2. acc[n + 1] = Step("fuel", 0, acc[(n + 1) - 1], t[n + 1])
    BY <1>5, <2>1 DEF Turns
  <2> QED BY <1>2, <2>1, <2>2 DEF Step
<1>12. s = <<>> => FuelOf(s) = 0
  BY <1>6, <1>7 DEF n
<1> QED
  BY <1>4, <1>5, <1>6, <1>8, <1>10, <1>11, <1>12 DEF t

(* A root that is observed adds its fuel, and changes nothing about those  *)
(* before.                                                                 *)
FuelTo(s, i) == FuelOf(SubSeq(s, 1, i))

LEMMA FuelToAppend ==
  ASSUME NEW s, AreFuelled(s), NEW r, r.fuel \in Nat
  PROVE  LET t == Append(s, r)
         IN /\ \A i \in 1..Len(s) : FuelTo(t, i) = FuelTo(s, i)
            /\ FuelTo(t, Len(s) + 1) = FuelTo(s, Len(s)) + r.fuel
            /\ FuelTo(s, Len(s)) \in Nat
            /\ FuelTo(<<>>, 0) = 0
<1> DEFINE t == Append(s, r)
           n == Len(s)
           S == ToSet(t)
<1>1. IsSequence(s) /\ n \in Nat /\ DOMAIN s = 1..n
  BY SequenceFacts DEF AreFuelled
<1>2. /\ IsSequence(t) /\ Len(t) = n + 1 /\ t[n + 1] = r /\ \A i \in 1..n : t[i] = s[i]
  BY <1>1, AppendFacts
<1>3. t \in Seq(ToSet(t)) /\ s \in Seq(ToSet(s))
  BY <1>1, <1>2 DEF IsSequence
<1> HIDE DEF t, n, S
<1>4. ASSUME NEW i \in 1..n PROVE SubSeq(t, 1, i) = SubSeq(s, 1, i)
  <2>1. \A j \in 1..i : t[j] = s[j]
    BY <1>1, <1>2
  <2>2. i \in 1..Len(t) /\ i \in 1..Len(s)
    BY <1>1, <1>2 DEF n
  <2> QED BY <1>3, <2>1, <2>2
<1>5. SubSeq(t, 1, n + 1) = t
  BY <1>1, <1>2, <1>3
<1>6. SubSeq(s, 1, n) = s
  BY <1>1, <1>3 DEF n
<1>7. FuelOf(t) = FuelOf(s) + r.fuel /\ FuelOf(s) \in Nat
  BY FuelAppend DEF t
<1>8. FuelOf(<<>>) = 0 /\ SubSeq(<<>>, 1, 0) = <<>>
  <2>1. <<>> \in Seq({}) /\ DOMAIN <<>> = {}
    OBVIOUS
  <2>2. IsSequence(<<>>)
    BY <2>1, SequenceOf
  <2>3. AreFuelled(<<>>)
    BY <2>1, <2>2 DEF AreFuelled
  <2> QED BY <2>1, <2>3, FuelAppend
<1> QED
  BY <1>4, <1>5, <1>6, <1>7, <1>8 DEF FuelTo, n, t

-----------------------------------------------------------------------------
(***************************************************************************)
(* The frames of the engine.                                               *)
(***************************************************************************)

(* A frame as WithFrame makes it.                                          *)
EngineFrame(kind, controls, entered) ==
  [returns |-> "", callable |-> kind, controls |-> controls, values |-> <<>>,
   locals |-> <<>>, writebacks |-> <<>>, entered |-> entered]

LEMMA EngineFrameFacts ==
  ASSUME NEW kind \in EngineFrames, NEW controls, Guarded(kind, controls), NEW entered
  PROVE  LET f == EngineFrame(kind, controls, entered)
         IN /\ IsFrame(f) /\ FrameMemory(f) = 64 /\ f.callable = kind
            /\ f.entered = entered /\ f.controls = controls
<1> DEFINE f == EngineFrame(kind, controls, entered)
<1>1. /\ FrameFields \subseteq DOMAIN f /\ "entered" \in DOMAIN f /\ f.returns = ""
      /\ f.controls = controls /\ f.values = <<>> /\ f.locals = <<>> /\ f.writebacks = <<>>
      /\ f.callable = kind /\ f.entered = entered
  BY DEF EngineFrame, FrameFields
<1>2. IsSequence(<<>>) /\ DOMAIN <<>> = {}
  <2>1. <<>> \in Seq({}) /\ DOMAIN <<>> = {}
    OBVIOUS
  <2> QED BY <2>1, SequenceOf
<1>3. AreValues(<<>>) /\ AreLocals(<<>>)
  BY <1>2, FS_EmptySet DEF AreValues, AreLocals
<1> HIDE DEF f
<1>4. IsFrame(f)
  BY <1>1, <1>2, <1>3 DEF IsFrame, Allowed, Bare
<1>5. Sizes(f.values) = 0
  BY <1>1, <1>3, SizesOfValues
<1>6. LocalsMemory(f.locals) = 0
  <2>1. AreSized(f.locals) /\ DOMAIN f.locals = {}
    BY <1>1, <1>2, <1>3, SizedLocals
  <2> QED BY <2>1, LocalsOf
<1>7. FrameMemory(f) = 64
  BY <1>4, <1>5, <1>6, MemoryOfFrame
<1> QED
  BY <1>1, <1>4, <1>7 DEF f

(* The bearings after the engine opened a frame, and after it closed one.  *)
Above(w, f) == [limits |-> w.limits, prior |-> w.prior, top |-> f.callable,
                open |-> w.open \o MarkOf("engine", f), ids |-> w.ids \o MarkOf("constant", f)]

Below(m, w) == [limits |-> w.limits, prior |-> w.prior, top |-> w.top,
                open |-> Marks("engine", Front(m.frames)),
                ids  |-> Marks("constant", Front(m.frames))]

LEMMA OpenFrameReckoned ==
  ASSUME NEW m, NEW w, Reckoned(m, 0, w), Running(m),
         NEW kind \in EngineFrames, NEW controls, Guarded(kind, controls), NEW entered,
         m.frames = <<>> => kind # "constant"
  PROVE  LET r == OpenFrame(m, kind, controls, entered)
             f == EngineFrame(kind, controls, entered)
         IN /\ Reckoned(r, 0, Above(w, f))
            /\ Running(r) => r.frames # <<>> /\ Top(r) = f
<1> DEFINE f == EngineFrame(kind, controls, entered)
           v == Above(w, f)
           r == Retain(m, 64)
           s == OpenFrame(m, kind, controls, entered)
           zero == 0
<1>1. /\ IsFrame(f) /\ FrameMemory(f) = 64 /\ f.callable = kind
  BY EngineFrameFacts
<1>2. v.limits = w.limits /\ v.prior = w.prior /\ v.open = w.open \o MarkOf("engine", f)
      /\ v.ids = w.ids \o MarkOf("constant", f)
  BY DEF Above
<1>3. /\ Reckoned(r, 64, w)
      /\ Running(r) => r.frames = m.frames /\ r.calls = m.calls
  <2>1. Reckoned(m, zero, w) /\ 64 \in Nat /\ zero + 64 = 64
    OBVIOUS
  <2> HIDE DEF zero
  <2>2. /\ Reckoned(r, zero + 64, w)
        /\ Running(r) => r.frames = m.frames /\ r.calls = m.calls
    BY <2>1, RetainReckoned
  <2> QED BY <2>1, <2>2
<1>4. s = IF Running(r) THEN [r EXCEPT !.frames = Append(r.frames, f)] ELSE r
  BY DEF OpenFrame, WithFrame, EngineFrame
<1> HIDE DEF f, v, r, s
<1>5. CASE ~ Running(r)
  <2>1. s = r
    BY <1>4, <1>5
  <2>2. Reckoned(s, 0, v) /\ ~ Running(s)
    BY <1>2, <1>3, <1>5, <2>1 DEF Reckoned, OfRoot
  <2> QED BY <2>2 DEF s, f, v
<1>6. CASE Running(r)
  <2>1. /\ AreFrames(r.frames) /\ Grounded(r.frames) /\ IsSequence(r.calls) /\ IsSequence(r.frames)
        /\ Len(r.calls) = Len(r.frames) - Len(Marks("engine", r.frames))
        /\ Len(r.calls) <= r.limits.depth /\ r.memory = FramesMemory(r.frames) + 64
        /\ r.peak \in Int /\ r.memory <= r.peak /\ r.peak <= r.limits.memory
        /\ DOMAIN r = MachineFields /\ Marked(r, w)
    BY <1>3, <1>6 DEF Reckoned, Live, OfRoot, AreFrames
  <2>2. /\ DOMAIN s = MachineFields /\ s.limits = r.limits /\ s.prior = r.prior
        /\ s.frames = Append(r.frames, f) /\ s.calls = r.calls
        /\ s.memory = r.memory /\ s.peak = r.peak /\ s.outcome = r.outcome
    BY <1>4, <1>6, <2>1 DEF MachineFields
  <2>3. /\ AreFrames(s.frames) /\ Len(s.frames) = Len(r.frames) + 1
        /\ FramesMemory(s.frames) = FramesMemory(r.frames) + 64
    BY <1>1, <2>1, <2>2, FramesAppend
  <2>4. \A k : Marks(k, s.frames) = Marks(k, r.frames) \o MarkOf(k, f)
    BY <2>1, <2>2, MarksAppend
  <2>5. Grounded(s.frames)
    <3>1. r.frames = <<>> => f.callable # "constant"
      BY <1>1, <1>3, <1>6
    <3> QED BY <2>1, <2>2, <3>1, GroundedStack
  <2>6. Len(s.calls) = Len(s.frames) - Len(Marks("engine", s.frames))
    <3> DEFINE below  == Marks("engine", r.frames)
               own    == MarkOf("engine", f)
               calls  == Len(r.calls)
               frames == Len(r.frames)
               marks  == Len(below)
    <3>1. IsSequence(below) /\ marks \in Nat /\ frames \in Nat /\ calls \in Nat
      BY <2>1, MarksAreFew, SequenceFacts
    <3>2. IsSequence(own) /\ Len(own) = 1
      <4>1. own = <<[callable |-> f.callable, entered |-> f.entered]>>
        BY <1>1 DEF MarkOf
      <4>2. IsSequence(own)
        BY MarkFacts
      <4> QED BY <4>1, <4>2
    <3>3. calls = frames - marks /\ Marks("engine", s.frames) = below \o own
      BY <2>1, <2>4
    <3> HIDE DEF below, own
    <3>4. Len(below \o own) = Len(below) + 1
      <4>1. Len(below \o own) = Len(below) + Len(own)
        BY <3>1, <3>2, ConcatFacts
      <4> QED BY <3>2, <4>1
    <3>5. Len(Marks("engine", s.frames)) = marks + 1
      BY <3>3, <3>4
    <3>6. Len(s.calls) = calls /\ Len(s.frames) = frames + 1
      BY <2>2, <2>3
    <3> HIDE DEF calls, frames, marks
    <3>7. calls = (frames + 1) - (marks + 1)
      BY <3>1, <3>3
    <3> QED BY <3>5, <3>6, <3>7
  <2>7. s.memory = FramesMemory(s.frames) + 0
    <3>1. FramesMemory(r.frames) \in Nat
      BY <2>1, MemoryOfFrames
    <3> QED BY <2>1, <2>2, <2>3, <3>1
  <2>8. Live(s, 0)
    BY <2>1, <2>2, <2>3, <2>5, <2>6, <2>7 DEF Live
  <2>9. Marked(s, v) /\ Running(s)
    BY <1>2, <1>6, <2>1, <2>2, <2>4 DEF Marked, Running
  <2>10. s.frames # <<>> /\ Top(s) = f
    <3>1. Append(r.frames, f) # <<>> /\ Append(r.frames, f)[Len(r.frames) + 1] = f
      BY <2>1, AppendFacts
    <3> QED BY <2>2, <2>3, <3>1 DEF Top, Depth
  <2>11. Reckoned(s, 0, v)
    BY <1>2, <1>3, <2>2, <2>8, <2>9 DEF Reckoned, OfRoot
  <2> QED BY <2>10, <2>11 DEF s, f, v
<1> QED
  BY <1>5, <1>6 DEF s, f, v

(* The value of a frame that ends is popped after its last control was:    *)
(* no frame looks like that between two handlers.                          *)
LEMMA LastPopped ==
  ASSUME NEW m, NEW w, Reckoned(m, 0, w), Running(m), m.frames # <<>>, NEW controls
  PROVE  LET p == WithControls(m, controls)
             d == PopValue(p)
         IN /\ DOMAIN d = MachineFields /\ d.limits = m.limits /\ d.prior = m.prior
            /\ d.calls = m.calls /\ d.peak = m.peak
            /\ Running(d) \/ d.outcome.kind = "Defect"
            /\ Running(d) =>
                 /\ AreValues(Top(m).values) /\ Top(m).values # <<>>
                 /\ TopValue(p) = Last(Top(m).values) /\ d.memory = m.memory - TopValue(p).size
                 /\ Top(d).values = Front(Top(m).values) /\ Front(d.frames) = Front(m.frames)
<1> DEFINE p == WithControls(m, controls)
           n == Len(m.frames)
           f == Top(m)
           g == [f EXCEPT !.controls = controls]
           v == TopValue(p)
           r == Release(p, v.size)
           d == PopValue(p)
<1>1. /\ AreFrames(m.frames) /\ DOMAIN m = MachineFields
      /\ m.memory = FramesMemory(m.frames) + 0
  BY DEF Reckoned, Live, OfRoot
<1>2. /\ n \in Nat \ {0} /\ f = m.frames[n] /\ IsFrame(f) /\ DOMAIN m.frames = 1..n
      /\ IsSequence(m.frames)
  <2>1. Last(m.frames) = m.frames[n] /\ n \in Nat \ {0} /\ IsFrame(Last(m.frames))
    BY <1>1, FramesFront
  <2>2. DOMAIN m.frames = 1..n /\ IsSequence(m.frames)
    BY <1>1, SequenceFacts DEF AreFrames
  <2> QED BY <2>1, <2>2 DEF Top, Depth
<1>3. /\ g.values = f.values /\ DOMAIN g = DOMAIN f
  BY <1>2 DEF IsFrame, FrameFields
<1>4. /\ DOMAIN p = MachineFields /\ p.limits = m.limits /\ p.prior = m.prior
      /\ p.calls = m.calls /\ p.memory = m.memory /\ p.peak = m.peak /\ p.outcome = m.outcome
      /\ p.frames = [m.frames EXCEPT ![n] = g]
  BY <1>1 DEF WithControls, WithTop, Depth, Top, MachineFields
<1> HIDE DEF f, g, p, n
<1>5. /\ DOMAIN p.frames = 1..n /\ p.frames[n] = g /\ \A i \in 1..n-1 : p.frames[i] = m.frames[i]
      /\ Len(p.frames) = n
  <2>1. p.frames = [i \in 1..n |-> IF i = n THEN g ELSE m.frames[i]]
    BY <1>2, <1>4
  <2>2. p.frames = [i \in 1..n |-> p.frames[i]]
    BY <2>1
  <2>3. Len(p.frames) = n
    BY <1>2, <2>2, Tabulated
  <2> QED BY <1>2, <2>1, <2>3
<1>6. Top(p) = g /\ Depth(p) = n /\ Running(p)
  BY <1>4, <1>5 DEF Top, Depth, Running
<1>7. CASE f.values = <<>>
  <2> DEFINE why == "evaluator value stack underflow"
  <2>1. d = Fail(p, "Defect", why)
    BY <1>3, <1>6, <1>7 DEF PopValue
  <2> HIDE DEF d, why
  <2>2. d = [p EXCEPT !.outcome = [kind |-> "Defect", of |-> why]]
    BY <1>6, <2>1 DEF Fail
  <2>3. /\ DOMAIN d = MachineFields /\ d.limits = m.limits /\ d.prior = m.prior
        /\ d.calls = m.calls /\ d.peak = m.peak
        /\ d.outcome = [kind |-> "Defect", of |-> why]
    BY <1>4, <2>2 DEF MachineFields
  <2>4. ~ Running(d)
    BY <2>3 DEF Running
  <2> QED BY <2>3, <2>4 DEF d, p
<1>8. CASE f.values # <<>>
  <2>1. AreValues(f.values) /\ v = Last(f.values) /\ IsValue(v)
    <3>1. AreValues(f.values)
      BY <1>2 DEF IsFrame
    <3> QED BY <1>3, <1>6, <1>8, <3>1, ValuesFront DEF TopValue
  <2>2. v.size \in Nat
    BY <2>1, ValueParts
  <2> HIDE DEF v
  <2>3. CASE v.size > p.memory
    <3> DEFINE why == "memory accounting underflow"
    <3>1. r = [p EXCEPT !.outcome = [kind |-> "Defect", of |-> why]]
      BY <1>6, <2>3 DEF Release, Fail
    <3> HIDE DEF r, why
    <3>2. /\ DOMAIN r = MachineFields /\ r.limits = m.limits /\ r.prior = m.prior
          /\ r.calls = m.calls /\ r.peak = m.peak
          /\ r.outcome = [kind |-> "Defect", of |-> why]
      BY <1>4, <3>1 DEF MachineFields
    <3>3. ~ Running(r)
      BY <3>2 DEF Running
    <3>4. d = r
      BY <1>3, <1>6, <1>8, <3>3 DEF PopValue, r, v
    <3> HIDE DEF d
    <3> QED BY <3>2, <3>3, <3>4 DEF d, p
  <2>4. CASE ~ v.size > p.memory
    <3>1. r = [p EXCEPT !.memory = @ - v.size]
      BY <1>6, <2>4 DEF Release
    <3>2. /\ DOMAIN r = MachineFields /\ r.limits = m.limits /\ r.prior = m.prior
          /\ r.calls = m.calls /\ r.peak = m.peak /\ r.outcome = m.outcome
          /\ r.frames = p.frames /\ r.memory = m.memory - v.size
      BY <1>4, <3>1 DEF MachineFields
    <3> HIDE DEF r
    <3>3. Running(r) /\ Top(r) = g /\ Depth(r) = n
      BY <1>5, <3>2 DEF Running, Top, Depth
    <3> DEFINE h == [g EXCEPT !.values = Front(@)]
    <3>4. d = WithTop(r, h)
      BY <1>3, <1>6, <1>8, <3>3 DEF PopValue, r, v
    <3>5. h.values = Front(f.values)
      BY <1>2, <1>3 DEF IsFrame, FrameFields
    <3> HIDE DEF h
    <3>6. /\ DOMAIN d = MachineFields /\ d.limits = m.limits /\ d.prior = m.prior
          /\ d.calls = m.calls /\ d.peak = m.peak /\ d.outcome = m.outcome
          /\ d.frames = [p.frames EXCEPT ![n] = h] /\ d.memory = m.memory - v.size
      BY <3>2, <3>3, <3>4 DEF WithTop, MachineFields
    <3> HIDE DEF d
    <3>7. d.frames = [i \in 1..n |-> IF i = n THEN h ELSE m.frames[i]]
      BY <1>2, <1>5, <3>6
    <3>8. d.frames = [i \in 1..n |-> d.frames[i]] /\ d.frames[n] = h
      BY <1>2, <3>7
    <3>9. IsSequence(d.frames) /\ Len(d.frames) = n
      BY <1>2, <3>8, Tabulated
    <3>10. Top(d).values = Front(f.values)
      BY <3>5, <3>8, <3>9 DEF Top, Depth
    <3>11. Front(d.frames) = Front(m.frames)
      <4>1. d.frames \in Seq(ToSet(d.frames)) /\ m.frames \in Seq(ToSet(m.frames))
        BY <1>2, <3>9 DEF IsSequence
      <4>2. Front(d.frames) = [i \in 1..n-1 |-> d.frames[i]]
        BY <1>2, <3>9, <4>1 DEF Front
      <4>3. Front(m.frames) = [i \in 1..n-1 |-> m.frames[i]]
        BY <1>2, <4>1 DEF Front, n
      <4>4. \A i \in 1..n-1 : d.frames[i] = m.frames[i]
        BY <1>2, <3>7
      <4> QED BY <4>2, <4>3, <4>4
    <3>12. Running(d)
      BY <3>6 DEF Running
    <3> QED BY <1>8, <2>1, <3>6, <3>10, <3>11, <3>12 DEF d, p, f, v
  <2> QED BY <2>3, <2>4
<1> QED
  BY <1>7, <1>8

(* complete_frame of a constant gives back what the frame retained.        *)
LEMMA ConstantClosed ==
  ASSUME NEW m, NEW w, Reckoned(m, 0, w), Running(m), m.frames # <<>>,
         Top(m).callable = "constant", NEW controls
  PROVE  LET p == WithControls(m, controls)
             d == PopValue(p)
             r == [Release(d, 64 + Sizes(Top(d).values)) EXCEPT !.frames = Front(@)]
         IN /\ Reckoned(r, 0, Below(m, w)) /\ (Running(r) \/ r.outcome.kind = "Defect")
            /\ Running(r) => r.frames # <<>> /\ IsValue(TopValue(p))
<1> DEFINE p == WithControls(m, controls)
           d == PopValue(p)
           n == Len(m.frames)
           f == Top(m)
           v == TopValue(p)
           x == 64 + Sizes(Top(d).values)
           s == Release(d, x)
           r == [s EXCEPT !.frames = Front(@)]
           b == Below(m, w)
<1>1. /\ DOMAIN d = MachineFields /\ d.limits = m.limits /\ d.prior = m.prior
      /\ d.calls = m.calls /\ d.peak = m.peak
      /\ Running(d) \/ d.outcome.kind = "Defect"
      /\ Running(d) =>
           /\ AreValues(f.values) /\ f.values # <<>>
           /\ v = Last(f.values) /\ d.memory = m.memory - v.size
           /\ Top(d).values = Front(f.values) /\ Front(d.frames) = Front(m.frames)
  BY LastPopped
<1>2. /\ b.limits = w.limits /\ b.prior = w.prior /\ b.open = Marks("engine", Front(m.frames))
      /\ b.ids = Marks("constant", Front(m.frames))
  BY DEF Below
<1>3. OfRoot(m, w)
  BY DEF Reckoned
<1> HIDE DEF b, v, d
<1>4. CASE ~ Running(d)
  <2>1. s = d
    BY <1>4 DEF Release
  <2> HIDE DEF s
  <2>2. /\ DOMAIN r = MachineFields /\ r.limits = m.limits /\ r.prior = m.prior
        /\ r.outcome = d.outcome
    BY <1>1, <2>1 DEF MachineFields
  <2> HIDE DEF r
  <2>3. r.outcome.kind = "Defect" /\ ~ Running(r)
    BY <1>1, <1>4, <2>2 DEF Running
  <2>4. Reckoned(r, 0, b)
    BY <1>2, <1>3, <2>2, <2>3 DEF Reckoned, OfRoot, Stopped
  <2> QED BY <2>3, <2>4 DEF r, s, x, d, p, b
<1>5. CASE Running(d)
  <2>1. /\ AreFrames(m.frames) /\ Grounded(m.frames) /\ IsSequence(m.calls) /\ IsSequence(m.frames)
        /\ Len(m.calls) = Len(m.frames) - Len(Marks("engine", m.frames))
        /\ Len(m.calls) <= m.limits.depth /\ m.memory = FramesMemory(m.frames) + 0
        /\ m.peak \in Int /\ m.memory <= m.peak /\ m.peak <= m.limits.memory
    BY DEF Reckoned, Live, OfRoot, AreFrames
  <2>2. /\ n \in Nat \ {0} /\ Last(m.frames) = m.frames[n] /\ IsFrame(f) /\ f = m.frames[n]
        /\ AreFrames(Front(m.frames)) /\ Len(Front(m.frames)) = n - 1
        /\ FramesMemory(m.frames) = FramesMemory(Front(m.frames)) + FrameMemory(f)
    BY <2>1, FramesFront DEF Top, Depth
  <2> DEFINE t     == Front(m.frames)
             front == Sizes(Front(f.values))
             size  == v.size
             below == FramesMemory(t)
             own   == FrameMemory(f)
  <2>3. /\ IsValue(v) /\ Sizes(f.values) = front + size /\ size \in Nat /\ front \in Nat
    BY <1>1, <1>5, ValuesFront, ValueParts, SizesOfValues
  <2>4. own = 64 + front + size
    <3>1. FrameMemory(f) = 64 + Sizes(f.values) + LocalsMemory(f.locals)
      BY <2>2, MemoryOfFrame
    <3>2. LocalsMemory(f.locals) = 0
      <4>1. DOMAIN f.locals = {} /\ AreSized(f.locals)
        BY <2>2, SizedLocals DEF IsFrame, Bare, EngineFrames
      <4> QED BY <4>1, LocalsOf
    <3> HIDE DEF size, front
    <3> QED BY <2>3, <3>1, <3>2
  <2>5. below \in Nat
    BY <2>2, MemoryOfFrames
  <2>6. x = 64 + front
    BY <1>1, <1>5
  <2>7. d.memory = m.memory - size /\ m.memory = below + own
    <3>1. m.memory = FramesMemory(m.frames) + 0 /\ FramesMemory(m.frames) = below + own
      BY <2>1, <2>2
    <3> HIDE DEF below
    <3> QED BY <1>1, <1>5, <2>4, <2>5, <2>3, <3>1
  <2> HIDE DEF x, size, below, own, front
  <2>8. d.memory - x = below /\ ~ x > d.memory
    BY <2>3, <2>4, <2>5, <2>6, <2>7
  <2>9. s = [d EXCEPT !.memory = @ - x]
    BY <1>5, <2>8 DEF Release
  <2> HIDE DEF s
  <2>10. /\ DOMAIN s = MachineFields /\ s.limits = m.limits /\ s.prior = m.prior
         /\ s.calls = m.calls /\ s.peak = m.peak /\ s.outcome = d.outcome
         /\ s.frames = d.frames /\ s.memory = below
    BY <1>1, <2>8, <2>9 DEF MachineFields
  <2>11. /\ DOMAIN r = MachineFields /\ r.limits = m.limits /\ r.prior = m.prior
         /\ r.calls = m.calls /\ r.peak = m.peak /\ r.outcome = d.outcome
         /\ r.frames = t /\ r.memory = below
    BY <1>1, <1>5, <2>10 DEF MachineFields
  <2> HIDE DEF r, t
  <2>12. Marks("engine", m.frames) = Marks("engine", t) \o MarkOf("engine", f)
    BY <2>1, <2>2, MarksOf DEF t
  <2>13. Len(r.calls) = Len(r.frames) - Len(Marks("engine", r.frames))
    <3> DEFINE rest   == Marks("engine", t)
               mark   == MarkOf("engine", f)
               calls  == Len(m.calls)
               marks  == Len(rest)
    <3>1. IsSequence(rest) /\ marks \in Nat /\ calls \in Nat
      BY <2>1, <2>2, MarksAreFew, SequenceFacts DEF AreFrames, t
    <3>2. IsSequence(mark) /\ Len(mark) = 1
      <4>1. mark = <<[callable |-> f.callable, entered |-> f.entered]>>
        BY DEF MarkOf, EngineFrames
      <4>2. IsSequence(mark)
        BY MarkFacts
      <4> QED BY <4>1, <4>2
    <3> HIDE DEF rest, mark
    <3>3. Len(rest \o mark) = marks + 1
      <4>1. Len(rest \o mark) = Len(rest) + Len(mark)
        BY <3>1, <3>2, ConcatFacts
      <4> QED BY <3>2, <4>1
    <3>4. Len(Marks("engine", m.frames)) = marks + 1
      BY <2>12, <3>3 DEF rest, mark
    <3>5. calls = n - (marks + 1)
      BY <2>1, <3>4
    <3>6. Len(r.calls) = calls /\ Len(r.frames) = n - 1 /\ Len(Marks("engine", r.frames)) = marks
      BY <2>2, <2>11 DEF rest, t
    <3> HIDE DEF calls, marks, n
    <3>7. calls = (n - 1) - marks
      BY <2>2, <3>1, <3>5
    <3> QED BY <3>6, <3>7
  <2>14. Grounded(r.frames) /\ r.frames # <<>>
    <3>1. Grounded(t)
      BY <2>1, GroundedStack DEF t
    <3>2. n # 1
      BY <2>1, <2>2 DEF Grounded
    <3>3. Len(t) # 0
      BY <2>2, <3>2 DEF t
    <3>4. t # <<>>
      BY <3>3
    <3> QED BY <2>11, <3>1, <3>4
  <2>15. r.memory = FramesMemory(r.frames) + 0 /\ r.memory <= r.peak
    BY <2>1, <2>3, <2>4, <2>5, <2>7, <2>11 DEF below
  <2>16. Live(r, 0)
    BY <2>1, <2>2, <2>11, <2>13, <2>14, <2>15 DEF Live, t
  <2>17. Running(r) /\ Marked(r, b)
    BY <1>2, <1>5, <2>11 DEF Running, Marked, t
  <2>18. Reckoned(r, 0, b)
    BY <1>2, <1>3, <2>11, <2>16, <2>17 DEF Reckoned, OfRoot
  <2> QED BY <2>3, <2>14, <2>17, <2>18 DEF r, s, x, d, p, b, v
<1> QED
  BY <1>4, <1>5, <1>1 DEF d

(* complete_frame of a root.                                               *)
LEMMA RootFinished ==
  ASSUME NEW m, NEW w, Reckoned(m, 0, w), Running(m), m.frames # <<>>, NEW controls, NEW v
  PROVE  LET d == PopValue(WithControls(m, controls))
             r == Fail([d EXCEPT !.memory = @ - 64, !.frames = <<>>], "Completed", v)
         IN Reckoned(r, 0, w) /\ r.outcome.kind \in {"Completed", "Defect"}
<1> DEFINE d == PopValue(WithControls(m, controls))
           s == [d EXCEPT !.memory = @ - 64, !.frames = <<>>]
           r == Fail(s, "Completed", v)
<1>1. /\ DOMAIN d = MachineFields /\ d.limits = m.limits /\ d.prior = m.prior
      /\ d.peak = m.peak /\ (Running(d) \/ d.outcome.kind = "Defect")
  BY LastPopped
<1>2. OfRoot(m, w) /\ m.peak <= m.limits.memory
  BY DEF Reckoned, Live
<1> HIDE DEF d
<1>3. /\ DOMAIN s = MachineFields /\ s.limits = m.limits /\ s.prior = m.prior
      /\ s.peak = m.peak /\ s.outcome = d.outcome
  BY <1>1 DEF MachineFields
<1> HIDE DEF s
<1>4. CASE Running(s)
  <2>1. r = [s EXCEPT !.outcome = [kind |-> "Completed", of |-> v]]
    BY <1>4 DEF Fail
  <2> HIDE DEF r
  <2>2. /\ DOMAIN r = MachineFields /\ r.limits = m.limits /\ r.prior = m.prior
        /\ r.peak = m.peak /\ r.outcome = [kind |-> "Completed", of |-> v]
    BY <1>3, <2>1 DEF MachineFields
  <2>3. r.outcome.kind = "Completed" /\ ~ Running(r)
    BY <2>2 DEF Running
  <2>4. Stopped(r)
    BY <1>2, <2>2, <2>3 DEF Stopped
  <2> QED BY <1>2, <2>2, <2>3, <2>4 DEF Reckoned, OfRoot, r, s, d
<1>5. CASE ~ Running(s)
  <2>1. r = s
    BY <1>5 DEF Fail
  <2> HIDE DEF r
  <2>2. r.outcome.kind = "Defect" /\ ~ Running(r)
    BY <1>1, <1>3, <1>5, <2>1 DEF Running
  <2>3. Stopped(r)
    BY <2>2 DEF Stopped
  <2> QED BY <1>2, <1>3, <2>1, <2>2, <2>3 DEF Reckoned, OfRoot, r, s, d
<1> QED
  BY <1>4, <1>5

(* Memory in use for a moment is not charged.                              *)
LEMMA ObservedAccounted ==
  ASSUME NEW m, NEW w, Accounted(m, 0, w), Running(m), NEW amount \in Int
  PROVE  Accounted(Observed(m, amount), 0, w)
<1> DEFINE now  == m.memory + amount
           peak == IF now > m.peak THEN now ELSE m.peak
           s    == [m EXCEPT !.peak = IF now > @ THEN now ELSE @]
           r    == Observed(m, amount)
<1>1. /\ DOMAIN m = MachineFields /\ m.peak \in Int /\ m.memory <= m.peak
      /\ m.peak <= m.limits.memory /\ m.limits.memory \in Nat /\ AreFrames(m.frames)
      /\ m.memory = FramesMemory(m.frames) + 0 /\ OfRoot(m, w)
  BY DEF Accounted, Reckoned, Live, OfRoot, Ceilings
<1>2. m.memory \in Int
  BY <1>1, MemoryOfFrames
<1>3. /\ peak \in Int /\ m.memory <= peak /\ now <= peak
      /\ ~ now > m.limits.memory => peak <= m.limits.memory
  BY <1>1, <1>2
<1>4. /\ DOMAIN s = MachineFields /\ s.limits = m.limits /\ s.prior = m.prior
      /\ s.frames = m.frames /\ s.calls = m.calls /\ s.memory = m.memory
      /\ s.peak = peak /\ s.outcome = m.outcome
  BY <1>1 DEF MachineFields
<1>5. r = IF now > m.limits.memory THEN Fail(s, "LimitExceeded", "RootMemory") ELSE s
  BY DEF Observed
<1>6. now \in Int
  BY <1>2
<1> HIDE DEF s, peak, now, r
<1>7. Running(s)
  BY <1>4 DEF Running
<1>8. CASE now > m.limits.memory
  <2>1. r = [s EXCEPT !.outcome = [kind |-> "LimitExceeded", of |-> "RootMemory"]]
    BY <1>5, <1>7, <1>8 DEF Fail
  <2>2. /\ DOMAIN r = MachineFields /\ r.limits = m.limits /\ r.prior = m.prior
        /\ r.peak = peak /\ r.outcome = [kind |-> "LimitExceeded", of |-> "RootMemory"]
    BY <1>4, <2>1 DEF MachineFields
  <2>3. peak > m.limits.memory
    BY <1>1, <1>3, <1>6, <1>8
  <2>4. ~ Running(r) /\ Stopped(r)
    BY <2>2, <2>3 DEF Running, Stopped
  <2> QED BY <1>1, <2>2, <2>4 DEF Accounted, Reckoned, OfRoot, r
<1>9. CASE ~ now > m.limits.memory
  <2>1. r = s
    BY <1>5, <1>9
  <2>2. Live(s, 0)
    BY <1>1, <1>3, <1>4, <1>9 DEF Accounted, Reckoned, Live
  <2>3. Marked(s, w) /\ Topped(s, w)
    BY <1>4 DEF Accounted, Reckoned, Marked, Topped, Top, Depth
  <2>4. Accounted(s, 0, w)
    BY <1>1, <1>4, <1>7, <2>2, <2>3 DEF Accounted, Reckoned, OfRoot
  <2> QED BY <2>1, <2>4 DEF r
<1> QED
  BY <1>8, <1>9

-----------------------------------------------------------------------------
(***************************************************************************)
(* The inductive invariant.                                                *)
(***************************************************************************)

(* A constant that completed; a request that met a defect ends with what   *)
(* it left.                                                                *)
IsCached(c) == IsValue(c.value) /\ c.fuel \in Nat /\ c.peak \in Int

CacheOK == roots # <<>> /\ machine.outcome.kind # "Defect" =>
             \A id \in DOMAIN cache : IsCached(cache[id])

(* The constants being evaluated differ, and none of them is known yet;    *)
(* each remembers how much of the root's fuel was charged when it was met. *)
Distinct(ids, known) ==
  /\ \A i, j \in DOMAIN ids : ids[i] = ids[j] => i = j
  /\ \A i \in DOMAIN ids : ids[i] \notin known

Enters(marks, spent) ==
  \A i \in DOMAIN marks : marks[i].callable = "constant" =>
    marks[i].entered.fuel \in 0..spent /\ marks[i].entered.peak \in Int

StackOK == Running(machine) =>
             /\ evaluating = Marks("constant", machine.frames)
             /\ Distinct(evaluating, DOMAIN cache)
             /\ Enters(Marks("engine", machine.frames), fuel)

(* The memory of the constants that completed is over the ceiling.         *)
Full == machine.outcome.kind = "LimitExceeded" /\ machine.outcome.of = "CompilationMemory"

(* Nothing was charged to this root yet: what comes next is, or it is the  *)
(* constant that the root names.                                           *)
Uncharged == /\ Running(machine) /\ fuel = 0
             /\ machine.frames = <<>> \/ Control.op \in {"Expression", "Constant"}

PaidOK == Running(machine) \/ machine.outcome.kind = "Completed" => Within \/ Uncharged

(* What the receipts of the roots before say of the fuel that was used.    *)
Recorded(s, prior, limits) ==
  /\ AreFuelled(s) /\ FuelTo(s, Len(s)) <= prior
  /\ \A i \in DOMAIN s :
       Failed(s[i], "LimitExceeded", "CompilationFuel") => prior > limits.compilationFuel
  /\ \A i \in DOMAIN s :
       Completed(s[i]) =>
         /\ s[i].fuel <= limits.fuel /\ s[i].peak <= limits.memory
         /\ FuelTo(s, i) <= limits.compilationFuel
         /\ \A j \in 1..i : ~ Failed(s[j], "LimitExceeded", "CompilationFuel")

TablesOK == AreRoots(roots) /\ \A id \in Identities : constants[id].value \in Code

EInv == /\ IsProgram(program) /\ fuel \in Nat /\ machine.prior \in Nat /\ Limits \in Ceilings
        /\ MachineOK \/ OutOfFuel \/ Full
        /\ TablesOK /\ CacheOK /\ StackOK /\ PaidOK
        /\ roots = <<>> => machine.frames = <<>>
        /\ Recorded(receipts, machine.prior, Limits)

(* What every handler starts from, and what it has to leave.               *)
LEMMA Works ==
  ASSUME EInv, Running(machine)
  PROVE  /\ MachineOK /\ IsProgram(program) /\ fuel \in Nat /\ machine.prior \in Nat
         /\ Limits \in Ceilings /\ DOMAIN machine = MachineFields
         /\ evaluating = Bearings.ids /\ Distinct(evaluating, DOMAIN cache)
         /\ Enters(Bearings.open, fuel) /\ (Within \/ Uncharged)
         /\ roots # <<>> => \A id \in DOMAIN cache : IsCached(cache[id])
<1>1. MachineOK
  BY DEF EInv, OutOfFuel, Full, Running
<1>2. DOMAIN machine = MachineFields
  BY <1>1 DEF MachineOK, Reckoned, OfRoot
<1> QED
  BY <1>1, <1>2 DEF EInv, StackOK, PaidOK, CacheOK, Running, Bearings

LEMMA Worked ==
  ASSUME EInv, Running(machine), roots # <<>>,
         program' = program, constants' = constants, roots' = roots, receipts' = receipts,
         fuel' \in Nat, machine'.prior = machine.prior, machine'.limits = machine.limits,
         MachineOK' \/ OutOfFuel' \/ Full', CacheOK', StackOK', PaidOK'
  PROVE  EInv'
  BY DEF EInv, TablesOK, Limits

(* A handler that is charged and opens no frame of the engine.             *)
LEMMA KeptWorks ==
  ASSUME EInv, Charged, Running(machine), Depth(machine) > 0 => Control.op # "Constant",
         MachineOK /\ IsProgram(program) => Keeps, roots # <<>>, UNCHANGED engineVars
  PROVE  EInv'
<1>1. Tariff \in Nat
  BY TariffIsNatural
<1>2. /\ MachineOK /\ IsProgram(program) /\ fuel \in Nat /\ machine.prior \in Nat
      /\ Limits \in Ceilings
      /\ evaluating = Bearings.ids /\ Distinct(evaluating, DOMAIN cache)
      /\ Enters(Bearings.open, fuel) /\ (Within \/ Uncharged)
      /\ \A id \in DOMAIN cache : IsCached(cache[id])
  BY <1>1, Works
<1>3. Reckoned(machine', 0, Bearings) /\ program' = program
  BY <1>2 DEF Keeps
<1>4. /\ MachineOK' /\ machine'.limits = machine.limits /\ machine'.prior = machine.prior
      /\ Running(machine)' => Bearings'.open = Bearings.open /\ Bearings'.ids = Bearings.ids
  BY <1>3, OwnBearings DEF Bearings
<1>5. fuel' \in Nat /\ fuel' = fuel + Tariff /\ fuel <= fuel'
  BY <1>1, <1>2 DEF Charged
<1>6. Within'
  <2>1. CASE Tariff > 0
    <3>1. Affordable(Tariff)
      BY <1>1, <2>1 DEF Charged, Payable
    <3>2. machine.prior + fuel + Tariff = machine.prior + fuel'
      BY <1>1, <1>2, <1>5
    <3>3. fuel' <= Limits.fuel /\ machine.prior + fuel' <= Limits.compilationFuel
      BY <1>5, <3>1, <3>2 DEF Affordable
    <3> QED BY <1>4, <3>3 DEF Within, Limits
  <2>2. CASE ~ Tariff > 0
    <3>1. Tariff = 0 /\ fuel' = fuel
      BY <1>1, <1>2, <1>5, <2>2
    <3>2. Depth(machine) # 0 /\ Control.op # "Expression"
      BY <3>1 DEF Tariff
    <3>3. machine.frames # <<>> /\ Depth(machine) \in Nat
      <4>1. IsSequence(machine.frames)
        BY <1>1, <1>2 DEF MachineOK, Reckoned, Live, AreFrames
      <4>2. Depth(machine) \in Nat
        BY <4>1, SequenceFacts DEF Depth
      <4> QED BY <3>2, <4>2 DEF Depth
    <3>4. ~ Uncharged
      BY <1>1, <3>2, <3>3 DEF Uncharged
    <3> QED BY <1>2, <1>4, <3>1, <3>4 DEF Within, Limits
  <2> QED BY <2>1, <2>2
<1>7. UNCHANGED <<constants, roots, receipts, cache, evaluating>>
  BY DEF engineVars
<1>8. StackOK'
  <2>1. ASSUME Running(machine)' PROVE Enters(Bearings.open, fuel')
    BY <1>2, <1>5 DEF Enters
  <2> QED BY <1>2, <1>4, <1>7, <2>1 DEF StackOK, Bearings
<1>9. CacheOK' /\ PaidOK'
  BY <1>2, <1>6, <1>7 DEF CacheOK, PaidOK
<1> QED
  BY <1>1, <1>3, <1>4, <1>5, <1>7, <1>8, <1>9, Worked

LEMMA StepWorks ==
  ASSUME EInv, Steps, roots # <<>>, UNCHANGED engineVars
  PROVE  EInv'
<1>1. Charged /\ Running(machine) /\ (Depth(machine) > 0 => Control.op # "Constant")
  BY StepsCharge
<1>2. MachineOK /\ IsProgram(program) => Keeps
  BY StepsKeep
<1> QED
  BY <1>1, <1>2, KeptWorks

LEMMA RefusalWorks ==
  ASSUME EInv, Refused, roots # <<>>, UNCHANGED engineVars
  PROVE  EInv'
<1>1. Running(machine)
  BY DEF Refused
<1>2. /\ fuel \in Nat /\ machine.prior \in Nat /\ Limits \in Ceilings
      /\ DOMAIN machine = MachineFields /\ \A id \in DOMAIN cache : IsCached(cache[id])
  BY <1>1, Works
<1>3. /\ OutOfFuel' /\ fuel' \in Nat /\ program' = program /\ ~ Running(machine)'
      /\ machine'.prior = machine.prior /\ machine'.limits = machine.limits
      /\ machine'.outcome.kind \in {"Cancelled", "LimitExceeded"}
  BY <1>2, RefusedFails
<1>4. UNCHANGED <<constants, roots, receipts, cache>>
  BY DEF engineVars
<1>5. StackOK' /\ CacheOK' /\ PaidOK'
  BY <1>2, <1>3, <1>4 DEF StackOK, CacheOK, PaidOK
<1> QED
  BY <1>1, <1>3, <1>4, <1>5, Worked

(* What is evaluated is a root.                                            *)
LEMMA Rooted ==
  ASSUME EInv, NEW op, At(op)
  PROVE  Running(machine) /\ machine.frames # <<>> /\ roots # <<>> /\ Control.op = op
<1>1. Running(machine) /\ Depth(machine) > 0 /\ Control.op = op
  BY DEF At
<1>2. machine.frames # <<>>
  BY <1>1 DEF Depth
<1> QED
  BY <1>1, <1>2 DEF EInv

LEMMA ReadConstantWorks == ASSUME EInv, ReadConstant PROVE EInv'
<1> DEFINE c == ConstantOf(Control.expression.id)
           m == Push(Popped, <<c>>)
           op == "Expression"
<1>1. At(op) /\ Becomes(m) /\ Control.expression.kind = "Constant" /\ UNCHANGED engineVars
  BY DEF ReadConstant, AtExpr
<1> HIDE DEF m, op
<1>2. /\ Running(machine) /\ roots # <<>> /\ Control.op = op /\ Charged
  BY <1>1, Rooted DEF Becomes
<1>3. ASSUME MachineOK PROVE Keeps
  <2>1. op \notin {"FinishRoot", "FinishConstant"}
    BY DEF op
  <2>2. /\ Accounted(Popped, 0, Bearings) /\ IsControl(Control) /\ Control.op = op
    BY <1>1, <1>3, <2>1, Pops
  <2>3. Control.expression \in Code
    BY <2>2 DEF IsControl, op
  <2>4. Control.expression.id \in Identities
    BY <1>1, <2>3, CodeAssumption DEF IsHirExpression
  <2>5. IsControl(c) /\ IsPlain(c)
    BY <2>4 DEF ConstantOf, IsControl, IsPlain, FinishOp
  <2> HIDE DEF c
  <2>6. Accounted(m, 0, Bearings)
    BY <2>2, <2>5, PushesOne DEF m
  <2> QED BY <1>1, <2>6, BecomesKeeps
<1> QED
  BY <1>1, <1>2, <1>3, KeptWorks DEF op

LEMMA FailedParts ==
  ASSUME NEW m, NEW w, OfRoot(m, w), Running(m), NEW kind, NEW of
  PROVE  LET r == Fail(m, kind, of)
         IN /\ OfRoot(r, w) /\ r.limits = w.limits /\ r.prior = w.prior /\ r.peak = m.peak
            /\ r.outcome.kind = kind /\ r.outcome.of = of
<1> DEFINE r == Fail(m, kind, of)
<1>1. r = [m EXCEPT !.outcome = [kind |-> kind, of |-> of]]
  BY DEF Fail
<1> HIDE DEF r
<1>2. /\ DOMAIN r = MachineFields /\ r.limits = m.limits /\ r.prior = m.prior /\ r.peak = m.peak
      /\ r.outcome = [kind |-> kind, of |-> of]
  BY <1>1 DEF OfRoot, MachineFields
<1> QED
  BY <1>2 DEF OfRoot, r

LEMMA ReadCachedWorks == ASSUME EInv, ReadCached PROVE EInv'
<1> DEFINE op     == "Constant"
           cached == cache[Control.id]
           m      == Observed(Popped, cached.peak)
           n      == IF Running(m) THEN PushValue(m, cached.value) ELSE m
           over   == IF machine.prior + fuel + cached.fuel > Limits.compilationFuel
                     THEN "CompilationFuel" ELSE "RootFuel"
<1>1. /\ At(op) /\ Control.id \in DOMAIN cache
      /\ fuel' = IF cancelled THEN fuel ELSE fuel + cached.fuel
      /\ UNCHANGED <<program, constants, roots, receipts, cache, evaluating>>
  BY DEF ReadCached
<1>2. /\ cancelled => machine' = Fail(Popped, "Cancelled", "")
      /\ ~ cancelled /\ ~ Affordable(cached.fuel) => machine' = Fail(Popped, "LimitExceeded", over)
      /\ ~ cancelled /\ Affordable(cached.fuel) => machine' = n
  BY DEF ReadCached
<1> HIDE DEF op, n, over
<1>3. Running(machine) /\ roots # <<>> /\ Control.op = op
  BY <1>1, Rooted
<1>4. /\ MachineOK /\ fuel \in Nat /\ machine.prior \in Nat /\ Limits \in Ceilings
      /\ evaluating = Bearings.ids /\ Distinct(evaluating, DOMAIN cache)
      /\ Enters(Bearings.open, fuel)
      /\ \A id \in DOMAIN cache : IsCached(cache[id])
  BY <1>3, Works
<1>5. IsValue(cached.value) /\ cached.fuel \in Nat /\ cached.peak \in Int
  BY <1>1, <1>4 DEF IsCached
<1>6. Accounted(Popped, 0, Bearings) /\ Running(Popped) /\ OfRoot(Popped, Bearings)
  <2>1. op \notin {"FinishRoot", "FinishConstant"}
    BY DEF op
  <2>2. Accounted(Popped, 0, Bearings) /\ Running(Popped)
    BY <1>1, <1>4, <2>1, Pops
  <2> QED BY <2>2 DEF Accounted, Reckoned
<1>7. /\ Bearings.limits = machine.limits /\ Bearings.prior = machine.prior
      /\ Limits.fuel \in Nat /\ Limits.compilationFuel \in Nat
  BY <1>4 DEF Bearings, Ceilings
<1> HIDE DEF cached
<1>8. fuel' \in Nat /\ fuel <= fuel'
  BY <1>1, <1>4, <1>5
<1>9. CASE cancelled
  <2>1. /\ machine'.limits = machine.limits /\ machine'.prior = machine.prior
        /\ machine'.outcome.kind = "Cancelled"
    <3> DEFINE why == ""
               r   == Fail(Popped, "Cancelled", why)
    <3>1. machine' = r
      BY <1>2, <1>9
    <3> HIDE DEF why
    <3>2. /\ r.limits = Bearings.limits /\ r.prior = Bearings.prior
          /\ r.outcome.kind = "Cancelled"
      BY <1>6, FailedParts
    <3> HIDE DEF r
    <3> QED BY <1>7, <3>1, <3>2
  <2>2. OutOfFuel' /\ ~ Running(machine)'
    BY <2>1 DEF OutOfFuel, Running
  <2>3. StackOK' /\ CacheOK' /\ PaidOK'
    BY <1>1, <1>4, <2>1, <2>2 DEF StackOK, CacheOK, PaidOK
  <2> QED BY <1>1, <1>3, <1>8, <2>1, <2>2, <2>3, Worked
<1>10. CASE ~ cancelled /\ ~ Affordable(cached.fuel)
  <2>1. /\ machine'.limits = machine.limits /\ machine'.prior = machine.prior
        /\ machine'.outcome.kind = "LimitExceeded" /\ machine'.outcome.of = over
    <3> DEFINE r == Fail(Popped, "LimitExceeded", over)
    <3>1. /\ r.limits = Bearings.limits /\ r.prior = Bearings.prior
          /\ r.outcome.kind = "LimitExceeded" /\ r.outcome.of = over
      BY <1>6, FailedParts
    <3> QED BY <1>2, <1>7, <1>10, <3>1
  <2>2. \/ over = "RootFuel" /\ fuel' > Limits.fuel /\ machine.prior + fuel' <= Limits.compilationFuel
        \/ over = "CompilationFuel" /\ machine.prior + fuel' > Limits.compilationFuel
    BY <1>1, <1>4, <1>5, <1>7, <1>10 DEF Affordable, over
  <2>3. OutOfFuel' /\ ~ Running(machine)'
    BY <2>1, <2>2 DEF OutOfFuel, Limits, Running
  <2>4. StackOK' /\ CacheOK' /\ PaidOK'
    BY <1>1, <1>4, <2>1, <2>3 DEF StackOK, CacheOK, PaidOK
  <2> QED BY <1>1, <1>3, <1>8, <2>1, <2>3, <2>4, Worked
<1>11. CASE ~ cancelled /\ Affordable(cached.fuel)
  <2>1. Accounted(m, 0, Bearings)
    BY <1>5, <1>6, ObservedAccounted
  <2> HIDE DEF m
  <2>2. Accounted(n, 0, Bearings)
    BY <1>5, <2>1, GivesValue DEF n
  <2>3. Reckoned(machine', 0, Bearings)
    BY <1>2, <1>11, <2>2 DEF Accounted
  <2>4. /\ MachineOK' /\ machine'.limits = machine.limits /\ machine'.prior = machine.prior
        /\ Running(machine)' => Bearings'.open = Bearings.open /\ Bearings'.ids = Bearings.ids
    BY <1>7, <2>3, OwnBearings
  <2>5. Within'
    <3>1. machine.prior + fuel + cached.fuel = machine.prior + fuel' /\ fuel' = fuel + cached.fuel
      BY <1>1, <1>4, <1>5, <1>11
    <3> QED BY <1>11, <2>4, <3>1 DEF Within, Limits, Affordable
  <2>6. StackOK'
    <3>1. ASSUME Running(machine)' PROVE Enters(Bearings.open, fuel')
      BY <1>4, <1>8 DEF Enters
    <3> QED BY <1>1, <1>4, <2>4, <3>1 DEF StackOK, Bearings
  <2>7. CacheOK' /\ PaidOK'
    BY <1>1, <1>4, <2>5 DEF CacheOK, PaidOK
  <2> QED BY <1>1, <1>3, <1>8, <2>4, <2>6, <2>7, Worked
<1> QED
  BY <1>9, <1>10, <1>11

LEMMA EntersConcat ==
  ASSUME NEW s, IsSequence(s), NEW t, IsSequence(t), NEW spent
  PROVE  Enters(s \o t, spent) <=> Enters(s, spent) /\ Enters(t, spent)
<1> DEFINE n == Len(s)
           k == Len(t)
           Met(x) == x.callable = "constant" => x.entered.fuel \in 0..spent /\ x.entered.peak \in Int
<1>1. /\ DOMAIN (s \o t) = 1..n+k /\ \A i \in 1..n : (s \o t)[i] = s[i]
      /\ \A i \in 1..k : (s \o t)[n + i] = t[i]
      /\ n \in Nat /\ k \in Nat /\ DOMAIN s = 1..n /\ DOMAIN t = 1..k
  BY ConcatFacts, SequenceFacts
<1>2. \A u : Enters(u, spent) <=> \A i \in DOMAIN u : Met(u[i])
  BY DEF Enters
<1> HIDE DEF n, k, Met
<1>3. ASSUME \A i \in 1..n+k : Met((s \o t)[i])
      PROVE  (\A i \in 1..n : Met(s[i])) /\ \A i \in 1..k : Met(t[i])
  <2>1. ASSUME NEW i \in 1..n PROVE Met(s[i])
    <3>1. i \in 1..n+k
      BY <1>1
    <3> QED BY <1>1, <1>3, <3>1
  <2>2. ASSUME NEW i \in 1..k PROVE Met(t[i])
    <3>1. n + i \in 1..n+k
      BY <1>1
    <3> QED BY <1>1, <1>3, <3>1
  <2> QED BY <2>1, <2>2
<1>4. ASSUME \A i \in 1..n : Met(s[i]), \A i \in 1..k : Met(t[i]), NEW i \in 1..n+k
      PROVE  Met((s \o t)[i])
  <2>1. CASE i \in 1..n
    BY <1>1, <1>4, <2>1
  <2>2. CASE i \notin 1..n
    <3>1. i - n \in 1..k /\ n + (i - n) = i
      BY <1>1, <2>2
    <3> QED BY <1>1, <1>4, <3>1
  <2> QED BY <2>1, <2>2
<1> QED
  BY <1>1, <1>2, <1>3, <1>4

LEMMA DistinctAppend ==
  ASSUME NEW ids, IsSequence(ids), NEW known, NEW id
  PROVE  /\ Append(ids, id) = ids \o <<id>>
         /\ Distinct(ids, known) /\ id \notin known /\ id \notin ToSet(ids)
              => Distinct(Append(ids, id), known)
         /\ Distinct(Append(ids, id), known) => Distinct(ids, known \cup {id})
<1> DEFINE t == Append(ids, id)
           n == Len(ids)
<1>1. /\ IsSequence(t) /\ Len(t) = n + 1 /\ \A i \in 1..n : t[i] = ids[i]
      /\ t[n + 1] = id /\ n \in Nat /\ DOMAIN ids = 1..n
  BY AppendFacts, SequenceFacts
<1>2. DOMAIN t = 1..n+1
  BY <1>1, SequenceFacts
<1>3. t = ids \o <<id>>
  <2>1. ids \in Seq(ToSet(ids))
    BY SequenceFacts
  <2>2. ids \in Seq(ToSet(ids) \cup {id}) /\ id \in ToSet(ids) \cup {id}
    BY <2>1
  <2> QED BY <2>2
<1> HIDE DEF t, n
<1>4. \A i \in 1..n+1 : i \in 1..n \/ i = n + 1
  BY <1>1
<1>5. n + 1 \notin 1..n /\ 1..n \subseteq 1..n+1 /\ n + 1 \in 1..n+1
  BY <1>1
<1>6. \A i \in 1..n : ids[i] \in ToSet(ids)
  BY <1>1 DEF ToSet
<1>7. ASSUME Distinct(ids, known), id \notin known, id \notin ToSet(ids) PROVE Distinct(t, known)
  <2>1. ASSUME NEW i \in 1..n+1, NEW j \in 1..n+1, t[i] = t[j] PROVE i = j
    BY <1>1, <1>4, <1>6, <1>7, <2>1 DEF Distinct
  <2>2. ASSUME NEW i \in 1..n+1 PROVE t[i] \notin known
    BY <1>1, <1>4, <1>7 DEF Distinct
  <2> QED BY <1>2, <2>1, <2>2 DEF Distinct
<1>8. ASSUME Distinct(t, known) PROVE Distinct(ids, known \cup {id})
  <2>1. ASSUME NEW i \in 1..n PROVE ids[i] \notin known /\ ids[i] # id
    <3>1. i \in 1..n+1 /\ i # n + 1 /\ t[i] = ids[i]
      BY <1>1, <1>5
    <3> QED BY <1>1, <1>2, <1>5, <1>8, <3>1 DEF Distinct
  <2>2. ASSUME NEW i \in 1..n, NEW j \in 1..n, ids[i] = ids[j] PROVE i = j
    <3>1. i \in 1..n+1 /\ j \in 1..n+1 /\ t[i] = t[j]
      BY <1>1, <1>5, <2>2
    <3> QED BY <1>2, <1>8, <3>1 DEF Distinct
  <2> QED BY <1>1, <2>1, <2>2 DEF Distinct
<1> QED
  BY <1>3, <1>7, <1>8 DEF t

LEMMA ShortSequences ==
  ASSUME NEW x, NEW y
  PROVE  /\ IsSequence(<<x>>) /\ DOMAIN <<x>> = {1} /\ <<x>>[1] = x
         /\ IsSequence(<<x, y>>) /\ DOMAIN <<x, y>> = {1, 2}
         /\ <<x, y>>[1] = x /\ <<x, y>>[2] = y
<1>1. /\ <<x>> \in Seq({x, y}) /\ <<x, y>> \in Seq({x, y})
  OBVIOUS
<1>2. IsSequence(<<x>>) /\ IsSequence(<<x, y>>)
  BY <1>1, SequenceOf
<1> QED
  BY <1>2

(* No memory is left for a frame.                                          *)
LEMMA NotOpened ==
  ASSUME NEW m, Running(m), DOMAIN m = MachineFields, NEW kind, NEW controls, NEW entered
  PROVE  LET r == OpenFrame(m, kind, controls, entered)
         IN Running(r) \/ r.outcome.kind = "LimitExceeded"
<1> DEFINE now  == m.memory + 64
           peak == IF now > m.peak THEN now ELSE m.peak
           kept == [m EXCEPT !.memory = now, !.peak = peak]
           r == Retain(m, 64)
           f == EngineFrame(kind, controls, entered)
           s == [r EXCEPT !.frames = Append(r.frames, f)]
<1>1. OpenFrame(m, kind, controls, entered) = IF Running(r) THEN s ELSE r
  BY DEF OpenFrame, WithFrame, EngineFrame
<1>2. r = kept \/ r = Fail(kept, "LimitExceeded", "RootMemory")
  BY DEF Retain
<1> HIDE DEF now, peak, r, f
<1>3. DOMAIN kept = MachineFields /\ kept.outcome = m.outcome
  BY DEF MachineFields
<1> HIDE DEF kept
<1>4. Running(kept)
  BY <1>3 DEF Running
<1>5. CASE r = kept
  <2>1. s.outcome = r.outcome
    BY <1>3, <1>5 DEF MachineFields
  <2>2. Running(s)
    BY <1>3, <1>4, <1>5, <2>1 DEF Running
  <2> QED BY <1>1, <1>4, <1>5, <2>2
<1>6. CASE r = Fail(kept, "LimitExceeded", "RootMemory")
  <2>1. r = [kept EXCEPT !.outcome = [kind |-> "LimitExceeded", of |-> "RootMemory"]]
    BY <1>4, <1>6 DEF Fail
  <2>2. r.outcome = [kind |-> "LimitExceeded", of |-> "RootMemory"]
    BY <1>3, <2>1 DEF MachineFields
  <2>3. r.outcome.kind = "LimitExceeded"
    BY <2>2
  <2> QED BY <1>1, <2>3 DEF Running
<1> QED
  BY <1>2, <1>5, <1>6

LEMMA EnterConstantWorks == ASSUME EInv, EnterConstant PROVE EInv'
<1> DEFINE id       == Control.id
           cycle    == id \in ToSet(evaluating)
           peak     == Retain(Popped, 64).peak
           entered  == [id |-> id, fuel |-> fuel, peak |-> peak, dependencies |-> dependencies]
           controls == <<[op |-> "FinishConstant"], Expr(constants[id].value)>>
           kind     == "constant"
           m        == OpenFrame(Popped, kind, controls, entered)
           op       == "Constant"
           why      == "ConstantDependencyCycle"
<1>1. /\ At(op) /\ id \notin DOMAIN cache
      /\ evaluating' = IF cycle THEN evaluating ELSE Append(evaluating, id)
      /\ UNCHANGED <<program, fuel, constants, roots, receipts, cache>>
  BY DEF EnterConstant, Continues
<1>2. /\ cycle => machine' = Fail(Popped, "CreatorRejected", why)
      /\ ~ cycle => machine' = m
  BY DEF EnterConstant, Continues
<1> HIDE DEF op, why, cycle
<1>3. Running(machine) /\ roots # <<>> /\ Control.op = op
  BY <1>1, Rooted
<1>4. /\ MachineOK /\ fuel \in Nat /\ machine.prior \in Nat /\ Limits \in Ceilings
      /\ evaluating = Bearings.ids /\ Distinct(evaluating, DOMAIN cache)
      /\ Enters(Bearings.open, fuel) /\ (Within \/ Uncharged)
      /\ \A c \in DOMAIN cache : IsCached(cache[c])
  BY <1>3, Works
<1>5. Accounted(Popped, 0, Bearings) /\ Running(Popped) /\ IsControl(Control)
  <2>1. op \notin {"FinishRoot", "FinishConstant"}
    BY DEF op
  <2> QED BY <1>1, <1>4, <2>1, Pops
<1>6. Bearings.limits = machine.limits /\ Bearings.prior = machine.prior
  BY DEF Bearings
<1>7. id \in Identities /\ constants[id].value \in Code
  <2>1. id \in Identities
    BY <1>3, <1>5 DEF IsControl, op
  <2> QED BY <2>1 DEF EInv, TablesOK
<1>8. Within \/ fuel = 0
  BY <1>4 DEF Uncharged
<1>9. CASE cycle
  <2>1. machine' = Fail(Popped, "CreatorRejected", why)
    BY <1>2, <1>9
  <2>2. Reckoned(machine', 0, Bearings) /\ ~ Running(machine)'
    <3> DEFINE r == Fail(Popped, "CreatorRejected", why)
    <3>1. Accounted(r, 0, Bearings) /\ r.outcome.kind = "CreatorRejected"
      BY <1>5, Fails, FailedParts DEF Accounted, Reckoned
    <3> HIDE DEF r
    <3>2. ~ Running(r)
      BY <3>1 DEF Running
    <3> QED BY <2>1, <3>1, <3>2 DEF Accounted, r, Running
  <2>3. MachineOK' /\ machine'.limits = machine.limits /\ machine'.prior = machine.prior
    BY <1>6, <2>2, OwnBearings
  <2>4. machine'.outcome.kind = "CreatorRejected"
    <3> DEFINE r == Fail(Popped, "CreatorRejected", why)
    <3>1. r.outcome.kind = "CreatorRejected"
      BY <1>5, FailedParts DEF Accounted, Reckoned
    <3> QED BY <2>1, <3>1
  <2>5. StackOK' /\ CacheOK' /\ PaidOK'
    BY <1>1, <1>4, <2>2, <2>4 DEF StackOK, CacheOK, PaidOK
  <2> QED BY <1>1, <1>3, <1>4, <2>3, <2>5, Worked
<1>10. CASE ~ cycle
  <2> DEFINE f == EngineFrame(kind, controls, entered)
             w == Above(Bearings, f)
  <2>1. Guarded(kind, controls)
    <3> DEFINE last == Expr(constants[id].value)
    <3>1. IsControl(last) /\ IsPlain(last)
      BY <1>7, ExpressionControl DEF IsPlain, Expr
    <3> HIDE DEF last
    <3>2. /\ IsSequence(controls) /\ DOMAIN controls = {1, 2} /\ controls # <<>>
          /\ controls[1].op = "FinishConstant" /\ controls[2] = last
      BY ShortSequences DEF last
    <3> HIDE DEF controls
    <3> QED BY <3>1, <3>2 DEF Guarded, Ending
  <2>2. kind \in EngineFrames /\ Popped.frames # <<>> /\ Reckoned(Popped, 0, Bearings)
    BY <1>5 DEF EngineFrames, Accounted, Topped
  <2>3. f.callable = kind /\ f.entered = entered /\ f.controls = controls
    BY <2>1, <2>2, EngineFrameFacts
  <2>4. peak \in Int \/ ~ Running(Retain(Popped, 64))
    <3> DEFINE r    == Retain(Popped, 64)
               zero == 0
    <3>1. Reckoned(Popped, zero, Bearings) /\ 64 \in Nat
      BY <2>2
    <3> HIDE DEF zero
    <3>2. Reckoned(r, zero + 64, Bearings)
      BY <3>1, RetainReckoned
    <3> QED BY <3>2 DEF Reckoned, Live
  <2>5. entered.fuel = fuel /\ entered.peak = peak /\ entered.id = id
    OBVIOUS
  <2> HIDE DEF f, entered, controls, peak
  <2>6. /\ Reckoned(m, 0, w)
        /\ Running(m) => m.frames # <<>> /\ Top(m) = f
    BY <1>5, <2>1, <2>2, OpenFrameReckoned DEF f
  <2>7. Running(m) => Running(Retain(Popped, 64))
    BY DEF OpenFrame
  <2>8. /\ w.limits = machine.limits /\ w.prior = machine.prior
        /\ w.open = Bearings.open \o <<[callable |-> kind, entered |-> entered]>>
        /\ w.ids = Bearings.ids \o <<id>>
    BY <1>6, <2>3, <2>5 DEF Above, MarkOf, EngineFrames
  <2> HIDE DEF w, m
  <2>9. machine' = m
    BY <1>2, <1>10
  <2>10. /\ MachineOK' /\ machine'.limits = machine.limits /\ machine'.prior = machine.prior
         /\ Running(machine)' => Bearings'.open = w.open /\ Bearings'.ids = w.ids
    BY <2>6, <2>8, <2>9, OwnBearings
  <2>11. IsSequence(evaluating) /\ IsSequence(Bearings.open)
    <3>1. IsSequence(machine.frames)
      BY <1>3, <1>4 DEF MachineOK, Reckoned, Live, AreFrames
    <3> QED BY <1>4, <3>1, MarksAreFew DEF Bearings
  <2>12. /\ evaluating' = evaluating \o <<id>>
         /\ Distinct(evaluating', DOMAIN cache)
    BY <1>1, <1>4, <1>10, <2>11, DistinctAppend DEF cycle
  <2>13. ASSUME Running(m) PROVE Enters(w.open, fuel)
    <3> DEFINE x    == [callable |-> kind, entered |-> entered]
               last == <<x>>
    <3>1. IsSequence(last) /\ DOMAIN last = {1} /\ last[1] = x
      <4> HIDE DEF x
      <4> QED BY ShortSequences
    <3>2. x.entered = entered
      OBVIOUS
    <3>3. fuel \in 0..fuel /\ peak \in Int
      BY <1>4, <2>4, <2>7, <2>13
    <3> HIDE DEF x, last
    <3>4. Enters(last, fuel)
      BY <2>5, <3>1, <3>2, <3>3 DEF Enters
    <3>5. w.open = Bearings.open \o last
      BY <2>8 DEF last, x
    <3> QED BY <1>4, <2>11, <3>1, <3>4, <3>5, EntersConcat
  <2>14. StackOK'
    <3>1. ASSUME Running(machine)'
          PROVE  evaluating' = Marks("constant", machine'.frames) /\ Enters(Marks("engine", machine'.frames), fuel')
      <4>1. Running(m)
        BY <2>9, <3>1 DEF Running
      <4> QED BY <1>1, <1>4, <2>8, <2>10, <2>12, <2>13, <3>1, <4>1 DEF Bearings
    <3> QED BY <1>1, <2>12, <3>1 DEF StackOK
  <2>15. PaidOK'
    <3>1. CASE Within
      BY <1>1, <2>10, <3>1 DEF PaidOK, Within, Limits
    <3>2. CASE fuel = 0 /\ Running(m)
      <4>1. Top(machine)' = f /\ Top(machine)'.controls = controls
        BY <2>3, <2>6, <2>9, <3>2 DEF Top, Depth
      <4>2. Control' = Expr(constants[id].value)
        <5>1. Control' = Last(controls)
          BY <4>1 DEF Control
        <5> QED BY <5>1 DEF controls, Last
      <4>3. Control'.op = "Expression"
        BY <4>2 DEF Expr
      <4> QED BY <1>1, <2>9, <3>2, <4>3 DEF PaidOK, Uncharged, Running
    <3>3. CASE fuel = 0 /\ ~ Running(m)
      <4>1. m.outcome.kind = "LimitExceeded"
        BY <1>5, <3>3, NotOpened DEF m, Accounted, Reckoned, OfRoot
      <4> QED BY <2>9, <3>3, <4>1 DEF PaidOK, Running
    <3> QED BY <1>8, <3>1, <3>2, <3>3
  <2>16. CacheOK'
    BY <1>1, <1>4 DEF CacheOK
  <2> QED BY <1>1, <1>3, <1>4, <2>10, <2>14, <2>15, <2>16, Worked
<1> QED
  BY <1>9, <1>10

(* The control below which a frame of the engine has none ends that frame. *)
LEMMA EndsFrame ==
  ASSUME MachineOK, NEW op \in {"FinishRoot", "FinishConstant"}, At(op)
  PROVE  Top(machine).callable \in EngineFrames /\ op = Ending(Top(machine).callable)
<1> DEFINE s == Top(machine).controls
           callable == Top(machine).callable
<1>1. /\ Running(machine) /\ Depth(machine) > 0 /\ s # <<>> /\ Last(s).op = op
  BY DEF At, Control
<1>2. machine.frames # <<>>
  BY <1>1 DEF Depth
<1>3. Accounted(machine, 0, Bearings)
  BY <1>2 DEF MachineOK, Accounted, Topped, Bearings
<1>4. Allowed(callable, s)
  BY <1>1, <1>3, TopParts DEF Bearings
<1> HIDE DEF s, callable
<1>5. CASE callable \notin EngineFrames
  <2>1. IsControl(Last(s))
    BY <1>1, <1>4, <1>5, ControlsFront DEF Allowed
  <2> QED BY <1>1, <2>1 DEF IsControl
<1>6. CASE callable \in EngineFrames
  <2>1. /\ IsSequence(s) /\ s[1].op = Ending(callable)
        /\ \A i \in DOMAIN s : i # 1 => IsControl(s[i])
    BY <1>4, <1>6 DEF Allowed, Guarded
  <2>2. Last(s) = s[Len(s)] /\ Len(s) \in DOMAIN s
    BY <1>1, <2>1, FrontFacts
  <2>3. ~ IsControl(Last(s))
    BY <1>1 DEF IsControl
  <2>4. Len(s) = 1
    BY <2>1, <2>2, <2>3
  <2> QED BY <1>1, <1>6, <2>1, <2>2, <2>4 DEF callable
<1> QED
  BY <1>5, <1>6

(* What the frame of a constant says of the bookkeeping.                   *)
LEMMA ConstantFrame ==
  ASSUME NEW frames, IsSequence(frames), frames # <<>>, Last(frames).callable = "constant",
         NEW spent \in Nat, Enters(Marks("engine", frames), spent),
         NEW known, Distinct(Marks("constant", frames), known)
  PROVE  LET entered == Last(frames).entered
             below   == Front(frames)
         IN /\ Front(Marks("constant", frames)) = Marks("constant", below)
            /\ Distinct(Marks("constant", below), known \cup {entered.id})
            /\ Enters(Marks("engine", below), spent)
            /\ entered.fuel \in 0..spent /\ entered.peak \in Int
<1> DEFINE entered == Last(frames).entered
           below   == Front(frames)
           ids     == Marks("constant", below)
           open    == Marks("engine", below)
           mark    == [callable |-> "constant", entered |-> entered]
           id      == entered.id
<1>1. IsSequence(below)
  BY FrontFacts
<1>2. IsSequence(ids) /\ IsSequence(open)
  BY <1>1, MarksAreFew
<1>3. Marks("constant", frames) = ids \o <<id>> /\ Marks("engine", frames) = open \o <<mark>>
  BY MarksOf DEF MarkOf, EngineFrames
<1>4. mark.callable = "constant" /\ mark.entered = entered
  OBVIOUS
<1> HIDE DEF ids, open, mark, id, entered
<1>5. ids \o <<id>> = Append(ids, id) /\ Front(Append(ids, id)) = ids
  BY <1>2, AppendFacts, DistinctAppend
<1>6. Distinct(ids, known \cup {id})
  <2>1. Distinct(Append(ids, id), known)
    BY <1>3, <1>5
  <2> QED BY <1>2, <2>1, DistinctAppend
<1>7. Enters(open, spent) /\ Enters(<<mark>>, spent)
  <2>1. Enters(open \o <<mark>>, spent) /\ IsSequence(<<mark>>)
    BY <1>3, ShortSequences
  <2> QED BY <1>2, <2>1, EntersConcat
<1>8. entered.fuel \in 0..spent /\ entered.peak \in Int
  <2>1. 1 \in DOMAIN <<mark>> /\ <<mark>>[1] = mark
    BY ShortSequences
  <2> QED BY <1>4, <1>7, <2>1 DEF Enters
<1> QED
  BY <1>3, <1>5, <1>6, <1>7, <1>8 DEF ids, open, id, entered

LEMMA FinishConstantWorks == ASSUME EInv, FinishConstant PROVE EInv'
<1> DEFINE op       == "FinishConstant"
           entered  == Top(machine).entered
           m        == PopValue(Popped)
           popped   == [Release(m, 64 + Sizes(Top(m).values)) EXCEPT !.frames = Front(@)]
           top      == TopValue(Popped)
           type     == constants[entered.id].type
           v        == Coerced(top, type)
           full     == retained + v.size > Limits.compilationMemory
           kept     == CachedConstant(v, entered)
           why      == "ArgumentTypeMismatch"
           w        == Below(machine, Bearings)
<1>1. /\ At(op) /\ evaluating' = Front(evaluating)
      /\ UNCHANGED <<program, fuel, constants, roots, receipts>>
  BY DEF FinishConstant, Continues
<1>2. /\ v = NoValue => /\ machine' = Fail(popped, "CreatorRejected", why) /\ cache' = cache
      /\ v # NoValue => /\ cache' = With(cache, entered.id, kept)
                        /\ machine' = IF full THEN Fail(popped, "LimitExceeded", "CompilationMemory")
                                      ELSE PushValue(popped, v)
  BY DEF FinishConstant, Overfills, Continues
<1> HIDE DEF op, full, why, type
<1>3. Running(machine) /\ machine.frames # <<>> /\ roots # <<>> /\ Control.op = op
  BY <1>1, Rooted
<1>4. /\ MachineOK /\ fuel \in Nat /\ machine.prior \in Nat /\ Limits \in Ceilings
      /\ evaluating = Bearings.ids /\ Distinct(evaluating, DOMAIN cache)
      /\ Enters(Bearings.open, fuel) /\ (Within \/ Uncharged)
      /\ \A c \in DOMAIN cache : IsCached(cache[c])
  BY <1>3, Works
<1>5. Within
  <2>1. op # "Expression" /\ op # "Constant"
    BY DEF op
  <2> QED BY <1>3, <1>4, <2>1 DEF Uncharged
<1>6. Top(machine).callable = "constant"
  <2>1. op \in {"FinishRoot", "FinishConstant"}
    BY DEF op
  <2>2. Top(machine).callable \in EngineFrames /\ op = Ending(Top(machine).callable)
    BY <1>1, <1>4, <2>1, EndsFrame
  <2> QED BY <2>2 DEF EngineFrames, Ending, op
<1>7. /\ AreFrames(machine.frames) /\ machine.peak \in Int /\ Reckoned(machine, 0, Bearings)
      /\ IsSequence(machine.frames)
  BY <1>3, <1>4 DEF MachineOK, Reckoned, Live, AreFrames
<1>8. Last(machine.frames) = Top(machine)
  BY <1>3, <1>7, FramesFront DEF Top, Depth
<1>9. /\ Reckoned(popped, 0, w) /\ (Running(popped) \/ popped.outcome.kind = "Defect")
      /\ Running(popped) => popped.frames # <<>> /\ IsValue(top)
  BY <1>3, <1>6, <1>7, ConstantClosed DEF Popped
<1>10. /\ Front(evaluating) = w.ids /\ Distinct(w.ids, DOMAIN cache \cup {entered.id})
       /\ Enters(w.open, fuel) /\ entered.fuel \in 0..fuel /\ entered.peak \in Int
  <2>1. /\ Bearings.ids = Marks("constant", machine.frames)
        /\ Bearings.open = Marks("engine", machine.frames)
        /\ w.ids = Marks("constant", Front(machine.frames))
        /\ w.open = Marks("engine", Front(machine.frames))
    BY DEF Bearings, Below
  <2> HIDE DEF w
  <2> QED BY <1>3, <1>4, <1>6, <1>7, <1>8, <2>1, ConstantFrame
<1>11. w.limits = machine.limits /\ w.prior = machine.prior
  BY DEF Below, Bearings
<1> HIDE DEF w, popped, top, m, v
<1>12. CASE ~ Running(popped)
  <2>1. machine' = popped
    <3>1. \A kind, of : Fail(popped, kind, of) = popped
      BY <1>12 DEF Fail
    <3>2. PushValue(popped, v) = popped
      BY <1>12 DEF PushValue, Retain
    <3> QED BY <1>2, <3>1, <3>2
  <2>2. MachineOK' /\ machine'.limits = machine.limits /\ machine'.prior = machine.prior
    BY <1>9, <1>11, <2>1, OwnBearings
  <2>3. machine'.outcome.kind = "Defect"
    BY <1>9, <1>12, <2>1
  <2>4. CacheOK' /\ StackOK' /\ PaidOK'
    BY <2>3 DEF CacheOK, StackOK, PaidOK, Running
  <2> QED BY <1>1, <1>3, <1>4, <2>2, <2>4, Worked
<1>13. CASE Running(popped) /\ v = NoValue
  <2>1. machine' = Fail(popped, "CreatorRejected", why) /\ cache' = cache
    BY <1>2, <1>13
  <2> DEFINE r == Fail(popped, "CreatorRejected", why)
  <2>2. Accounted(popped, 0, Under(w, Top(popped).callable))
    BY <1>9, UnderAccounted
  <2>3. Accounted(r, 0, Under(w, Top(popped).callable))
    BY <2>2, Fails
  <2>4. Reckoned(r, 0, w) /\ r.outcome.kind = "CreatorRejected"
    <3>1. r.outcome.kind = "CreatorRejected"
      BY <1>9, <1>13, FailedParts DEF Reckoned
    <3> HIDE DEF r
    <3> QED BY <2>3, <3>1, UnderReckoned DEF Accounted
  <2> HIDE DEF r
  <2>5. MachineOK' /\ machine'.limits = machine.limits /\ machine'.prior = machine.prior
    BY <1>11, <2>1, <2>4, OwnBearings DEF r
  <2>6. machine'.outcome.kind = "CreatorRejected"
    BY <2>1, <2>4 DEF r
  <2>7. CacheOK' /\ StackOK' /\ PaidOK'
    BY <1>4, <2>1, <2>6 DEF CacheOK, StackOK, PaidOK, Running
  <2> QED BY <1>1, <1>3, <1>4, <2>5, <2>7, Worked
<1>14. CASE Running(popped) /\ v # NoValue
  <2>1. IsValue(v)
    BY <1>9, <1>14, CoercedValue DEF v
  <2>2. IsCached(kept)
    <3>1. fuel - entered.fuel \in Nat /\ machine.peak - entered.peak \in Int
      BY <1>4, <1>7, <1>10
    <3> QED BY <2>1, <3>1 DEF IsCached, CachedConstant
  <2> HIDE DEF kept
  <2>3. cache' = With(cache, entered.id, kept)
    BY <1>2, <1>14
  <2>4. /\ DOMAIN cache' = DOMAIN cache \cup {entered.id}
        /\ \A c \in DOMAIN cache' : IsCached(cache'[c])
    BY <1>4, <2>2, <2>3 DEF With
  <2>5. CacheOK'
    BY <2>4 DEF CacheOK
  <2>6. CASE full
    <3> DEFINE why2 == "CompilationMemory"
               r == Fail(popped, "LimitExceeded", why2)
    <3>1. machine' = r
      BY <1>2, <1>14, <2>6
    <3>2. /\ r.limits = w.limits /\ r.prior = w.prior
          /\ r.outcome.kind = "LimitExceeded" /\ r.outcome.of = why2
      BY <1>9, <1>14, FailedParts DEF Reckoned
    <3> HIDE DEF r
    <3>3. Full' /\ ~ Running(machine)'
      BY <3>1, <3>2 DEF Full, Running
    <3>4. StackOK' /\ PaidOK'
      BY <3>1, <3>2, <3>3 DEF StackOK, PaidOK
    <3> QED BY <1>1, <1>3, <1>4, <1>11, <2>5, <3>1, <3>2, <3>3, <3>4, Worked
  <2>7. CASE ~ full
    <3> DEFINE r == PushValue(popped, v)
    <3>1. machine' = r
      BY <1>2, <1>14, <2>7
    <3>2. Accounted(popped, 0, Under(w, Top(popped).callable))
      BY <1>9, UnderAccounted
    <3>3. Accounted(r, 0, Under(w, Top(popped).callable))
      BY <2>1, <3>2, GivesValue
    <3> HIDE DEF r
    <3>4. Reckoned(r, 0, w)
      BY <3>3, UnderReckoned DEF Accounted
    <3>5. /\ MachineOK' /\ machine'.limits = machine.limits /\ machine'.prior = machine.prior
          /\ Running(machine)' => Bearings'.open = w.open /\ Bearings'.ids = w.ids
      BY <1>11, <3>1, <3>4, OwnBearings
    <3>6. StackOK'
      BY <1>1, <1>10, <2>4, <3>5 DEF StackOK, Bearings
    <3>7. PaidOK'
      BY <1>1, <1>5, <3>5 DEF PaidOK, Within, Limits
    <3> QED BY <1>1, <1>3, <1>4, <2>5, <3>5, <3>6, <3>7, Worked
  <2> QED BY <2>6, <2>7
<1> QED
  BY <1>12, <1>13, <1>14

LEMMA FinishRootWorks == ASSUME EInv, FinishRoot PROVE EInv'
<1> DEFINE op  == "FinishRoot"
           top == TopValue(Popped)
<1>1. /\ At(op) /\ UNCHANGED engineVars /\ UNCHANGED <<program, fuel>>
      /\ machine' = Fail([PopValue(Popped) EXCEPT !.memory = @ - 64, !.frames = <<>>],
                         "Completed", top)
  BY DEF FinishRoot, Continues
<1> HIDE DEF op, top
<1>2. Running(machine) /\ machine.frames # <<>> /\ roots # <<>> /\ Control.op = op
  BY <1>1, Rooted
<1>3. /\ MachineOK /\ fuel \in Nat /\ (Within \/ Uncharged)
      /\ \A c \in DOMAIN cache : IsCached(cache[c])
  BY <1>2, Works
<1>4. Within
  <2>1. op # "Expression" /\ op # "Constant"
    BY DEF op
  <2> QED BY <1>2, <1>3, <2>1 DEF Uncharged
<1>5. Reckoned(machine', 0, Bearings) /\ machine'.outcome.kind \in {"Completed", "Defect"}
  BY <1>1, <1>2, <1>3, RootFinished DEF MachineOK, Popped
<1>6. MachineOK' /\ machine'.limits = machine.limits /\ machine'.prior = machine.prior
  BY <1>5, OwnBearings DEF Bearings
<1>7. CacheOK' /\ StackOK' /\ PaidOK'
  <2>1. ~ Running(machine)'
    BY <1>5 DEF Running
  <2>2. Within'
    BY <1>1, <1>4, <1>6 DEF Within, Limits
  <2> QED BY <1>1, <1>3, <2>1, <2>2 DEF CacheOK, StackOK, PaidOK, engineVars
<1> QED
  BY <1>1, <1>2, <1>3, <1>6, <1>7, Worked DEF engineVars

(* A root that starts.                                                     *)
LEMMA StartWorks ==
  ASSUME EInv, roots # <<>>, NEW STATE control, StartWith(control),
         IsControl(control), IsPlain(control), control.op \in {"Expression", "Constant"}
  PROVE  EInv'
<1> DEFINE kind     == "root"
           controls == <<[op |-> "FinishRoot"], control>>
           none     == <<>>
           m        == OpenFrame(machine, kind, controls, none)
           f        == EngineFrame(kind, controls, none)
           w        == Above(Bearings, f)
<1>1. /\ Running(machine) /\ Depth(machine) = 0 /\ machine' = m
      /\ UNCHANGED <<program, fuel>> /\ UNCHANGED engineVars
  BY DEF StartWith, Idle, Continues
<1>2. UNCHANGED <<constants, roots, receipts, cache, evaluating>>
  BY <1>1 DEF engineVars
<1>3. /\ MachineOK /\ fuel \in Nat /\ machine.prior \in Nat /\ Limits \in Ceilings
      /\ evaluating = Bearings.ids /\ Distinct(evaluating, DOMAIN cache)
      /\ Enters(Bearings.open, fuel) /\ (Within \/ Uncharged)
      /\ DOMAIN machine = MachineFields
      /\ \A c \in DOMAIN cache : IsCached(cache[c])
  BY <1>1, Works
<1>4. Within \/ fuel = 0
  BY <1>3 DEF Uncharged
<1>5. machine.frames = <<>>
  <2>1. IsSequence(machine.frames)
    BY <1>1, <1>3 DEF MachineOK, Reckoned, Live, AreFrames
  <2>2. machine.frames \in Seq(ToSet(machine.frames)) /\ Len(machine.frames) = 0
    BY <1>1, <2>1, SequenceFacts DEF Depth
  <2> QED BY <2>2
<1>6. /\ IsSequence(controls) /\ DOMAIN controls = {1, 2} /\ controls # <<>>
      /\ controls[1].op = "FinishRoot" /\ controls[2] = control /\ Last(controls) = control
  BY ShortSequences DEF Last
<1> HIDE DEF controls, none
<1>7. Guarded(kind, controls) /\ kind \in EngineFrames
  BY <1>6 DEF Guarded, Ending, EngineFrames
<1>8. f.callable = kind /\ f.entered = none /\ f.controls = controls
  BY <1>7, EngineFrameFacts
<1> HIDE DEF f
<1>9. /\ w.limits = machine.limits /\ w.prior = machine.prior
      /\ w.open = Bearings.open \o <<[callable |-> kind, entered |-> none]>>
      /\ w.ids = Bearings.ids \o <<>>
  BY <1>8 DEF Above, MarkOf, EngineFrames, Bearings
<1>10. /\ Reckoned(m, 0, w)
       /\ Running(m) => m.frames # <<>> /\ Top(m) = f
  <2>1. Reckoned(machine, 0, Bearings) /\ kind # "constant"
    BY <1>3 DEF MachineOK
  <2> QED BY <1>1, <1>7, <2>1, OpenFrameReckoned DEF f
<1>11. Running(m) \/ m.outcome.kind = "LimitExceeded"
  BY <1>1, <1>3, NotOpened
<1> HIDE DEF w, m
<1>12. /\ MachineOK' /\ machine'.limits = machine.limits /\ machine'.prior = machine.prior
       /\ Running(machine)' => Bearings'.open = w.open /\ Bearings'.ids = w.ids
  BY <1>1, <1>9, <1>10, OwnBearings
<1>13. IsSequence(Bearings.ids) /\ IsSequence(Bearings.open)
  <2>1. IsSequence(machine.frames)
    BY <1>1, <1>3 DEF MachineOK, Reckoned, Live, AreFrames
  <2> QED BY <2>1, MarksAreFew DEF Bearings
<1>14. w.ids = Bearings.ids
  <2>1. Bearings.ids \in Seq(ToSet(Bearings.ids))
    BY <1>13, SequenceFacts
  <2> HIDE DEF Bearings
  <2>2. Bearings.ids \o <<>> = Bearings.ids
    BY <2>1
  <2> QED BY <1>9, <2>2
<1>15. Enters(w.open, fuel)
  <2> DEFINE x    == [callable |-> kind, entered |-> none]
             last == <<x>>
  <2>1. x.callable # "constant"
    OBVIOUS
  <2> HIDE DEF x
  <2>2. IsSequence(last) /\ DOMAIN last = {1} /\ last[1] = x
    BY ShortSequences
  <2> HIDE DEF last
  <2>3. Enters(last, fuel)
    BY <2>1, <2>2 DEF Enters
  <2>4. w.open = Bearings.open \o last
    BY <1>9 DEF last, x
  <2> QED BY <1>3, <1>13, <2>2, <2>3, <2>4, EntersConcat
<1>16. StackOK'
  BY <1>1, <1>2, <1>3, <1>12, <1>14, <1>15 DEF StackOK, Bearings
<1>17. PaidOK'
  <2>1. CASE Within
    BY <1>1, <1>12, <2>1 DEF PaidOK, Within, Limits
  <2>2. CASE fuel = 0 /\ Running(m)
    <3>1. Top(machine)' = f
      BY <1>1, <1>10, <2>2 DEF Top, Depth
    <3>2. Control' = control
      BY <1>6, <1>8, <3>1 DEF Control
    <3> QED BY <1>1, <2>2, <3>2 DEF PaidOK, Uncharged, Running
  <2>3. CASE ~ Running(m)
    BY <1>1, <1>11, <2>3 DEF PaidOK, Running
  <2> QED BY <1>4, <2>1, <2>2, <2>3
<1>18. CacheOK'
  BY <1>2, <1>3 DEF CacheOK
<1> QED
  BY <1>1, <1>2, <1>3, <1>12, <1>16, <1>17, <1>18, Worked

LEMMA RootTail ==
  ASSUME NEW s, AreRoots(s), s # <<>>
  PROVE  AreRoots(Tail(s)) /\ IsRoot(Head(s))
<1>1. IsSequence(s)
  BY DEF AreRoots
<1>2. /\ s \in Seq(ToSet(s)) /\ Len(s) \in Nat /\ DOMAIN s = 1..Len(s)
  BY <1>1, SequenceFacts
<1>3. /\ Tail(s) \in Seq(ToSet(s)) /\ DOMAIN Tail(s) = 1..Len(s)-1 /\ Head(s) = s[1]
      /\ \A i \in 1..Len(s)-1 : Tail(s)[i] = s[i + 1]
      /\ 1 \in DOMAIN s
  BY <1>2
<1>4. \A i \in 1..Len(s)-1 : i + 1 \in DOMAIN s
  BY <1>2
<1>5. IsSequence(Tail(s))
  BY <1>3, SequenceOf
<1> QED
  BY <1>3, <1>4, <1>5 DEF AreRoots

LEMMA StartConstantWorks == ASSUME EInv, StartConstant PROVE EInv'
<1>1. roots # <<>> /\ Root.kind = "constant" /\ StartWith(ConstantOf(Root.id))
  BY DEF StartConstant, AtRoot
<1>2. Root.id \in Identities
  BY <1>1, RootTail DEF EInv, TablesOK, IsRoot, Root
<1> DEFINE c == ConstantOf(Root.id)
<1>3. IsControl(c) /\ IsPlain(c) /\ c.op = "Constant"
  BY <1>2 DEF ConstantOf, IsControl, IsPlain, FinishOp
<1> HIDE DEF c
<1>4. StartWith(c)
  BY <1>1 DEF c
<1> QED
  BY <1>1, <1>3, <1>4, StartWorks

LEMMA StartAssertionWorks == ASSUME EInv, StartAssertion PROVE EInv'
<1>1. roots # <<>> /\ Root.kind = "assertion" /\ StartWith(Expr(Root.assertion.expression))
  BY DEF StartAssertion, AtRoot
<1>2. Root.assertion.expression \in Code
  BY <1>1, RootTail DEF EInv, TablesOK, IsRoot, Root
<1> DEFINE c == Expr(Root.assertion.expression)
<1>3. IsControl(c) /\ IsPlain(c) /\ c.op = "Expression"
  BY <1>2, ExpressionControl DEF Expr, IsPlain
<1> HIDE DEF c
<1>4. StartWith(c)
  BY <1>1 DEF c
<1> QED
  BY <1>1, <1>3, <1>4, StartWorks

(* Between two roots nothing is open.                                      *)
LEMMA RejectAssertionWorks == ASSUME EInv, RejectAssertion PROVE EInv'
<1>1. /\ roots # <<>> /\ roots' = Tail(roots) /\ Running(machine) /\ Depth(machine) = 0
      /\ UNCHANGED <<program, machine, fuel, constants, cache, evaluating, receipts>>
  BY DEF RejectAssertion, AtRoot, Idle, vars
<1>2. machine.frames = <<>>
  <2>1. IsSequence(machine.frames)
    BY <1>1, Works DEF MachineOK, Reckoned, Live, AreFrames
  <2>2. machine.frames \in Seq(ToSet(machine.frames)) /\ Len(machine.frames) = 0
    BY <1>1, <2>1, SequenceFacts DEF Depth
  <2> QED BY <2>2
<1>3. AreRoots(roots')
  BY <1>1, RootTail DEF EInv, TablesOK
<1>4. Control' = Control
  BY <1>1 DEF Control, Top, Depth
<1>5. /\ MachineOK \/ OutOfFuel \/ Full => (MachineOK \/ OutOfFuel \/ Full)'
      /\ StackOK => StackOK'
  BY <1>1 DEF MachineOK, Bearings, OutOfFuel, Full, Limits, StackOK
<1>6. /\ PaidOK => PaidOK' /\ Limits' = Limits
      /\ roots # <<>> /\ CacheOK => CacheOK'
  BY <1>1, <1>4 DEF PaidOK, Within, Uncharged, Limits, CacheOK
<1> QED
  BY <1>1, <1>2, <1>3, <1>5, <1>6 DEF EInv, TablesOK

(* What the receipts say still holds when one root more was evaluated.     *)
LEMMA RecordedMore ==
  ASSUME NEW s, NEW prior \in Nat, NEW limits \in Ceilings, Recorded(s, prior, limits),
         NEW more \in Nat
  PROVE  /\ Recorded(s, prior + more, limits)
         /\ \A r : /\ r.fuel = more
                   /\ Completed(r) => /\ more <= limits.fuel /\ r.peak <= limits.memory
                                      /\ prior + more <= limits.compilationFuel
                   /\ Failed(r, "LimitExceeded", "CompilationFuel")
                        => prior + more > limits.compilationFuel
                   => Recorded(Append(s, r), prior + more, limits)
<1> DEFINE n     == Len(s)
           used  == FuelTo(s, n)
           after == prior + more
<1>1. /\ limits.compilationFuel \in Nat /\ limits.fuel \in Nat /\ n \in Nat
      /\ AreFuelled(s) /\ DOMAIN s = 1..n
  BY SequenceFacts DEF Ceilings, Recorded, AreFuelled
<1>2. \A i \in 1..n : Failed(s[i], "LimitExceeded", "CompilationFuel")
                        => prior > limits.compilationFuel
  BY <1>1 DEF Recorded
<1>3. /\ used <= prior
      /\ \A i \in 1..n : Completed(s[i]) =>
           /\ s[i].fuel <= limits.fuel /\ s[i].peak <= limits.memory
           /\ FuelTo(s, i) <= limits.compilationFuel
           /\ \A j \in 1..i : ~ Failed(s[j], "LimitExceeded", "CompilationFuel")
  BY <1>1 DEF Recorded
<1>4. used \in Nat
  <2> DEFINE r == [fuel |-> more]
  <2>1. r.fuel \in Nat
    OBVIOUS
  <2> HIDE DEF r
  <2> QED BY <1>1, <2>1, FuelToAppend
<1> HIDE DEF n, used
<1>5. used <= after /\ after \in Nat /\ (prior > limits.compilationFuel => after > limits.compilationFuel)
  BY <1>1, <1>3, <1>4
<1>6. Recorded(s, after, limits)
  <2> HIDE DEF after
  <2>1. FuelTo(s, Len(s)) <= after
    BY <1>5 DEF used, n
  <2>2. \A i \in DOMAIN s : Failed(s[i], "LimitExceeded", "CompilationFuel")
                              => after > limits.compilationFuel
    BY <1>1, <1>2, <1>5
  <2>3. \A i \in DOMAIN s : Completed(s[i]) =>
           /\ s[i].fuel <= limits.fuel /\ s[i].peak <= limits.memory
           /\ FuelTo(s, i) <= limits.compilationFuel
           /\ \A j \in 1..i : ~ Failed(s[j], "LimitExceeded", "CompilationFuel")
    BY <1>1, <1>3
  <2> QED BY <1>1, <2>1, <2>2, <2>3 DEF Recorded
<1>7. ASSUME NEW r, r.fuel = more,
             Completed(r) => /\ more <= limits.fuel /\ r.peak <= limits.memory
                             /\ after <= limits.compilationFuel,
             Failed(r, "LimitExceeded", "CompilationFuel") => after > limits.compilationFuel
      PROVE  Recorded(Append(s, r), after, limits)
  <2> DEFINE t == Append(s, r)
             Over(x) == Failed(x, "LimitExceeded", "CompilationFuel")
  <2>1. /\ IsSequence(t) /\ Len(t) = n + 1 /\ t[n + 1] = r /\ \A i \in 1..n : t[i] = s[i]
    BY <1>1, AppendFacts DEF AreFuelled, n
  <2>2. /\ \A i \in 1..n : FuelTo(t, i) = FuelTo(s, i)
        /\ FuelTo(t, n + 1) = used + more
    BY <1>1, <1>7, FuelToAppend DEF n, used
  <2>3. AreFuelled(t)
    BY <1>1, <1>7, FuelAppend
  <2> HIDE DEF t
  <2>4. DOMAIN t = 1..n+1
    BY <2>1, SequenceFacts
  <2>5. used + more <= after
    BY <1>3, <1>4
  <2> HIDE DEF after, Over
  <2>6. \A i \in 1..n+1 : i \in 1..n \/ i = n + 1
    BY <1>1
  <2>7. ASSUME NEW i \in 1..n+1, Over(t[i]) PROVE after > limits.compilationFuel
    <3>1. CASE i \in 1..n
      BY <1>2, <1>5, <2>1, <2>7, <3>1 DEF Over
    <3>2. CASE i = n + 1
      BY <1>7, <2>1, <2>7, <3>2 DEF Over
    <3> QED BY <2>6, <3>1, <3>2
  <2>8. ASSUME NEW i \in 1..n+1, Completed(t[i])
        PROVE  /\ t[i].fuel <= limits.fuel /\ t[i].peak <= limits.memory
               /\ FuelTo(t, i) <= limits.compilationFuel
               /\ \A j \in 1..i : ~ Over(t[j])
    <3>1. CASE i \in 1..n
      <4>1. \A j \in 1..i : j \in 1..n
        BY <1>1, <3>1
      <4>2. /\ s[i].fuel <= limits.fuel /\ s[i].peak <= limits.memory
            /\ FuelTo(s, i) <= limits.compilationFuel
            /\ \A j \in 1..i : ~ Over(s[j])
        BY <1>3, <2>1, <2>8, <3>1 DEF Over
      <4> QED BY <2>1, <2>2, <3>1, <4>1, <4>2
    <3>2. CASE i = n + 1
      <4>1. Completed(r) /\ t[i] = r
        BY <2>1, <2>8, <3>2
      <4>2. more <= limits.fuel /\ r.peak <= limits.memory /\ after <= limits.compilationFuel
        BY <1>7, <4>1
      <4>3. FuelTo(t, i) <= limits.compilationFuel
        BY <1>1, <1>4, <1>5, <2>2, <2>5, <3>2, <4>2
      <4>4. ASSUME NEW j \in 1..i, Over(t[j]) PROVE FALSE
        <5>1. after > limits.compilationFuel
          BY <2>7, <3>2, <4>4
        <5> QED BY <1>1, <1>5, <4>2, <5>1
      <4> QED BY <1>7, <4>1, <4>2, <4>3, <4>4
    <3> QED BY <2>6, <3>1, <3>2
  <2>9. FuelTo(t, Len(t)) <= after
    BY <2>1, <2>2, <2>5
  <2>10. Recorded(t, after, limits)
    BY <2>3, <2>4, <2>7, <2>8, <2>9 DEF Recorded, Over
  <2> QED BY <2>10 DEF t
<1> QED
  BY <1>6, <1>7 DEF after

(* What a root that ended leaves in its receipt.                           *)
LEMMA EndedWell ==
  ASSUME EInv, ~ Running(machine)
  PROVE  LET used == machine.prior + fuel
         IN /\ machine.outcome.kind = "Completed" =>
                 /\ fuel <= Limits.fuel /\ machine.peak <= Limits.memory
                 /\ used <= Limits.compilationFuel
            /\ machine.outcome.kind = "LimitExceeded" /\ machine.outcome.of = "CompilationFuel" =>
                 used > Limits.compilationFuel
<1>1. CASE OutOfFuel
  BY <1>1 DEF OutOfFuel
<1>2. CASE Full
  BY <1>2 DEF Full
<1>3. CASE MachineOK
  <2>1. Stopped(machine)
    BY <1>3 DEF MachineOK, Reckoned
  <2>2. machine.outcome.kind = "Completed" => Within
    BY DEF EInv, PaidOK, Uncharged
  <2> QED BY <2>1, <2>2 DEF Stopped, Within, Limits
<1> QED
  BY <1>1, <1>2, <1>3 DEF EInv

LEMMA EndRootWorks == ASSUME EInv, EndRoot PROVE EInv'
<1> DEFINE ends  == machine.outcome.kind \in {"Cancelled", "Defect"}
           used  == machine.prior + fuel
           start == [limits |-> Limits, prior |-> used, open |-> <<>>, ids |-> <<>>]
<1>1. /\ roots # <<>> /\ ~ Running(machine) /\ machine' = Fresh(used, Limits) /\ fuel' = 0
      /\ evaluating' = <<>> /\ UNCHANGED <<program, constants, cache>>
  BY DEF EndRoot, Reset
<1>2. /\ ends => roots' = <<>> /\ receipts' = receipts
      /\ ~ ends => roots' = Tail(roots) /\ receipts' = Append(receipts, Receipt)
  BY DEF EndRoot
<1>3. /\ start.limits = Limits /\ start.prior = used /\ start.open = <<>> /\ start.ids = <<>>
  OBVIOUS
<1>4. Limits \in Ceilings /\ fuel \in Nat /\ machine.prior \in Nat /\ IsProgram(program)
  BY DEF EInv
<1>5. used \in Nat
  BY <1>4
<1> HIDE DEF start, used, ends
<1>6. /\ Reckoned(machine', 0, start) /\ Running(machine)' /\ machine'.frames = <<>>
      /\ machine'.prior = used /\ machine'.limits = Limits
      /\ Marks("engine", machine'.frames) = <<>> /\ Marks("constant", machine'.frames) = <<>>
  <2> DEFINE m == Fresh(used, Limits)
  <2>1. /\ Reckoned(m, 0, start) /\ Running(m) /\ m.frames = <<>>
        /\ m.prior = used /\ m.limits = Limits /\ \A kind : Marks(kind, m.frames) = <<>>
    BY <1>3, <1>4, FreshReckoned
  <2>2. machine' = m
    BY <1>1
  <2> HIDE DEF m
  <2> QED BY <2>1, <2>2 DEF Running
<1>7. MachineOK' /\ Limits' = Limits
  BY <1>6, OwnBearings DEF Limits
<1>8. StackOK' /\ PaidOK'
  <2>1. DOMAIN <<>> = {}
    OBVIOUS
  <2>2. Uncharged'
    BY <1>1, <1>6 DEF Uncharged
  <2> QED BY <1>1, <1>6, <2>1, <2>2 DEF StackOK, PaidOK, Distinct, Enters
<1>9. CacheOK'
  <2>1. CASE ends
    BY <1>2, <2>1 DEF CacheOK
  <2>2. CASE ~ ends
    <3>1. machine.outcome.kind # "Defect"
      BY <2>2 DEF ends
    <3> QED BY <1>1, <3>1 DEF EInv, CacheOK
  <2> QED BY <2>1, <2>2
<1>10. TablesOK'
  <2>1. AreRoots(<<>>)
    <3>1. <<>> \in Seq({}) /\ DOMAIN <<>> = {}
      OBVIOUS
    <3>2. IsSequence(<<>>)
      BY <3>1, SequenceOf
    <3> QED BY <3>1, <3>2 DEF AreRoots
  <2>2. AreRoots(roots')
    BY <1>1, <1>2, <2>1, RootTail DEF EInv, TablesOK
  <2> QED BY <1>1, <2>2 DEF EInv, TablesOK
<1>11. Recorded(receipts', used, Limits)
  <2>1. Recorded(receipts, machine.prior, Limits)
    BY DEF EInv
  <2>2. CASE ends
    BY <1>2, <1>4, <2>1, <2>2, RecordedMore DEF used
  <2>3. CASE ~ ends
    <3> DEFINE r == Receipt
    <3>1. r.fuel = fuel /\ r.peak = machine.peak /\ r.outcome = machine.outcome
      BY DEF Receipt
    <3> HIDE DEF r
    <3>2. /\ Completed(r) => /\ fuel <= Limits.fuel /\ r.peak <= Limits.memory
                             /\ machine.prior + fuel <= Limits.compilationFuel
          /\ Failed(r, "LimitExceeded", "CompilationFuel")
               => machine.prior + fuel > Limits.compilationFuel
      BY <1>1, <3>1, EndedWell DEF Completed, Failed
    <3>3. Recorded(Append(receipts, r), machine.prior + fuel, Limits)
      BY <1>4, <2>1, <3>1, <3>2, RecordedMore
    <3> QED BY <1>2, <2>3, <3>3 DEF used, r
  <2> QED BY <2>2, <2>3
<1> QED
  BY <1>1, <1>4, <1>5, <1>6, <1>7, <1>8, <1>9, <1>10, <1>11 DEF EInv

LEMMA EngineInitWorks == EngineInit => EInv
<1> SUFFICES ASSUME EngineInit PROVE EInv
  OBVIOUS
<1>1. PICK w \in Workloads : /\ program = w.program /\ constants = w.constants
                             /\ roots = RootsOf(w.constants, w.assertions)
                             /\ machine = Fresh(w.prior, w.limits)
  BY DEF EngineInit
<1>2. fuel = 0 /\ cache = <<>> /\ evaluating = <<>> /\ receipts = <<>>
  BY DEF EngineInit
<1>3. IsProgram(program) /\ w.prior \in Nat /\ w.limits \in Ceilings
  BY <1>1, CodeAssumption, WorkloadAssumption DEF IsProgram
<1> DEFINE start == [limits |-> w.limits, prior |-> w.prior, open |-> <<>>, ids |-> <<>>]
<1>4. /\ start.limits = w.limits /\ start.prior = w.prior /\ start.open = <<>>
      /\ start.ids = <<>>
  OBVIOUS
<1> HIDE DEF start
<1>5. /\ Reckoned(machine, 0, start) /\ Running(machine) /\ machine.frames = <<>>
      /\ machine.prior = w.prior /\ machine.limits = w.limits
      /\ Marks("engine", machine.frames) = <<>> /\ Marks("constant", machine.frames) = <<>>
  BY <1>1, <1>3, <1>4, FreshReckoned
<1>6. MachineOK
  BY <1>5 DEF MachineOK, Reckoned, OfRoot, Marked, Bearings
<1>7. TablesOK
  <2>1. AreRoots(roots)
    BY <1>1, RootsOfWorkload
  <2>2. \A id \in Identities : constants[id].value \in Code
    BY <1>1, EngineAssumption
  <2> QED BY <2>1, <2>2 DEF TablesOK
<1>8. DOMAIN <<>> = {}
  OBVIOUS
<1>9. CacheOK /\ StackOK
  BY <1>2, <1>5, <1>8 DEF CacheOK, StackOK, Distinct, Enters
<1>10. PaidOK
  BY <1>2, <1>5 DEF PaidOK, Uncharged
<1>11. Recorded(receipts, machine.prior, Limits)
  <2>1. AreFuelled(<<>>)
    <3>1. <<>> \in Seq({})
      OBVIOUS
    <3> QED BY <1>8, <3>1, SequenceOf DEF AreFuelled
  <2>2. FuelTo(<<>>, 0) = 0
    <3> DEFINE r == [fuel |-> 0]
    <3>1. r.fuel \in Nat
      OBVIOUS
    <3> HIDE DEF r
    <3> QED BY <2>1, <3>1, FuelToAppend
  <2>3. Len(<<>>) = 0 /\ 0 <= w.prior
    BY <1>3
  <2> QED BY <1>2, <1>5, <1>8, <2>1, <2>2, <2>3 DEF Recorded
<1> QED
  BY <1>2, <1>3, <1>5, <1>6, <1>7, <1>9, <1>10, <1>11 DEF EInv, Limits

LEMMA EngineInductive == EngineSpec => []EInv
<1>1. EInv /\ [EngineNext]_allVars => EInv'
  <2> SUFFICES ASSUME EInv, [EngineNext]_allVars PROVE EInv'
    OBVIOUS
  <2>1. CASE StartConstant
    BY <2>1, StartConstantWorks
  <2>2. CASE StartAssertion
    BY <2>2, StartAssertionWorks
  <2>3. CASE RejectAssertion
    BY <2>3, RejectAssertionWorks
  <2>4. CASE EndRoot
    BY <2>4, EndRootWorks
  <2>5. CASE ReadConstant
    BY <2>5, ReadConstantWorks
  <2>6. CASE ReadCached
    BY <2>6, ReadCachedWorks
  <2>7. CASE EnterConstant
    BY <2>7, EnterConstantWorks
  <2>8. CASE FinishConstant
    BY <2>8, FinishConstantWorks
  <2>9. CASE FinishRoot
    BY <2>9, FinishRootWorks
  <2>10. CASE Steps /\ roots # <<>> /\ UNCHANGED engineVars
    BY <2>10, StepWorks
  <2>11. CASE Refused /\ roots # <<>> /\ UNCHANGED engineVars
    BY <2>11, RefusalWorks
  <2>12. CASE UNCHANGED <<program, machine, fuel, trace>> /\ UNCHANGED engineVars
    <3>1. UNCHANGED <<program, machine, fuel, constants, roots, cache, evaluating, receipts>>
      BY <2>12 DEF engineVars
    <3>2. /\ MachineOK \/ OutOfFuel \/ Full => (MachineOK \/ OutOfFuel \/ Full)'
          /\ StackOK => StackOK'
      BY <3>1 DEF MachineOK, Bearings, OutOfFuel, Full, Limits, StackOK
    <3>3. Control' = Control
      BY <3>1 DEF Control, Top, Depth
    <3>4. (PaidOK => PaidOK') /\ Limits' = Limits /\ (CacheOK => CacheOK')
      BY <3>1, <3>3 DEF PaidOK, Within, Uncharged, Limits, CacheOK
    <3> QED BY <3>1, <3>2, <3>4 DEF EInv, TablesOK
  <2>13. CASE StartImage
    BY <2>13, <2>10 DEF StartImage, AtRoot, Steps
  <2>14. CASE Evaluate
    BY <2>10, <2>11, <2>12, <2>14 DEF Evaluate, Steps, Cancel
  <2>15. CASE UNCHANGED allVars
    BY <2>12, <2>15 DEF allVars, vars
  <2> QED
    BY <2>1, <2>2, <2>3, <2>4, <2>5, <2>6, <2>7, <2>8, <2>9, <2>13, <2>14, <2>15 DEF EngineNext
<1> QED
  BY <1>1, EngineInitWorks, PTL DEF EngineSpec

(* The stack that detects cycles names the constants whose frames are      *)
(* open, in their order, and none that completed: also in a root after one *)
(* that failed half way, which left its stack behind.                      *)
THEOREM CycleStackIsExact == EngineSpec => []CycleStackAgrees
<1>1. EInv => CycleStackAgrees
  <2> SUFFICES ASSUME EInv, Running(machine)
               PROVE  /\ evaluating = FlattenSeq([i \in DOMAIN machine.frames |-> Entered(i)])
                      /\ ToSet(evaluating) \cap DOMAIN cache = {}
    BY DEF CycleStackAgrees
  <2>1. evaluating = Marks("constant", machine.frames) /\ Distinct(evaluating, DOMAIN cache)
    BY DEF EInv, StackOK
  <2>2. \A f : MarkOf("constant", f) = IF f.callable = "constant" THEN <<f.entered.id>> ELSE <<>>
    BY DEF MarkOf
  <2>3. [i \in DOMAIN machine.frames |-> MarkOf("constant", machine.frames[i])]
          = [i \in DOMAIN machine.frames |-> Entered(i)]
    BY <2>2 DEF Entered
  <2>4. evaluating = FlattenSeq([i \in DOMAIN machine.frames |-> Entered(i)])
    BY <2>1, <2>3 DEF Marks
  <2>5. ToSet(evaluating) \cap DOMAIN cache = {}
    BY <2>1 DEF Distinct, ToSet
  <2> QED BY <2>4, <2>5
<1> QED
  BY <1>1, EngineInductive, PTL

(* The ceilings hold over all the roots: what a constant's evaluation used *)
(* is charged again where it is read from the cache, a root completes only *)
(* below every ceiling, and none does after the compilation's fuel is gone.*)
THEOREM CeilingsStickForGood == EngineSpec => []CeilingsStick
<1>1. EInv => CeilingsStick
  BY DEF EInv, Recorded, CeilingsStick, FuelUpTo, FuelTo
<1> QED
  BY <1>1, EngineInductive, PTL

(* With the engine's frames and the constants it replays, the memory that  *)
(* is charged is still what the open frames retain.                        *)
THEOREM EngineMemoryIsConserved == EngineSpec => []MemoryConserved
<1>1. EInv => MemoryConserved
  <2> SUFFICES ASSUME EInv, Running(machine) PROVE machine.memory = FramesMemory(machine.frames)
    BY DEF MemoryConserved
  <2>1. Live(machine, 0)
    BY Works DEF MachineOK, Reckoned
  <2>2. machine.memory = FramesMemory(machine.frames) + 0 /\ FramesMemory(machine.frames) \in Nat
    BY <2>1, MemoryOfFrames DEF Live
  <2> QED BY <2>2
<1> QED
  BY <1>1, EngineInductive, PTL
=============================================================================
