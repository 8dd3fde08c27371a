----------------------------- MODULE GraphProofs -----------------------------
(***************************************************************************)
(* For every graph: the worklist of propagate_monotone answers with the    *)
(* least solution, whatever the facts and the order of the nodes           *)
(* (MonotoneFacts); the costs of all functions (WeightedCosts); components *)
(* and recursive nodes (StrongComponents).                                 *)
(***************************************************************************)
EXTENDS MonotoneFacts, WeightedCosts, StrongComponents, Fundamentals

(* The variables have their types in every reachable state.                *)
THEOREM TypeCorrect == Spec => []TypeOK
<1>1. Init => TypeOK
  BY DEF Init, TypeOK, Key
<1>2. TypeOK /\ [Next]_vars => TypeOK'
  <2> SUFFICES ASSUME TypeOK, [Next]_vars PROVE TypeOK'
    OBVIOUS
  <2> USE DEF TypeOK, Key
  <2>1. ASSUME NEW callee \in Node, Step(callee) PROVE TypeOK'
    <3>1. callee \in Key /\ Changed(callee) \subseteq Key
      BY <2>1 DEF Step, IsFirst, Changed, Callers, Dependents
    <3>2. Merged(callee) \in [Key -> SUBSET Fact]
      BY <3>1 DEF Merged
    <3> QED
      BY <2>1, <3>1, <3>2 DEF Step
  <2>2. CASE Abort
    BY <2>2 DEF Abort
  <2>3. CASE Finish
    BY <2>3 DEF Finish
  <2>4. CASE Cancel
    BY <2>4 DEF Cancel
  <2>5. CASE UNCHANGED vars
    BY <2>5 DEF vars
  <2> QED
    BY <2>1, <2>2, <2>3, <2>4, <2>5 DEF Next
<1> QED
  BY <1>1, <1>2, PTL DEF Spec

-----------------------------------------------------------------------------
(* What one turn of the loop does to the facts of a node.                  *)
LEMMA MergedFacts ==
  ASSUME TypeOK, NEW callee \in Key, NEW n \in Key
  PROVE  /\ Merged(callee)[n] = IF n \in Callers(callee)
                                THEN facts[n] \cup facts[callee] ELSE facts[n]
         /\ facts[n] \subseteq Merged(callee)[n]
         /\ Merged(callee)[callee] = facts[callee]
  BY DEF TypeOK, Merged, Callers

(* The facts of a node grow in a turn only if it is put back on the        *)
(* worklist.                                                               *)
LEMMA UnchangedFacts ==
  ASSUME TypeOK, NEW callee \in Key, NEW n \in Key, n \notin Changed(callee)
  PROVE  Merged(callee)[n] = facts[n]
<1>1. CASE n \in Callers(callee)
  <2>1. facts[callee] \subseteq facts[n]
    BY <1>1 DEF Changed
  <2>2. facts[n] \cup facts[callee] = facts[n]
    BY <2>1
  <2> QED
    BY <1>1, <2>2, MergedFacts
<1>2. CASE n \notin Callers(callee)
  BY <1>2, MergedFacts
<1> QED
  BY <1>1, <1>2

(* The worklist invariant is inductive together with the types.            *)
LEMMA StepCovers ==
  ASSUME TypeOK, WorklistCovers, NEW callee \in Node, Step(callee)
  PROVE  WorklistCovers'
<1>1. callee \in Key
  BY DEF Step, IsFirst, TypeOK
<1>2. /\ Key' = Key /\ graph' = graph
      /\ facts' = Merged(callee)
      /\ pending' = (pending \ {callee}) \cup Changed(callee)
  BY DEF Step, Key
<1> SUFFICES ASSUME NEW r \in Key, NEW c \in graph[r] \cap Key, c \notin pending'
             PROVE  facts'[c] \subseteq facts'[r]
  BY <1>2 DEF WorklistCovers
<1>3. facts'[c] = facts[c]
  BY <1>1, <1>2, UnchangedFacts
<1>4. facts[r] \subseteq facts'[r]
  BY <1>1, <1>2, MergedFacts
<1>5. CASE c = callee /\ r # callee
  <2>1. r \in Callers(callee)
    BY <1>5 DEF Callers, Dependents
  <2> QED
    BY <1>1, <1>2, <1>5, <2>1, MergedFacts
<1>6. CASE c = callee /\ r = callee
  BY <1>6
<1>7. CASE c # callee
  BY <1>2, <1>3, <1>4, <1>7 DEF WorklistCovers
<1> QED
  BY <1>5, <1>6, <1>7

(* A callee whose facts a caller lacks is always on the worklist.          *)
THEOREM Covers == Spec => []WorklistCovers
<1>1. Init => WorklistCovers
  BY DEF Init, WorklistCovers
<1>2. TypeOK /\ WorklistCovers /\ [Next]_vars => WorklistCovers'
  <2> SUFFICES ASSUME TypeOK, WorklistCovers, [Next]_vars PROVE WorklistCovers'
    OBVIOUS
  <2>1. CASE \E callee \in Node : Step(callee)
    BY <2>1, StepCovers
  <2>2. CASE UNCHANGED <<graph, base, facts, pending>>
    BY <2>2 DEF WorklistCovers, Key
  <2> QED
    BY <2>1, <2>2 DEF Next, Abort, Finish, Cancel, vars
<1> QED
  BY <1>1, <1>2, TypeCorrect, PTL DEF Spec

-----------------------------------------------------------------------------
(* A turn of the loop stays below every closed assignment.                 *)
LEMMA StepInventsNothing ==
  ASSUME TypeOK, NothingInvented, NEW callee \in Node, Step(callee)
  PROVE  NothingInvented'
<1>1. callee \in Key
  BY DEF Step, IsFirst, TypeOK
<1>2. Key' = Key /\ graph' = graph /\ base' = base /\ facts' = Merged(callee)
  BY DEF Step, Key
<1>3. Below(base, Merged(callee))
  BY <1>1, MergedFacts DEF Below, NothingInvented
<1>4. ASSUME NEW g \in [Key -> SUBSET Fact], Below(base, g), Closed(g),
             NEW n \in Key
      PROVE  Merged(callee)[n] \subseteq g[n]
  <2>1. facts[n] \subseteq g[n] /\ facts[callee] \subseteq g[callee]
    BY <1>1, <1>4 DEF NothingInvented, Below
  <2>2. n \in Callers(callee) => g[callee] \subseteq g[n]
    BY <1>1, <1>4 DEF Closed, Callers, Dependents
  <2>3. CASE n \in Callers(callee)
    <3>1. facts[n] \cup facts[callee] \subseteq g[n]
      BY <2>1, <2>2, <2>3
    <3> QED
      BY <1>1, <2>3, <3>1, MergedFacts
  <2>4. CASE n \notin Callers(callee)
    BY <1>1, <2>1, <2>4, MergedFacts
  <2> QED
    BY <2>3, <2>4
<1>5. \A g \in [Key -> SUBSET Fact] :
        Below(base, g) /\ Closed(g) => Below(Merged(callee), g)
  BY <1>4 DEF Below
<1> QED
  BY <1>2, <1>3, <1>5 DEF NothingInvented, Below, Closed

(* Accumulated facts lie between the local facts and every solution.       *)
THEOREM InventsNothing == Spec => []NothingInvented
<1>1. Init => NothingInvented
  BY DEF Init, NothingInvented, Below
<1>2. TypeOK /\ NothingInvented /\ [Next]_vars => NothingInvented'
  <2> SUFFICES ASSUME TypeOK, NothingInvented, [Next]_vars
               PROVE  NothingInvented'
    OBVIOUS
  <2>1. CASE \E callee \in Node : Step(callee)
    BY <2>1, StepInventsNothing
  <2>2. CASE UNCHANGED <<graph, base, facts>>
    BY <2>2 DEF NothingInvented, Below, Closed, Key
  <2> QED
    BY <2>1, <2>2 DEF Next, Abort, Finish, Cancel, vars
<1> QED
  BY <1>1, <1>2, TypeCorrect, PTL DEF Spec

-----------------------------------------------------------------------------
(* An empty worklist means that the accumulated facts are the least        *)
(* solution: WorklistCovers closes them and NothingInvented bounds them.   *)
LEMMA EmptyWorklistIsLeast ==
  ASSUME TypeOK, WorklistCovers, NothingInvented, pending = {}
  PROVE  facts \in {g \in [Key -> SUBSET Fact] : Solver!Least(g)}
<1>1. Solver!Key = Key
  BY DEF Solver!Key, Key
<1>2. facts \in [Key -> SUBSET Fact]
  BY DEF TypeOK
<1>3. Solver!Closed(facts)
  BY <1>1 DEF WorklistCovers, Solver!Closed
<1>4. Solver!Solution(facts)
  BY <1>1, <1>2, <1>3 DEF NothingInvented, Below, Solver!Solution, Solver!Below
<1>5. ASSUME NEW g \in [Key -> SUBSET Fact], Solver!Solution(g)
      PROVE  Solver!Below(facts, g)
  BY <1>1, <1>5 DEF NothingInvented, Below, Closed,
                    Solver!Solution, Solver!Below, Solver!Closed
<1> QED
  BY <1>1, <1>2, <1>4, <1>5 DEF Solver!Least

(* propagate_monotone implements FactSolver: whatever the order of the     *)
(* nodes and whenever the request is cancelled, the one answer is the      *)
(* least solution or nothing.                                              *)
THEOREM ImplementsSolver == Spec => SolvesLeast
<1>1. Init => Solver!Init
  BY DEF Init, Solver!Init, Solver!Inputs
<1>2. TypeOK /\ WorklistCovers /\ NothingInvented /\ [Next]_vars
        => [Solver!Next]_(Solver!vars)
  <2> SUFFICES ASSUME TypeOK, WorklistCovers, NothingInvented, [Next]_vars
               PROVE  [Solver!Next]_(Solver!vars)
    OBVIOUS
  <2> USE DEF Solver!Next, Solver!vars, Solver!Answer
  <2>1. ASSUME NEW callee \in Node, Step(callee)
        PROVE  UNCHANGED Solver!vars
    BY <2>1 DEF Step
  <2>2. CASE Abort
    BY <2>2 DEF Abort
  <2>3. CASE Finish
    <3>1. facts \in {g \in [Key -> SUBSET Fact] : Solver!Least(g)}
      BY <2>3, EmptyWorklistIsLeast DEF Finish
    <3> QED
      BY <2>3, <3>1 DEF Finish, Key, Solver!Key
  <2>4. CASE Cancel
    BY <2>4 DEF Cancel
  <2>5. CASE UNCHANGED vars
    BY <2>5 DEF vars
  <2> QED
    BY <2>1, <2>2, <2>3, <2>4, <2>5 DEF Next
<1> QED
  BY <1>1, <1>2, TypeCorrect, Covers, InventsNothing, PTL
     DEF Spec, SolvesLeast, Solver!Spec

-----------------------------------------------------------------------------

Weight(n) == [c \in Callable |-> costs[c] * calls[n][c]]

(* Functions that were taken.                                              *)
Taken == {n \in Callable : remaining[n] = 0 /\ n \notin ready}

CostTypes ==
  /\ calls \in [Callable -> [Callable -> Nat]] /\ own \in [Callable -> 0..Greatest]
  /\ costs \in [Callable -> 0..Greatest] /\ remaining \in [Callable -> Nat]
  /\ recursive = {n \in Callable : n \in Called(n)}
  /\ ready \subseteq Callable /\ \A n \in ready : remaining[n] = 0

(* A function waits for those of its callees that were not taken, and has  *)
(* the cost of the others; a recursive one has no bound from the start.    *)
CostInv ==
  /\ CostTypes
  /\ \A n \in recursive : remaining[n] = 0 /\ costs[n] = Greatest
  /\ \A n \in Callable \ recursive :
       /\ remaining[n] = Cardinality(Callees(n) \ Taken)
       /\ costs[n] = Saturating(own[n] + WeightOf(Weight(n), Callees(n) \cap Taken))

-----------------------------------------------------------------------------

LEMMA CalleesFinite ==
  ASSUME NEW n
  PROVE  /\ IsFiniteSet(Callees(n)) /\ IsFiniteSet(Callees(n) \ Taken)
         /\ IsFiniteSet(Callees(n) \cap Taken)
  BY CostAssumption, FS_Subset DEF Callees

LEMMA WeightsAreNatural ==
  ASSUME CostTypes, NEW n \in Callable, NEW c \in Callable
  PROVE  Weight(n)[c] \in Nat /\ Weight(n)[c] = costs[c] * calls[n][c] /\ calls[n][c] \in Nat
<1>1. Greatest \in Nat /\ costs[c] \in Nat /\ calls[n][c] \in Nat
  BY CostAssumption DEF CostTypes
<1>2. costs[c] * calls[n][c] \in Nat
  BY <1>1
<1> QED
  BY <1>1, <1>2 DEF Weight

(* The sum over the calls of a function.                                   *)
LEMMA CallsWeigh ==
  ASSUME CostTypes, NEW n \in Callable
  PROVE  CallCosts(n) = WeightOf(Weight(n), Callees(n))
<1> DEFINE S == Callees(n)
           g == Weight(n)
           iter == CHOOSE f : f = [s \in SUBSET S |->
                     IF s = {} THEN 0
                     ELSE costs[CHOOSE x \in s : TRUE] * calls[n][CHOOSE x \in s : TRUE]
                          + f[s \ {CHOOSE x \in s : TRUE}]]
<1>1. CallCosts(n) = iter[S]
  BY DEF CallCosts, MapThenSumSet, MapThenFoldSet
<1>2. IsFiniteSet(S) /\ S \subseteq Callable
  BY CalleesFinite DEF Callees
<1>3. \A y \in S : g[y] \in Nat /\ g[y] = costs[y] * calls[n][y]
  BY <1>2, WeightsAreNatural
<1>4. PICK W : Weighs(W, g, S)
  BY <1>2, <1>3, WeightExists
<1> HIDE DEF S, g
<1> DEFINE Sums(f) == f = [s \in SUBSET S |->
                     IF s = {} THEN 0
                     ELSE costs[CHOOSE x \in s : TRUE] * calls[n][CHOOSE x \in s : TRUE]
                          + f[s \ {CHOOSE x \in s : TRUE}]]
<1>5. Sums(W)
  <2>1. ASSUME NEW s \in SUBSET S, s # {}
        PROVE  W[s] = costs[CHOOSE x \in s : TRUE] * calls[n][CHOOSE x \in s : TRUE]
                       + W[s \ {CHOOSE x \in s : TRUE}]
    <3> DEFINE y == CHOOSE x \in s : TRUE
    <3>1. y \in s
      BY <2>1
    <3>2. W[s] = g[y] + W[s \ {y}]
      BY <1>4, <3>1 DEF Weighs
    <3> QED BY <1>3, <3>1, <3>2
  <2>2. W[{}] = 0 /\ W = [s \in SUBSET S |-> W[s]]
    BY <1>4 DEF Weighs
  <2> QED BY <2>1, <2>2
<1>6. Sums(iter)
  BY <1>5
<1> HIDE DEF iter
<1>7. ASSUME NEW s \in SUBSET S PROVE iter[s] = W[s]
  <2> DEFINE Bad == {t \in SUBSET S : iter[t] # W[t]}
  <2> SUFFICES ASSUME Bad # {} PROVE FALSE
    OBVIOUS
  <2>1. PICK t \in Bad : \A u \in Bad : u \subseteq t => u = t
    <3>1. Bad \subseteq SUBSET S
      OBVIOUS
    <3> HIDE DEF Bad
    <3> QED BY <1>2, <3>1, MinimalSet
  <2> DEFINE y == CHOOSE x \in t : TRUE
  <2>2. t # {}
    BY <1>5, <1>6, <2>1
  <2>3. y \in t
    BY <2>2
  <2>4. iter[t \ {y}] = W[t \ {y}]
    BY <2>1, <2>3
  <2>5. iter[t] = costs[y] * calls[n][y] + iter[t \ {y}] /\ W[t] = costs[y] * calls[n][y] + W[t \ {y}]
    BY <1>5, <1>6, <2>1, <2>2
  <2> QED BY <2>1, <2>4, <2>5
<1>8. iter[S] = W[S]
  BY <1>7
<1>9. WeightOf(g, S) = W[S]
  BY <1>2, <1>3, <1>4, WeightIs
<1> QED
  BY <1>1, <1>8, <1>9 DEF S, g

-----------------------------------------------------------------------------

LEMMA SaturatingTwice ==
  ASSUME NEW a \in Nat, NEW b \in Nat
  PROVE  Saturating(Saturating(a) + Saturating(b)) = Saturating(a + b)
  BY CostAssumption DEF Saturating

LEMMA CostsStart == CostInit => CostInv
<1> SUFFICES ASSUME CostInit PROVE CostInv
  OBVIOUS
<1>1. /\ calls \in [Callable -> [Callable -> Nat]] /\ own \in [Callable -> 0..Greatest]
      /\ Greatest \in Nat
  BY CostAssumption DEF CostInit
<1>2. recursive = {n \in Callable : n \in Called(n)}
  BY DEF CostInit
<1>3. \A n \in Callable : costs[n] = IF n \in recursive THEN Greatest ELSE own[n]
  BY DEF CostInit, Start
<1>4. costs \in [Callable -> 0..Greatest]
  <2>1. costs = [n \in Callable |-> IF n \in recursive THEN Greatest ELSE own[n]]
    BY DEF CostInit, Start
  <2> QED BY <1>1, <2>1
<1>5. \A n \in Callable : IsFiniteSet(Callees(n)) /\ Cardinality(Callees(n)) \in Nat
  BY CalleesFinite, FS_CardinalityType
<1>6. /\ remaining = [n \in Callable |-> IF n \in recursive THEN 0 ELSE Cardinality(Callees(n))]
      /\ ready = recursive \cup {n \in Callable : Callees(n) = {}}
  BY DEF CostInit
<1>7. remaining \in [Callable -> Nat]
  BY <1>5, <1>6
<1>8. Cardinality({}) = 0
  BY FS_EmptySet
<1>9. ready \subseteq Callable /\ \A n \in ready : remaining[n] = 0
  BY <1>2, <1>6, <1>8
<1>10. CostTypes
  BY <1>1, <1>2, <1>4, <1>7, <1>9 DEF CostTypes
<1>11. Taken = {}
  <2>1. ASSUME NEW n \in Callable, remaining[n] = 0 PROVE n \in ready
    <3>1. CASE n \in recursive
      BY <1>6, <3>1
    <3>2. CASE n \notin recursive
      <4>1. Cardinality(Callees(n)) = 0
        BY <1>6, <2>1, <3>2
      <4>2. Callees(n) = {}
        BY <1>5, <4>1, FS_EmptySet
      <4> QED BY <1>6, <4>2
    <3> QED BY <3>1, <3>2
  <2> QED BY <2>1 DEF Taken
<1>12. \A n \in recursive : remaining[n] = 0 /\ costs[n] = Greatest
  BY <1>2, <1>3, <1>6
<1>13. ASSUME NEW n \in Callable \ recursive
       PROVE  /\ remaining[n] = Cardinality(Callees(n) \ Taken)
              /\ costs[n] = Saturating(own[n] + WeightOf(Weight(n), Callees(n) \cap Taken))
  <2>1. Callees(n) \ Taken = Callees(n) /\ Callees(n) \cap Taken = {}
    BY <1>11
  <2>2. WeightOf(Weight(n), {}) = 0
    BY WeightNone
  <2>3. own[n] \in 0..Greatest /\ costs[n] = own[n]
    BY <1>1, <1>3
  <2>4. Saturating(own[n] + 0) = own[n]
    BY <1>1, <2>3 DEF Saturating
  <2> QED BY <1>6, <2>1, <2>2, <2>3, <2>4
<1> QED
  BY <1>10, <1>12, <1>13 DEF CostInv

(* Who waits for a function that is ready was not taken and is not ready.  *)
LEMMA CallersWait ==
  ASSUME CostInv, NEW c \in ready, NEW n \in CallersOf(c)
  PROVE  /\ n \in Callable \ recursive /\ c \in Callees(n) \ Taken
         /\ remaining[n] > 0 /\ n \notin Taken /\ n \notin ready
<1>1. n \in Callable \ recursive /\ c \in Callees(n) \ Taken
  BY DEF CallersOf, Taken
<1>2. remaining[n] = Cardinality(Callees(n) \ Taken)
  BY <1>1 DEF CostInv
<1>3. remaining[n] # 0
  BY <1>1, <1>2, CalleesFinite, FS_EmptySet
<1> QED
  BY <1>1, <1>3 DEF CostInv, CostTypes, Taken

LEMMA TakingOne ==
  ASSUME CostInv, NEW c \in Callable, Take(c)
  PROVE  /\ Taken' = Taken \cup {c} /\ c \notin Taken
         /\ \A n \in Taken' : costs'[n] = costs[n] /\ n \notin CallersOf(c)
<1>1. /\ c \in ready
      /\ remaining' = [n \in Callable |-> IF n \in CallersOf(c) THEN remaining[n] - 1
                                          ELSE remaining[n]]
      /\ ready' = (ready \ {c}) \cup {n \in CallersOf(c) : Known(n, c)}
      /\ costs' = [n \in Callable |-> IF n \in CallersOf(c) THEN WithCalls(n, c) ELSE costs[n]]
  BY DEF Take
<1>2. \A n \in CallersOf(c) : remaining[n] > 0 /\ n \notin Taken /\ n \notin ready
  BY <1>1, CallersWait
<1>3. remaining \in [Callable -> Nat] /\ remaining[c] = 0 /\ c \notin Taken
  BY <1>1 DEF CostInv, CostTypes, Taken
<1>4. ASSUME NEW n \in Taken' PROVE n \in Taken \cup {c}
  <2>1. n \in Callable /\ remaining'[n] = 0 /\ n \notin ready'
    BY DEF Taken
  <2>2. CASE n \in CallersOf(c)
    <3>1. remaining'[n] = remaining[n] - 1
      BY <1>1, <2>1, <2>2
    <3>2. remaining[n] = 1
      BY <1>3, <2>1, <3>1
    <3> QED BY <1>1, <2>1, <2>2, <3>2 DEF Known
  <2>3. CASE n \notin CallersOf(c)
    BY <1>1, <2>1, <2>3 DEF Taken
  <2> QED BY <2>2, <2>3
<1>5. ASSUME NEW n \in Taken \cup {c}
      PROVE  n \in Taken' /\ costs'[n] = costs[n] /\ n \notin CallersOf(c)
  <2>1. n \in Callable /\ remaining[n] = 0 /\ n \notin CallersOf(c) /\ n \notin ready \ {c}
    BY <1>1, <1>2, <1>3 DEF Taken
  <2>2. remaining'[n] = 0 /\ n \notin ready' /\ costs'[n] = costs[n]
    BY <1>1, <2>1
  <2> QED BY <2>1, <2>2 DEF Taken
<1> QED
  BY <1>3, <1>4, <1>5

LEMMA CostTypesKept ==
  ASSUME CostInv, NEW c \in Callable, Take(c)
  PROVE  CostTypes'
<1>1. /\ c \in ready
      /\ remaining' = [n \in Callable |-> IF n \in CallersOf(c) THEN remaining[n] - 1
                                          ELSE remaining[n]]
      /\ ready' = (ready \ {c}) \cup {n \in CallersOf(c) : Known(n, c)}
      /\ costs' = [n \in Callable |-> IF n \in CallersOf(c) THEN WithCalls(n, c) ELSE costs[n]]
      /\ calls' = calls /\ own' = own /\ recursive' = recursive
  BY DEF Take
<1>2. CostTypes /\ Greatest \in Nat
  BY CostAssumption DEF CostInv
<1>3. \A n \in CallersOf(c) : n \in Callable /\ remaining[n] > 0 /\ n \notin ready
  BY <1>1, CallersWait
<1>4. costs' \in [Callable -> 0..Greatest]
  <2>1. ASSUME NEW n \in Callable PROVE WithCalls(n, c) \in 0..Greatest
    <3>1. costs[n] \in Nat /\ costs[c] * calls[n][c] \in Nat
      BY <1>2, WeightsAreNatural DEF CostTypes
    <3>2. Saturating(costs[c] * calls[n][c]) \in Nat
      BY <1>2, <3>1 DEF Saturating
    <3> QED BY <1>2, <3>1, <3>2 DEF WithCalls, Saturating
  <2>2. costs \in [Callable -> 0..Greatest]
    BY <1>2 DEF CostTypes
  <2> QED BY <1>1, <2>1, <2>2
<1>5. remaining' \in [Callable -> Nat]
  <2>1. remaining \in [Callable -> Nat]
    BY <1>2 DEF CostTypes
  <2> QED BY <1>1, <1>3, <2>1
<1>6. ready' \subseteq Callable
  BY <1>1, <1>2, <1>3 DEF CostTypes
<1>7. ASSUME NEW n \in ready' PROVE remaining'[n] = 0
  <2>1. CASE n \in ready
    BY <1>1, <1>2, <1>3, <2>1 DEF CostTypes
  <2>2. CASE n \in CallersOf(c) /\ Known(n, c)
    <3>1. remaining[n] = 1 /\ n \in Callable
      BY <1>3, <2>2 DEF Known
    <3> QED BY <1>1, <2>2, <3>1
  <2> QED BY <1>1, <2>1, <2>2
<1>8. ASSUME NEW n PROVE Callees(n)' = Callees(n)
  BY <1>1 DEF Callees
<1>9. ASSUME NEW n \in Callable PROVE Called(n)' = Called(n)
  BY <1>8 DEF Called
<1>10. recursive' = {n \in Callable : n \in Called(n)'}
  BY <1>1, <1>2, <1>9 DEF CostTypes
<1> QED
  BY <1>1, <1>2, <1>4, <1>5, <1>6, <1>7, <1>10 DEF CostTypes

LEMMA CostsKept ==
  ASSUME CostInv, NEW c \in Callable, Take(c)
  PROVE  CostInv'
<1>1. /\ c \in ready
      /\ remaining' = [n \in Callable |-> IF n \in CallersOf(c) THEN remaining[n] - 1
                                          ELSE remaining[n]]
      /\ costs' = [n \in Callable |-> IF n \in CallersOf(c) THEN WithCalls(n, c) ELSE costs[n]]
      /\ calls' = calls /\ own' = own /\ recursive' = recursive
  BY DEF Take
<1>2. CostTypes /\ Greatest \in Nat
  BY CostAssumption DEF CostInv
<1>3. CostTypes'
  BY CostTypesKept
<1>4. /\ Taken' = Taken \cup {c} /\ c \notin Taken
      /\ \A n \in Taken' : costs'[n] = costs[n]
  BY TakingOne
<1>5. ASSUME NEW n PROVE Callees(n)' = Callees(n)
  BY <1>1 DEF Callees
<1>6. ASSUME NEW n \in recursive'
      PROVE  remaining'[n] = 0 /\ costs'[n] = Greatest
  <2>1. n \in Callable /\ n \notin CallersOf(c) /\ remaining[n] = 0 /\ costs[n] = Greatest
    BY <1>1, <1>2 DEF CostInv, CostTypes, CallersOf
  <2> QED BY <1>1, <2>1
<1>7. ASSUME NEW n \in Callable \ recursive'
      PROVE  /\ remaining'[n] = Cardinality(Callees(n)' \ Taken')
             /\ costs'[n] = Saturating(own'[n] + WeightOf(Weight(n)', Callees(n)' \cap Taken'))
  <2> DEFINE S == Callees(n)
             g == Weight(n)
             h == Weight(n)'
             A == S \cap Taken
             B == S \cap Taken'
  <2>1. /\ n \in Callable \ recursive /\ own'[n] = own[n] /\ own[n] \in Nat
        /\ remaining[n] = Cardinality(S \ Taken) /\ costs[n] = Saturating(own[n] + WeightOf(g, A))
    <3>1. n \in Callable \ recursive /\ own' = own
      BY <1>1
    <3>2. own[n] \in Nat
      BY <1>2, <3>1 DEF CostTypes
    <3> QED BY <3>1, <3>2 DEF CostInv
  <2>2. IsFiniteSet(A) /\ IsFiniteSet(S \ Taken) /\ IsFiniteSet(B) /\ S \subseteq Callable
    <3>1. IsFiniteSet(S) /\ S \subseteq Callable
      BY CalleesFinite DEF Callees
    <3> QED BY <3>1, FS_Subset
  <2>3. ASSUME NEW y \in B PROVE g[y] \in Nat /\ h[y] = g[y]
    <3>1. y \in Callable /\ costs'[y] = costs[y] /\ calls' = calls
      BY <1>1, <1>4, <2>2
    <3>2. h[y] = costs'[y] * calls'[n][y] /\ g[y] = costs[y] * calls[n][y]
      BY <3>1 DEF Weight
    <3>3. g[y] \in Nat
      BY <1>2, <3>1, WeightsAreNatural
    <3> QED BY <3>1, <3>2, <3>3
  <2>4. WeightOf(h, B) = WeightOf(g, B)
    <3> HIDE DEF g, h, B
    <3> QED BY <2>2, <2>3, WeightSame
  <2>5. CASE c \in S
    <3>1. n \in CallersOf(c)
      BY <2>1, <2>5 DEF CallersOf
    <3>2. S \ Taken' = (S \ Taken) \ {c} /\ c \in S \ Taken /\ B = A \cup {c} /\ c \notin A
      BY <1>4, <2>5
    <3>3. remaining'[n] = remaining[n] - 1
      BY <1>1, <2>1, <3>1
    <3>4. Cardinality(S \ Taken') = Cardinality(S \ Taken) - 1
      BY <2>2, <3>2, FS_RemoveElement
    <3>5. \A y \in A \cup {c} : g[y] \in Nat
      BY <2>3, <3>2
    <3>6. /\ WeightOf(g, B) = g[c] + WeightOf(g, A)
          /\ WeightOf(g, A) \in Nat
      <4> HIDE DEF g, A, B
      <4> QED BY <2>2, <3>2, <3>5, WeightMore
    <3>7. g[c] = costs[c] * calls[n][c] /\ g[c] \in Nat
      BY <1>2, <2>1, WeightsAreNatural
    <3>8. costs'[n] = Saturating(costs[n] + Saturating(costs[c] * calls[n][c]))
      BY <1>1, <2>1, <3>1 DEF WithCalls
    <3>9. Saturating(costs[n] + Saturating(g[c])) = Saturating((own[n] + WeightOf(g, A)) + g[c])
      <4> HIDE DEF g, A
      <4>1. own[n] + WeightOf(g, A) \in Nat
        BY <2>1, <3>6
      <4> QED BY <2>1, <3>7, <4>1, SaturatingTwice
    <3>10. (own[n] + WeightOf(g, A)) + g[c] = own[n] + WeightOf(g, B)
      <4> HIDE DEF g, A, B
      <4> QED BY <2>1, <3>6, <3>7
    <3>11. costs'[n] = Saturating(own[n] + WeightOf(h, B))
      <4> HIDE DEF g, h, A, B
      <4> QED BY <2>4, <3>7, <3>8, <3>9, <3>10
    <3> QED BY <1>5, <2>1, <3>3, <3>4, <3>11
  <2>6. CASE c \notin S
    <3>1. n \notin CallersOf(c)
      BY <2>6 DEF CallersOf
    <3>2. S \ Taken' = S \ Taken /\ B = A
      BY <1>4, <2>6
    <3>3. remaining'[n] = remaining[n] /\ costs'[n] = costs[n]
      BY <1>1, <2>1, <3>1
    <3> QED BY <1>5, <2>1, <2>4, <3>2, <3>3
  <2> QED BY <2>5, <2>6
<1> QED
  BY <1>3, <1>6, <1>7 DEF CostInv

(* No function waits for ever: those that did would call each other in a   *)
(* cycle, but a function on a cycle is recursive and waits for nobody.     *)
LEMMA AllTaken ==
  ASSUME CostInv, ready = {}
  PROVE  Taken = Callable
<1> DEFINE T == {n \in Callable : remaining[n] # 0}
           e == [n \in Callable |-> Callees(n)]
<1>1. Taken = Callable \ T
  BY DEF Taken
<1> SUFFICES ASSUME T # {} PROVE FALSE
  BY <1>1
<1>2. e \in [Callable -> SUBSET Callable] /\ IsFiniteSet(Callable)
  BY CostAssumption DEF Callees
<1>3. ASSUME NEW n \in T PROVE n \notin recursive /\ e[n] \cap T # {}
  <2>1. n \in Callable \ recursive
    BY DEF CostInv
  <2>2. Cardinality(Callees(n) \ Taken) # 0
    BY <2>1 DEF CostInv
  <2>3. Callees(n) \ Taken # {}
    BY <2>2, FS_EmptySet
  <2>4. Callees(n) \ Taken \subseteq T
    BY <1>1 DEF Callees
  <2> QED BY <2>1, <2>3, <2>4
<1>4. PICK p \in T : p \in Reach(e, p)
  <2>1. T \in SUBSET Callable /\ T # {} /\ \A n \in T : e[n] \cap T # {}
    BY <1>3
  <2> HIDE DEF T, e
  <2> QED BY <1>2, <2>1, CycleWithin
<1>5. Reach(e, p) = Called(p)
  BY <1>4 DEF Reach, Called
<1> QED
  BY <1>3, <1>4, <1>5 DEF CostInv, CostTypes

LEMMA CostsFinal == CostInv => CostsExact
<1> SUFFICES ASSUME CostInv, ready = {}, NEW n \in Callable
             PROVE  /\ costs[n] = IF n \in recursive THEN Greatest
                                  ELSE Saturating(own[n] + CallCosts(n))
                    /\ Bounded(n) => \A c \in Callees(n) : Bounded(c)
  BY DEF CostsExact
<1>1. CostTypes /\ Greatest \in Nat
  BY CostAssumption DEF CostInv
<1>2. Callees(n) \cap Taken = Callees(n)
  BY AllTaken DEF Callees
<1>3. CASE n \in recursive
  BY <1>3 DEF CostInv, Bounded
<1>4. CASE n \notin recursive
  <2>1. costs[n] = Saturating(own[n] + CallCosts(n))
    BY <1>1, <1>2, <1>4, CallsWeigh DEF CostInv
  <2>2. ASSUME NEW c \in Callees(n), ~ Bounded(c) PROVE costs[n] = Greatest
    <3> DEFINE S == Callees(n) \ {c}
               g == Weight(n)
               k == calls[n][c]
    <3>1. c \in Callable /\ costs[c] = Greatest /\ k \in Nat /\ k > 0
      BY <1>1, <2>2 DEF Callees, Bounded, CostInv, CostTypes
    <3>2. g[c] = Greatest * k
      BY <1>1, <3>1, WeightsAreNatural
    <3>3. IsFiniteSet(S) /\ c \notin S /\ S \cup {c} = Callees(n) /\ S \cup {c} \subseteq Callable
      <4>1. IsFiniteSet(Callees(n))
        BY CalleesFinite
      <4> QED BY <4>1, FS_Subset DEF Callees
    <3>4. \A y \in S \cup {c} : g[y] \in Nat
      BY <1>1, <3>3, WeightsAreNatural
    <3>5. WeightOf(g, Callees(n)) = g[c] + WeightOf(g, S) /\ WeightOf(g, S) \in Nat
      <4> HIDE DEF g, S
      <4> QED BY <3>3, <3>4, WeightMore
    <3>6. Greatest * k >= Greatest
      <4>1. PICK j \in Nat : k = 1 + j
        <5>1. k - 1 \in Nat /\ k = 1 + (k - 1)
          BY <3>1
        <5> HIDE DEF k
        <5> QED BY <5>1
      <4>2. Greatest * (1 + j) = Greatest + Greatest * j /\ Greatest * j \in Nat
        BY <1>1, <4>1
      <4> HIDE DEF k
      <4> QED BY <1>1, <4>1, <4>2
    <3>7. CallCosts(n) = Greatest * k + WeightOf(g, S)
      BY <1>1, <3>2, <3>5, CallsWeigh
    <3>8. own[n] \in Nat /\ Greatest * k \in Nat
      BY <1>1, <3>1 DEF CostTypes
    <3> HIDE DEF g, S, k
    <3>9. own[n] + CallCosts(n) >= Greatest
      BY <1>1, <3>5, <3>6, <3>7, <3>8
    <3> QED BY <1>1, <2>1, <3>5, <3>7, <3>8, <3>9 DEF Saturating
  <2> QED BY <1>4, <2>1, <2>2 DEF Bounded
<1> QED
  BY <1>3, <1>4

(* Whatever the call graph, each function ends with its own cost and those *)
(* of its calls, and none that reaches a cycle or saturates is bounded.    *)
(* (semantic.rs, solve_weighted_costs.)                                    *)
THEOREM CostsAreExact == CostSpec => []CostsExact
<1>1. CostInit => CostInv
  BY CostsStart
<1>2. CostInv /\ [CostNext]_costVars => CostInv'
  <2> SUFFICES ASSUME CostInv, [CostNext]_costVars PROVE CostInv'
    OBVIOUS
  <2>1. ASSUME NEW c \in Callable, Take(c) PROVE CostInv'
    BY <2>1, CostsKept
  <2>2. CASE UNCHANGED costVars
    <3>1. /\ calls' = calls /\ own' = own /\ recursive' = recursive /\ costs' = costs
          /\ remaining' = remaining /\ ready' = ready
      BY <2>2 DEF costVars
    <3>2. ASSUME NEW n PROVE Callees(n)' = Callees(n) /\ Weight(n)' = Weight(n)
      BY <3>1 DEF Callees, Weight
    <3>3. ASSUME NEW n PROVE Called(n)' = Called(n)
      BY <3>2 DEF Called
    <3>4. Taken' = Taken
      BY <3>1 DEF Taken
    <3>5. CostTypes'
      BY <3>1, <3>3 DEF CostInv, CostTypes
    <3> QED BY <3>1, <3>2, <3>4, <3>5 DEF CostInv
  <2> QED
    BY <2>1, <2>2 DEF CostNext
<1> QED
  BY <1>1, <1>2, CostsFinal, PTL DEF CostSpec
-----------------------------------------------------------------------------
(***************************************************************************)
(* Strongly connected components                                           *)
(***************************************************************************)

(* The nodes that reach n and are reached from it.                         *)
Class(n) == {m \in Vertex : m = n \/ (m \in After(n) /\ n \in After(m))}

(* A node on the stack whose edges are being followed, and one to look at. *)
Expanded(i, v) == i \in DOMAIN stack /\ v \in Vertex /\ stack[i] = <<v, TRUE>>
Pending(i, v)  == i \in DOMAIN stack /\ v \in Vertex /\ stack[i] = <<v, FALSE>>

Gray == {v \in Vertex : \E i \in DOMAIN stack : Expanded(i, v)}

Finished == ToSet(finishOrder)

(* All that x reaches is finished, none of it after the whole class of x.  *)
Settled(x) ==
  \A y \in {x} \cup After(x) :
    /\ y \in Finished
    /\ \A j \in DOMAIN finishOrder : finishOrder[j] = y =>
         \E i \in DOMAIN finishOrder : i >= j /\ finishOrder[i] \in Class(x)

SearchTypes ==
  /\ edges \in [Vertex -> SUBSET Vertex]
  /\ phase \in {"order", "gather", "found"}
  /\ roots \in Seq(Vertex) /\ finishOrder \in Seq(Vertex) /\ visited \in SUBSET Vertex
  /\ phase = "order" => stack \in Seq(Vertex \X BOOLEAN)
  /\ phase # "order" => stack \in Seq(Vertex)

(* The first pass.  A node on the stack whose edges are followed is above  *)
(* the nodes from which it was reached and below its edges that were not   *)
(* looked at; what a finished node reaches is finished before the last of  *)
(* its class, unless some of its class is still on the stack.              *)
OrderInv ==
  /\ component = {} /\ components = {}
  /\ visited = Gray \cup Finished /\ Gray \cap Finished = {}
  /\ \A i, j \in DOMAIN stack : \A v \in Vertex : Expanded(i, v) /\ Expanded(j, v) => i = j
  /\ \A i, j \in DOMAIN stack : \A v, w \in Vertex :
       Expanded(i, v) /\ (Expanded(j, w) \/ Pending(j, w)) /\ i < j => w \in After(v)
  /\ \A v \in Finished : edges[v] \subseteq visited
  /\ \A i \in DOMAIN stack : \A v \in Vertex : \A w \in edges[v] :
       Expanded(i, v) => w \in visited \/ \E j \in DOMAIN stack : j > i /\ Pending(j, w)
  /\ \A v \in Vertex : \/ v \in visited \/ v \in ToSet(roots)
                       \/ \E i \in DOMAIN stack : Pending(i, v)
  /\ \A x \in Finished : (\E g \in Gray : g \in Class(x)) \/ Settled(x)

(* Nodes of the component being gathered, and the root it is gathered from *)
Open == component \cup ToSet(stack)
Gathered == UNION components
Root == finishOrder[Len(roots) + 1]

(* The second pass.  What is visited is a union of classes and a part of   *)
(* the class of the root, and every node that finished after the root is   *)
(* visited.                                                                *)
GatherInv ==
  /\ \A x \in Vertex : x \in Finished /\ Settled(x)
  /\ Len(roots) <= Len(finishOrder)
  /\ \A i \in 1..Len(roots) : roots[i] = finishOrder[Len(roots) + 1 - i]
  /\ \A j \in DOMAIN finishOrder : j > Len(roots) => finishOrder[j] \in visited
  /\ \A C \in components : \E n \in Vertex : C = Class(n)
  /\ visited = Gathered \cup Open /\ Open \cap Gathered = {}
  /\ Open # {} => /\ Len(roots) < Len(finishOrder)
                  /\ Root \in Open /\ Open \subseteq Class(Root)
  /\ \A n \in component : Predecessors(n) \subseteq visited
  /\ phase = "found" => stack = <<>> /\ component = {} /\ roots = <<>>

SearchInv ==
  /\ SearchTypes
  /\ phase = "order" => OrderInv
  /\ phase # "order" => GatherInv

-----------------------------------------------------------------------------

LEMMA AfterIsReach ==
  ASSUME edges \in [Vertex -> SUBSET Vertex], NEW n \in Vertex
  PROVE  After(n) = Reach(edges, n)
  BY DEF After, Reach

LEMMA AfterCloses ==
  ASSUME edges \in [Vertex -> SUBSET Vertex], NEW n \in Vertex
  PROVE  /\ After(n) \subseteq Vertex /\ edges[n] \subseteq After(n)
         /\ \A m \in After(n) : edges[m] \subseteq After(n) /\ After(m) \subseteq After(n)
<1>1. After(n) \subseteq Vertex
  BY DEF After
<1>2. \A m \in After(n) : After(m) = Reach(edges, m)
  BY <1>1, AfterIsReach
<1> QED
  BY <1>1, <1>2, AfterIsReach, ReachCloses, ReachTransitive

LEMMA AfterWithin ==
  ASSUME edges \in [Vertex -> SUBSET Vertex], NEW n \in Vertex,
         NEW S \in SUBSET Vertex, edges[n] \subseteq S, \A m \in S : edges[m] \subseteq S
  PROVE  After(n) \subseteq S
  BY DEF After

LEMMA SameClass ==
  ASSUME edges \in [Vertex -> SUBSET Vertex], NEW n \in Vertex, NEW m \in Class(n)
  PROVE  m \in Vertex /\ n \in Class(m) /\ Class(m) = Class(n)
<1>1. m \in Vertex /\ n \in Class(m)
  BY DEF Class
<1>2. ASSUME NEW a \in Vertex, NEW b \in Class(a), NEW c \in Class(b) PROVE c \in Class(a)
  <2>1. /\ b \in Vertex /\ c \in Vertex
        /\ b = a \/ (b \in After(a) /\ a \in After(b))
        /\ c = b \/ (c \in After(b) /\ b \in After(c))
    BY DEF Class
  <2> QED
    BY <2>1, AfterCloses DEF Class
<1> QED
  BY <1>1, <1>2

LEMMA InClass ==
  ASSUME edges \in [Vertex -> SUBSET Vertex], NEW n \in Vertex, NEW m \in Vertex
  PROVE  m \in Class(n) <=> m = n \/ (m \in After(n) /\ n \in After(m))
  BY DEF Class

(* Who reaches itself has others in its class or an edge to itself.        *)
LEMMA OwnCycle ==
  ASSUME edges \in [Vertex -> SUBSET Vertex], NEW n \in Vertex
  PROVE  n \in After(n) <=> n \in edges[n] \/ Class(n) # {n}
<1>1. ASSUME n \in After(n), n \notin edges[n] PROVE Class(n) # {n}
  <2>1. PICK m \in edges[n] : n \in Reach(edges, m)
    BY <1>1, AfterIsReach, ReachFirstStep
  <2>2. m \in Vertex /\ m \in After(n) /\ n \in After(m) /\ m # n
    BY <1>1, <2>1, AfterCloses, AfterIsReach
  <2> QED
    BY <2>2 DEF Class
<1>2. ASSUME Class(n) # {n} PROVE n \in After(n)
  <2>1. PICK m \in Class(n) : m # n
    BY <1>2 DEF Class
  <2> QED
    BY <2>1, AfterCloses DEF Class
<1>3. n \in edges[n] => n \in After(n)
  BY AfterCloses
<1> QED
  BY <1>1, <1>2, <1>3

-----------------------------------------------------------------------------

LEMMA SortedHolds ==
  ASSUME NEW S \in SUBSET Vertex
  PROVE  Sorted(S) \in Seq(S) /\ ToSet(Sorted(S)) = S
<1> DEFINE n == Cardinality(S)
           s == Sorted(S)
<1>1. IsFiniteSet(S) /\ S \subseteq Nat
  BY GraphAssumption, FS_Subset
<1>2. n \in Nat
  BY <1>1, FS_CardinalityType
<1>3. PICK t : Rises(t, n, S)
  BY <1>1, RisingExists
<1>4. t \in [1..n -> S] /\ \A i, j \in DOMAIN t : i < j => t[i] < t[j]
  BY <1>3 DEF Rises
<1>5. s \in [1..n -> S] /\ \A i, j \in DOMAIN s : i < j => s[i] < s[j]
  BY <1>4 DEF Sorted
<1> HIDE DEF s, n
<1>6. ASSUME NEW i \in 1..n, NEW j \in 1..n, s[i] = s[j] PROVE i = j
  <2>1. s[i] \in S /\ s[j] \in S /\ i \in DOMAIN s /\ j \in DOMAIN s
    BY <1>5
  <2>2. i \in Int /\ j \in Int
    OBVIOUS
  <2>3. S \subseteq Nat
    BY <1>1
  <2>4. s[i] \in Nat /\ s[j] \in Nat
    BY ONLY <2>1, <2>3
  <2> QED BY <1>5, <1>6, <2>1, <2>2, <2>4
<1>7. s \in Injection(1..n, S)
  BY <1>5, <1>6 DEF Injection, IsInjective
<1>8. Cardinality(1..n) = n
  BY <1>2, FS_Interval
<1>9. s \in Surjection(1..n, S)
  BY <1>1, <1>7, <1>8, FS_Injection DEF n
<1>10. \A x \in S : \E i \in 1..n : s[i] = x
  BY <1>9 DEF Surjection
<1>11. ToSet(s) = S
  BY <1>5, <1>10 DEF ToSet
<1>12. s \in Seq(S)
  BY <1>2, <1>5
<1> QED
  BY <1>11, <1>12 DEF s

LEMMA ReverseHolds ==
  ASSUME NEW S, NEW s \in Seq(S)
  PROVE  /\ Reverse(s) \in Seq(S) /\ ToSet(Reverse(s)) = ToSet(s) /\ Len(Reverse(s)) = Len(s)
         /\ \A i \in 1..Len(s) : Reverse(s)[i] = s[Len(s) + 1 - i]
<1> DEFINE n == Len(s)
           r == Reverse(s)
<1>1. n \in Nat /\ s \in [1..n -> S]
  OBVIOUS
<1>2. r = [i \in 1..n |-> s[(n - i) + 1]]
  BY DEF Reverse
<1>3. \A i \in 1..n : (n - i) + 1 \in 1..n /\ (n - i) + 1 = n + 1 - i
  BY <1>1
<1>4. r \in [1..n -> S] /\ \A i \in 1..n : r[i] = s[n + 1 - i]
  BY <1>1, <1>2, <1>3
<1>5. r \in Seq(S) /\ Len(r) = n
  BY <1>1, <1>4
<1>6. ToSet(r) = ToSet(s)
  <2>1. \A i \in 1..n : n + 1 - (n + 1 - i) = i /\ n + 1 - i \in 1..n
    BY <1>1
  <2>2. DOMAIN r = 1..n /\ DOMAIN s = 1..n
    BY <1>1, <1>4
  <2> HIDE DEF n, r
  <2> QED BY <1>4, <2>1, <2>2 DEF ToSet
<1> QED
  BY <1>4, <1>5, <1>6

LEMMA FrontHolds ==
  ASSUME NEW S, NEW s \in Seq(S), s # <<>>
  PROVE  /\ Front(s) \in Seq(S) /\ Len(Front(s)) = Len(s) - 1 /\ Len(s) \in Nat \ {0}
         /\ \A i \in 1..(Len(s) - 1) : Front(s)[i] = s[i]
         /\ Last(s) = s[Len(s)] /\ Last(s) \in S
         /\ ToSet(s) = ToSet(Front(s)) \cup {Last(s)}
<1> DEFINE n == Len(s)
           f == Front(s)
<1>1. n \in Nat \ {0} /\ DOMAIN s = 1..n /\ Last(s) = s[n] /\ s[n] \in S
  BY DEF Last
<1>2. f \in Seq(S) /\ Len(f) = n - 1 /\ DOMAIN f = 1..(n - 1) /\ \A i \in 1..(n - 1) : f[i] = s[i]
  BY <1>1 DEF Front
<1>3. ToSet(s) = ToSet(f) \cup {Last(s)}
  <2> HIDE DEF n, f
  <2>1. \A i \in 1..n : i \in 1..(n - 1) \/ i = n
    BY <1>1
  <2>2. n \in 1..n /\ \A i \in 1..(n - 1) : i \in 1..n
    BY <1>1
  <2> QED BY <1>1, <1>2, <2>1, <2>2 DEF ToSet
<1> QED
  BY <1>1, <1>2, <1>3

LEMMA JoinHolds ==
  ASSUME NEW S, NEW s \in Seq(S), NEW t \in Seq(S)
  PROVE  /\ s \o t \in Seq(S) /\ ToSet(s \o t) = ToSet(s) \cup ToSet(t)
         /\ Len(s \o t) = Len(s) + Len(t)
         /\ \A i \in 1..Len(s) : (s \o t)[i] = s[i]
         /\ \A i \in 1..Len(t) : (s \o t)[Len(s) + i] = t[i]
<1> DEFINE m == Len(s)
           n == Len(t)
           u == s \o t
<1>1. m \in Nat /\ n \in Nat /\ DOMAIN s = 1..m /\ DOMAIN t = 1..n /\ DOMAIN u = 1..(m + n)
  OBVIOUS
<1>2. \A i \in 1..(m + n) : u[i] = IF i <= m THEN s[i] ELSE t[i - m]
  OBVIOUS
<1>3. \A i \in 1..m : u[i] = s[i] /\ i \in 1..(m + n)
  BY <1>1, <1>2
<1>4. \A i \in 1..n : u[m + i] = t[i] /\ m + i \in 1..(m + n)
  <2> SUFFICES ASSUME NEW i \in 1..n PROVE u[m + i] = t[i] /\ m + i \in 1..(m + n)
    OBVIOUS
  <2>1. m + i \in 1..(m + n) /\ ~ (m + i <= m) /\ (m + i) - m = i
    BY <1>1
  <2> HIDE DEF m, n, u
  <2> QED BY <1>2, <2>1
<1>5. \A i \in 1..(m + n) : i \in 1..m \/ i - m \in 1..n
  BY <1>1
<1>6. \A i \in 1..(m + n) : i <= m <=> i \in 1..m
  BY <1>1
<1>7. ToSet(u) = ToSet(s) \cup ToSet(t)
  <2> HIDE DEF m, n, u
  <2>1. ToSet(s) \subseteq ToSet(u) /\ ToSet(t) \subseteq ToSet(u)
    BY <1>1, <1>3, <1>4 DEF ToSet
  <2>2. ASSUME NEW i \in 1..(m + n) PROVE u[i] \in ToSet(s) \cup ToSet(t)
    BY <1>1, <1>2, <1>5, <1>6 DEF ToSet
  <2> QED BY <1>1, <2>1, <2>2 DEF ToSet
<1> QED
  BY <1>3, <1>4, <1>7

-----------------------------------------------------------------------------

(* A fresh node comes on the stack again, below its edges.                 *)
Pushed(node) ==
  Front(stack) \o <<<<node, TRUE>>>>
    \o [i \in DOMAIN Reverse(Sorted(edges[node])) |->
          <<Reverse(Sorted(edges[node]))[i], FALSE>>]

Renewed(k, node) ==
  /\ stack' \in Seq(Vertex \X BOOLEAN) /\ k \in DOMAIN stack'
  /\ \A i \in 1..(k - 1) : stack'[i] = stack[i] /\ i \in DOMAIN stack'
  /\ stack'[k] = <<node, TRUE>>
  /\ \A i \in DOMAIN stack' : i \in 1..(k - 1) \/ i = k \/ i > k
  /\ \A i \in DOMAIN stack' : i > k => \E w \in edges[node] : stack'[i] = <<w, FALSE>>
  /\ \A w \in edges[node] : \E i \in DOMAIN stack' : i > k /\ stack'[i] = <<w, FALSE>>

LEMMA EnteringStack ==
  ASSUME SearchTypes, phase = "order", stack # <<>>, NEW k, k = Len(stack),
         NEW node \in Vertex,
         stack' = Pushed(node)
  PROVE  Renewed(k, node)
<1> DEFINE E == Vertex \X BOOLEAN
           f == Front(stack)
           r == Reverse(Sorted(edges[node]))
           t == [i \in DOMAIN r |-> <<r[i], FALSE>>]
           n == Len(r)
           top == <<node, TRUE>>
           ft == f \o <<top>>
<1>1. stack \in Seq(E) /\ edges \in [Vertex -> SUBSET Vertex]
  BY DEF SearchTypes
<1>3. node \in Vertex /\ edges[node] \in SUBSET Vertex /\ top \in E
  BY <1>1
<1>4. r \in Seq(edges[node]) /\ ToSet(r) = edges[node]
  BY <1>3, SortedHolds, ReverseHolds
<1> HIDE DEF r
<1>5. n \in Nat /\ DOMAIN r = 1..n /\ \A i \in 1..n : r[i] \in edges[node]
  BY <1>4
<1>6. \A w \in edges[node] : \E i \in 1..n : r[i] = w
  BY <1>4, <1>5 DEF ToSet
<1> HIDE DEF n
<1>7. \A i \in 1..n : t[i] = <<r[i], FALSE>> /\ t[i] \in E
  BY <1>3, <1>5
<1>8. t \in [1..n -> E]
  BY <1>5, <1>7
<1>9. stack' = ft \o t
  BY DEF r, Pushed
<1> HIDE DEF E, t, f, top
<1>10. t \in Seq(E) /\ Len(t) = n
  BY <1>5, <1>8
<1>11. /\ f \in Seq(E) /\ Len(f) = k - 1 /\ k \in Nat \ {0}
       /\ \A i \in 1..(k - 1) : f[i] = stack[i]
  BY <1>1, FrontHolds DEF f
<1>12. <<top>> \in Seq(E) /\ Len(<<top>>) = 1 /\ <<top>>[1] = top
  BY <1>3
<1>13. /\ ft \in Seq(E) /\ Len(ft) = k /\ ft[k] = top
       /\ \A i \in 1..(k - 1) : ft[i] = stack[i]
  <2>1. /\ ft \in Seq(E) /\ Len(ft) = (k - 1) + 1
        /\ \A i \in 1..(k - 1) : ft[i] = f[i]
        /\ \A i \in 1..1 : ft[(k - 1) + i] = <<top>>[i]
    BY ONLY <1>11, <1>12, JoinHolds
  <2>2. (k - 1) + 1 = k /\ 1 \in 1..1
    BY <1>11
  <2> HIDE DEF ft
  <2> QED BY <1>11, <1>12, <2>1, <2>2
<1> HIDE DEF ft
<1>14. /\ stack' \in Seq(E) /\ Len(stack') = k + n
       /\ \A i \in 1..k : stack'[i] = ft[i]
       /\ \A i \in 1..n : stack'[k + i] = t[i]
  <2>1. /\ ft \o t \in Seq(E) /\ Len(ft \o t) = Len(ft) + Len(t)
        /\ \A i \in 1..Len(ft) : (ft \o t)[i] = ft[i]
        /\ \A i \in 1..Len(t) : (ft \o t)[Len(ft) + i] = t[i]
    <3>1. ft \in Seq(E) /\ t \in Seq(E)
      BY ONLY <1>10, <1>13
    <3> QED BY ONLY <3>1, JoinHolds
  <2> QED BY ONLY <1>9, <1>10, <1>13, <2>1
<1>15. DOMAIN stack' = 1..(k + n)
  BY <1>14
<1>16. /\ k \in 1..(k + n) /\ k \in 1..k /\ \A i \in 1..(k - 1) : i \in 1..(k + n) /\ i \in 1..k
       /\ \A i \in 1..(k + n) : i \in 1..(k - 1) \/ i = k \/ i > k
       /\ \A i \in 1..(k + n) : i > k => i - k \in 1..n /\ k + (i - k) = i
       /\ \A i \in 1..n : k + i \in 1..(k + n) /\ k + i > k
  BY ONLY <1>5, <1>11
<1>17. ASSUME NEW i \in DOMAIN stack', i > k
       PROVE  \E w \in edges[node] : stack'[i] = <<w, FALSE>>
  <2>1. i - k \in 1..n /\ stack'[i] = t[i - k]
    BY <1>14, <1>15, <1>16, <1>17
  <2> QED BY <1>5, <1>7, <2>1
<1>18. ASSUME NEW w \in edges[node]
       PROVE  \E i \in DOMAIN stack' : i > k /\ stack'[i] = <<w, FALSE>>
  <2>1. PICK i \in 1..n : r[i] = w
    BY <1>6
  <2>2. stack'[k + i] = <<w, FALSE>> /\ k + i \in DOMAIN stack' /\ k + i > k
    BY <1>7, <1>14, <1>15, <1>16, <2>1
  <2> QED BY <2>2
<1>19. stack' \in Seq(Vertex \X BOOLEAN) /\ stack'[k] = <<node, TRUE>>
  BY <1>13, <1>14, <1>16 DEF E, top
<1> QED
  BY <1>13, <1>14, <1>15, <1>16, <1>17, <1>18, <1>19 DEF Renewed

(* The top of the stack goes.                                              *)
LEMMA LeavingStack ==
  ASSUME SearchTypes, phase = "order", stack # <<>>, NEW k, k = Len(stack),
         stack' = Front(stack)
  PROVE  /\ stack' \in Seq(Vertex \X BOOLEAN) /\ DOMAIN stack' = 1..(k - 1)
         /\ \A i \in 1..(k - 1) : stack'[i] = stack[i]
<1> DEFINE E == Vertex \X BOOLEAN
<1>1. stack \in Seq(E)
  BY DEF SearchTypes
<1> HIDE DEF E
<1>2. /\ stack' \in Seq(E) /\ Len(stack') = k - 1
      /\ \A i \in 1..(k - 1) : stack'[i] = stack[i]
  BY <1>1, FrontHolds
<1> QED
  BY <1>2 DEF E

LEMMA TopOfStack ==
  ASSUME SearchTypes, phase = "order", stack # <<>>, NEW k, k = Len(stack)
  PROVE  /\ k \in Nat \ {0} /\ DOMAIN stack = 1..k /\ k \in DOMAIN stack
         /\ \A i \in DOMAIN stack : i \in 1..(k - 1) \/ i = k
         /\ \A i \in 1..(k - 1) : i \in DOMAIN stack /\ i < k
         /\ Last(stack) = stack[k] /\ Last(stack) \in Vertex \X BOOLEAN
<1> DEFINE E == Vertex \X BOOLEAN
<1>1. stack \in Seq(E)
  BY DEF SearchTypes
<1> HIDE DEF E
<1>2. k \in Nat \ {0} /\ DOMAIN stack = 1..k /\ Last(stack) = stack[k] /\ Last(stack) \in E
  <2>1. Len(stack) \in Nat \ {0} /\ Last(stack) = stack[Len(stack)] /\ Last(stack) \in E
    BY <1>1, FrontHolds
  <2>2. DOMAIN stack = 1..Len(stack)
    BY <1>1
  <2> QED BY <2>1, <2>2
<1>3. /\ k \in 1..k
      /\ \A i \in 1..k : i \in 1..(k - 1) \/ i = k
      /\ \A i \in 1..(k - 1) : i \in 1..k /\ i < k
  BY ONLY <1>2
<1> QED
  BY <1>2, <1>3 DEF E

LEMMA OnStack ==
  ASSUME SearchTypes, phase = "order", stack # <<>>, NEW k, k = Len(stack)
  PROVE  /\ k \in Nat
         /\ \A i, v : Expanded(i, v) \/ Pending(i, v)
                        => i \in DOMAIN stack /\ i \in Nat /\ v \in Vertex /\ (i < k \/ i = k)
         /\ \A i, v, w : ~ (Expanded(i, v) /\ Pending(i, w))
         /\ \A i, v, w : Expanded(i, v) /\ Expanded(i, w) => v = w
         /\ \A i, v, w : Pending(i, v) /\ Pending(i, w) => v = w
<1>1. /\ k \in Nat \ {0} /\ DOMAIN stack = 1..k
      /\ \A i \in DOMAIN stack : i \in 1..(k - 1) \/ i = k
      /\ \A i \in 1..(k - 1) : i < k
  BY TopOfStack
<1>2. ASSUME NEW i, NEW v, Expanded(i, v) \/ Pending(i, v)
      PROVE  i \in DOMAIN stack /\ i \in Nat /\ v \in Vertex /\ (i < k \/ i = k)
  <2>1. i \in DOMAIN stack /\ v \in Vertex
    BY <1>2 DEF Expanded, Pending
  <2>2. i \in 1..k
    BY <1>1, <2>1
  <2> QED BY <1>1, <2>1, <2>2
<1>3. ASSUME NEW v, NEW w PROVE <<v, TRUE>> # <<w, FALSE>>
  OBVIOUS
<1>4. ASSUME NEW v, NEW w, NEW b, <<v, b>> = <<w, b>> PROVE v = w
  BY <1>4
<1>5. ASSUME NEW i, NEW v, NEW w PROVE ~ (Expanded(i, v) /\ Pending(i, w))
  BY <1>3 DEF Expanded, Pending
<1>6. ASSUME NEW i, NEW v, NEW w, Expanded(i, v), Expanded(i, w) PROVE v = w
  BY <1>4, <1>6 DEF Expanded
<1>7. ASSUME NEW i, NEW v, NEW w, Pending(i, v), Pending(i, w) PROVE v = w
  BY <1>4, <1>7 DEF Pending
<1> QED
  BY <1>1, <1>2, <1>5, <1>6, <1>7

LEMMA Entered ==
  ASSUME SearchTypes, phase = "order", stack # <<>>, NEW k, k = Len(stack),
         NEW node, Pending(k, node),
         stack' = Pushed(node)
  PROVE  /\ stack' \in Seq(Vertex \X BOOLEAN)
         /\ \A i, v : Expanded(i, v)' <=> Expanded(i, v) \/ (i = k /\ v = node)
         /\ \A i, v : Pending(i, v) => i = k \/ Pending(i, v)'
         /\ \A i, v : Pending(i, v)' => \/ Pending(i, v) /\ i < k
                                        \/ i > k /\ v \in edges[node]
         /\ \A w \in edges[node] : \E i \in DOMAIN stack' : i > k /\ Pending(i, w)'
         /\ \A i, v : Expanded(i, v)' \/ Pending(i, v)' => i \in Nat
<1>1. stack[k] = <<node, FALSE>> /\ node \in Vertex
  BY DEF Pending
<1>2. /\ stack' \in Seq(Vertex \X BOOLEAN) /\ k \in DOMAIN stack'
      /\ \A i \in 1..(k - 1) : stack'[i] = stack[i] /\ i \in DOMAIN stack'
      /\ stack'[k] = <<node, TRUE>>
      /\ \A i \in DOMAIN stack' : i \in 1..(k - 1) \/ i = k \/ i > k
      /\ \A i \in DOMAIN stack' : i > k => \E w \in edges[node] : stack'[i] = <<w, FALSE>>
      /\ \A w \in edges[node] : \E i \in DOMAIN stack' : i > k /\ stack'[i] = <<w, FALSE>>
  <2>1. Renewed(k, node)
    BY <1>1, EnteringStack
  <2> QED BY <2>1 DEF Renewed
<1>3. /\ k \in Nat \ {0}
      /\ \A i \in DOMAIN stack : i \in 1..(k - 1) \/ i = k
      /\ \A i \in 1..(k - 1) : i \in DOMAIN stack /\ i < k
  BY TopOfStack
<1>4. edges[node] \subseteq Vertex
  BY <1>1 DEF SearchTypes
<1>5. /\ \A v, w : <<v, TRUE>> # <<w, FALSE>>
      /\ \A v, w : <<v, TRUE>> = <<w, TRUE>> => v = w
      /\ \A v, w : <<v, FALSE>> = <<w, FALSE>> => v = w
  OBVIOUS
<1>6. ASSUME NEW i, NEW v PROVE Expanded(i, v)' <=> Expanded(i, v) \/ (i = k /\ v = node)
  <2>1. ASSUME Expanded(i, v) PROVE Expanded(i, v)'
    <3>1. i # k
      BY <1>1, <1>5, <2>1 DEF Expanded
    <3> QED BY <1>2, <1>3, <2>1, <3>1 DEF Expanded
  <2>2. Expanded(k, node)'
    BY <1>1, <1>2 DEF Expanded
  <2>3. ASSUME Expanded(i, v)' PROVE Expanded(i, v) \/ (i = k /\ v = node)
    <3>1. i \in DOMAIN stack' /\ stack'[i] = <<v, TRUE>> /\ v \in Vertex
      BY <2>3 DEF Expanded
    <3>2. ~ (i > k)
      <4>1. ASSUME NEW w, stack'[i] = <<w, FALSE>> PROVE FALSE
        BY <1>5, <3>1, <4>1
      <4> QED BY <1>2, <3>1, <4>1
    <3>3. i = k => v = node
      BY <1>2, <1>5, <3>1
    <3> QED BY <1>2, <1>3, <3>1, <3>2, <3>3 DEF Expanded
  <2> QED BY <2>1, <2>2, <2>3
<1>7. ASSUME NEW i, NEW v, Pending(i, v) PROVE i = k \/ Pending(i, v)'
  BY <1>2, <1>3, <1>7 DEF Pending
<1>8. ASSUME NEW i, NEW v, Pending(i, v)'
      PROVE  (Pending(i, v) /\ i < k) \/ (i > k /\ v \in edges[node])
  <2>1. i \in DOMAIN stack' /\ stack'[i] = <<v, FALSE>> /\ v \in Vertex
    BY <1>8 DEF Pending
  <2>2. i # k
    BY <1>2, <1>5, <2>1
  <2>3. i > k => v \in edges[node]
    <3>1. ASSUME NEW w, stack'[i] = <<w, FALSE>> PROVE w = v
      BY <1>5, <2>1, <3>1
    <3> QED BY <1>2, <2>1, <3>1
  <2> QED BY <1>2, <1>3, <2>1, <2>2, <2>3 DEF Pending
<1>9. \A w \in edges[node] : \E i \in DOMAIN stack' : i > k /\ Pending(i, w)'
  BY <1>2, <1>4 DEF Pending
<1>10. \A i \in DOMAIN stack' : i \in Nat
  BY <1>2
<1>11. \A i, v : Expanded(i, v)' \/ Pending(i, v)' => i \in Nat
  BY <1>10 DEF Expanded, Pending
<1> QED
  BY <1>2, <1>6, <1>7, <1>8, <1>9, <1>11

LEMMA Left ==
  ASSUME SearchTypes, phase = "order", stack # <<>>, NEW k, k = Len(stack),
         stack' = Front(stack)
  PROVE  /\ stack' \in Seq(Vertex \X BOOLEAN) /\ DOMAIN stack' \subseteq DOMAIN stack
         /\ \A i, v : Expanded(i, v)' <=> Expanded(i, v) /\ i # k
         /\ \A i, v : Pending(i, v)' <=> Pending(i, v) /\ i # k
<1>1. /\ stack' \in Seq(Vertex \X BOOLEAN) /\ DOMAIN stack' = 1..(k - 1)
      /\ \A i \in 1..(k - 1) : stack'[i] = stack[i]
  BY LeavingStack
<1>2. /\ k \in Nat
      /\ \A i \in DOMAIN stack : i \in 1..(k - 1) \/ i = k
      /\ \A i \in 1..(k - 1) : i \in DOMAIN stack /\ i < k
  BY TopOfStack
<1>3. ~ (k < k)
  BY <1>2
<1> QED
  BY <1>1, <1>2, <1>3 DEF Expanded, Pending

(* What depends on the graph alone stays.                                  *)
LEMMA GraphStays ==
  ASSUME edges' = edges
  PROVE  /\ \A n : After(n)' = After(n) /\ Class(n)' = Class(n) /\ Predecessors(n)' = Predecessors(n)
         /\ finishOrder' = finishOrder => /\ Finished' = Finished
                                          /\ \A n : Settled(n)' = Settled(n)
<1>1. ASSUME NEW n PROVE After(n)' = After(n)
  BY DEF After
<1>2. ASSUME NEW n PROVE Class(n)' = Class(n)
  BY <1>1 DEF Class
<1>3. ASSUME finishOrder' = finishOrder
      PROVE  Finished' = Finished /\ \A n : Settled(n)' = Settled(n)
  <2>1. Finished' = Finished
    BY <1>3 DEF Finished
  <2> QED BY <1>1, <1>2, <1>3, <2>1 DEF Settled
<1> QED
  BY <1>1, <1>2, <1>3 DEF Predecessors

-----------------------------------------------------------------------------
(* The first pass                                                          *)

LEMMA OrderStarts == SearchInit => SearchInv
<1> SUFFICES ASSUME SearchInit PROVE SearchInv
  OBVIOUS
<1>1. /\ edges \in [Vertex -> SUBSET Vertex] /\ phase = "order" /\ roots = Sorted(Vertex)
      /\ stack = <<>> /\ visited = {} /\ finishOrder = <<>> /\ component = {} /\ components = {}
  BY GraphAssumption DEF SearchInit
<1>2. roots \in Seq(Vertex) /\ ToSet(roots) = Vertex
  <2>1. Vertex \in SUBSET Vertex
    OBVIOUS
  <2> QED BY <1>1, <2>1, SortedHolds
<1>3. SearchTypes
  <2>1. <<>> \in Seq(Vertex \X BOOLEAN) /\ <<>> \in Seq(Vertex)
    OBVIOUS
  <2> QED BY <1>1, <1>2, <2>1 DEF SearchTypes
<1>4. Gray = {} /\ Finished = {}
  BY <1>1 DEF Gray, Finished, ToSet
<1>5. OrderInv
  BY <1>1, <1>2, <1>4 DEF OrderInv
<1> QED
  BY <1>1, <1>3, <1>5 DEF SearchInv

LEMMA Entering ==
  ASSUME SearchTypes, phase = "order", OrderInv, stack # <<>>, NEW k, k = Len(stack),
         NEW node, Pending(k, node), node \notin visited,
         edges' = edges, roots' = roots, finishOrder' = finishOrder, component' = component,
         components' = components, visited' = visited \cup {node},
         stack' = Pushed(node)
  PROVE  OrderInv' /\ visited' \in SUBSET Vertex /\ stack' \in Seq(Vertex \X BOOLEAN)
<1>1. /\ stack' \in Seq(Vertex \X BOOLEAN)
      /\ \A i, v : Expanded(i, v)' <=> Expanded(i, v) \/ (i = k /\ v = node)
      /\ \A i, v : Pending(i, v) => i = k \/ Pending(i, v)'
      /\ \A i, v : Pending(i, v)' => \/ Pending(i, v) /\ i < k
                                     \/ i > k /\ v \in edges[node]
      /\ \A w \in edges[node] : \E i \in DOMAIN stack' : i > k /\ Pending(i, w)'
      /\ \A i, v : Expanded(i, v)' \/ Pending(i, v)' => i \in Nat
  BY Entered
<1>2. /\ k \in Nat
      /\ \A i, v : Expanded(i, v) \/ Pending(i, v)
                     => i \in DOMAIN stack /\ i \in Nat /\ v \in Vertex /\ (i < k \/ i = k)
      /\ \A i, v, w : ~ (Expanded(i, v) /\ Pending(i, w))
      /\ \A i, v, w : Pending(i, v) /\ Pending(i, w) => v = w
  BY OnStack
<1>3. edges \in [Vertex -> SUBSET Vertex] /\ node \in Vertex /\ visited \in SUBSET Vertex
  BY <1>2 DEF SearchTypes
<1>4. edges[node] \subseteq After(node)
  BY <1>3, AfterCloses
<1>5. /\ Finished' = Finished /\ \A n : After(n)' = After(n) /\ Class(n)' = Class(n)
      /\ \A n : Settled(n)' = Settled(n)
  BY GraphStays
<1>6. \A i, v : Expanded(i, v)' => i \in DOMAIN stack'
  BY DEF Expanded
<1>7. \A i, v : Pending(i, v)' => i \in DOMAIN stack'
  BY DEF Pending
<1>8. Gray' = Gray \cup {node}
  BY <1>1, <1>2, <1>3, <1>6 DEF Gray
<1>9. component' = {} /\ components' = {}
  BY DEF OrderInv
<1>10. visited' = Gray' \cup Finished' /\ Gray' \cap Finished' = {}
  BY <1>5, <1>8 DEF OrderInv
<1>11. node \notin Gray
  BY DEF OrderInv
<1>12. ASSUME NEW i \in DOMAIN stack', NEW j \in DOMAIN stack', NEW v \in Vertex,
              Expanded(i, v)', Expanded(j, v)'
       PROVE  i = j
  <2>1. CASE v = node
    BY <1>1, <1>2, <1>3, <1>11, <1>12, <2>1 DEF Gray
  <2>2. CASE v # node
    <3>1. Expanded(i, v) /\ Expanded(j, v) /\ i \in DOMAIN stack /\ j \in DOMAIN stack
      BY <1>1, <1>2, <1>12, <2>2
    <3> QED BY <3>1 DEF OrderInv
  <2> QED BY <2>1, <2>2
<1>13. ASSUME NEW i \in DOMAIN stack', NEW j \in DOMAIN stack', NEW v \in Vertex, NEW w \in Vertex,
              Expanded(i, v)', Expanded(j, w)' \/ Pending(j, w)', i < j
       PROVE  w \in After(v)
  <2>1. i \in Nat /\ j \in Nat
    BY <1>1, <1>13
  <2>2. ASSUME Expanded(i, v), Expanded(j, w) \/ Pending(j, w) PROVE w \in After(v)
    <3>1. i \in DOMAIN stack /\ j \in DOMAIN stack
      BY <1>2, <2>2
    <3> QED BY <1>13, <2>2, <3>1 DEF OrderInv
  <2>3. CASE Expanded(i, v)
    <3>1. CASE Expanded(j, w) \/ (Pending(j, w) /\ j < k)
      BY <2>2, <2>3, <3>1
    <3>2. CASE j >= k /\ (w = node \/ w \in edges[node])
      <4>1. i < k /\ i \in DOMAIN stack
        BY <1>2, <2>3
      <4>2. node \in After(v)
        BY <1>2, <1>3, <1>13, <2>3, <4>1 DEF OrderInv
      <4> QED BY <1>3, <3>2, <4>2, AfterCloses
    <3> QED BY <1>1, <1>2, <1>13, <2>1, <3>1, <3>2
  <2>4. CASE i = k /\ v = node
    <3>1. ~ Expanded(j, w) /\ ~ (j < k) /\ j # k
      BY <1>2, <1>13, <2>1, <2>4
    <3> QED BY <1>1, <1>4, <1>13, <2>4, <3>1
  <2> QED BY <1>1, <1>13, <2>3, <2>4
<1>14. \A v \in Finished' : edges'[v] \subseteq visited'
  BY <1>5 DEF OrderInv
<1>15. ASSUME NEW i \in DOMAIN stack', NEW v \in Vertex, NEW w \in edges[v], Expanded(i, v)'
       PROVE  w \in visited' \/ \E j \in DOMAIN stack' : j > i /\ Pending(j, w)'
  <2>1. CASE i = k /\ v = node
    BY <1>1, <1>15, <2>1
  <2>2. CASE Expanded(i, v)
    <3>1. w \in visited \/ \E j \in DOMAIN stack : j > i /\ Pending(j, w)
      BY <1>2, <1>15, <2>2 DEF OrderInv
    <3>2. ASSUME NEW j \in DOMAIN stack, j > i, Pending(j, w)
          PROVE  w \in visited' \/ \E h \in DOMAIN stack' : h > i /\ Pending(h, w)'
      <4>1. j = k => w = node
        BY <1>2, <3>2
      <4>2. j # k => Pending(j, w)'
        BY <1>1, <3>2
      <4> QED BY <1>7, <3>2, <4>1, <4>2
    <3> QED BY <3>1, <3>2
  <2> QED BY <1>1, <1>15, <2>1, <2>2
<1>16. ASSUME NEW v \in Vertex
       PROVE  v \in visited' \/ v \in ToSet(roots') \/ \E i \in DOMAIN stack' : Pending(i, v)'
  <2>1. ASSUME NEW i \in DOMAIN stack, Pending(i, v)
        PROVE  v \in visited' \/ \E h \in DOMAIN stack' : Pending(h, v)'
    <3>1. i = k => v = node
      BY <1>2, <2>1
    <3>2. i # k => Pending(i, v)'
      BY <1>1, <2>1
    <3> QED BY <1>7, <3>1, <3>2
  <2> QED BY <2>1 DEF OrderInv
<1>17. \A x \in Finished' : (\E g \in Gray' : g \in Class(x)') \/ Settled(x)'
  BY <1>5, <1>8 DEF OrderInv
<1>18. OrderInv'
  BY <1>5, <1>9, <1>10, <1>12, <1>13, <1>14, <1>15, <1>16, <1>17 DEF OrderInv
<1> QED
  BY <1>1, <1>3, <1>18

(* A node that was visited already is not looked at again.                 *)
LEMMA Skipping ==
  ASSUME SearchTypes, phase = "order", OrderInv, stack # <<>>, NEW k, k = Len(stack),
         NEW node, Pending(k, node), node \in visited,
         edges' = edges, roots' = roots, finishOrder' = finishOrder, component' = component,
         components' = components, visited' = visited, stack' = Front(stack)
  PROVE  OrderInv' /\ stack' \in Seq(Vertex \X BOOLEAN)
<1>1. /\ stack' \in Seq(Vertex \X BOOLEAN) /\ DOMAIN stack' \subseteq DOMAIN stack
      /\ \A i, v : Expanded(i, v)' <=> Expanded(i, v) /\ i # k
      /\ \A i, v : Pending(i, v)' <=> Pending(i, v) /\ i # k
  BY Left
<1>2. /\ \A i, v : Expanded(i, v) \/ Pending(i, v) => i \in DOMAIN stack
      /\ \A i, v, w : ~ (Expanded(i, v) /\ Pending(i, w))
      /\ \A i, v, w : Pending(i, v) /\ Pending(i, w) => v = w
  BY OnStack
<1>3. /\ Finished' = Finished /\ \A n : After(n)' = After(n) /\ Class(n)' = Class(n)
      /\ \A n : Settled(n)' = Settled(n)
  BY GraphStays
<1>4. \A i, v : Expanded(i, v)' => i \in DOMAIN stack'
  BY DEF Expanded
<1>5. \A i, v : Pending(i, v)' => i \in DOMAIN stack'
  BY DEF Pending
<1>6. \A i, v : Expanded(i, v)' <=> Expanded(i, v)
  BY <1>1, <1>2
<1>7. Gray' = Gray
  BY <1>2, <1>4, <1>6 DEF Gray
<1>8. /\ component' = {} /\ components' = {}
      /\ visited' = Gray' \cup Finished' /\ Gray' \cap Finished' = {}
      /\ \A v \in Finished' : edges'[v] \subseteq visited'
  BY <1>3, <1>7 DEF OrderInv
<1>9. ASSUME NEW i \in DOMAIN stack', NEW j \in DOMAIN stack', NEW v \in Vertex,
             Expanded(i, v)', Expanded(j, v)'
      PROVE  i = j
  BY <1>1, <1>9 DEF OrderInv
<1>10. ASSUME NEW i \in DOMAIN stack', NEW j \in DOMAIN stack', NEW v \in Vertex, NEW w \in Vertex,
              Expanded(i, v)', Expanded(j, w)' \/ Pending(j, w)', i < j
       PROVE  w \in After(v)
  BY <1>1, <1>10 DEF OrderInv
<1>11. ASSUME NEW i \in DOMAIN stack', NEW v \in Vertex, NEW w \in edges[v], Expanded(i, v)'
       PROVE  w \in visited' \/ \E j \in DOMAIN stack' : j > i /\ Pending(j, w)'
  <2>1. w \in visited \/ \E j \in DOMAIN stack : j > i /\ Pending(j, w)
    BY <1>1, <1>11 DEF OrderInv
  <2>2. ASSUME NEW j \in DOMAIN stack, j > i, Pending(j, w)
        PROVE  w \in visited' \/ \E h \in DOMAIN stack' : h > i /\ Pending(h, w)'
    <3>1. j = k => w = node
      BY <1>2, <2>2
    <3>2. j # k => Pending(j, w)'
      BY <1>1, <2>2
    <3> QED BY <1>5, <2>2, <3>1, <3>2
  <2> QED BY <2>1, <2>2
<1>12. ASSUME NEW v \in Vertex
       PROVE  v \in visited' \/ v \in ToSet(roots') \/ \E i \in DOMAIN stack' : Pending(i, v)'
  <2>1. ASSUME NEW i \in DOMAIN stack, Pending(i, v)
        PROVE  v \in visited' \/ \E h \in DOMAIN stack' : Pending(h, v)'
    <3>1. i = k => v = node
      BY <1>2, <2>1
    <3>2. i # k => Pending(i, v)'
      BY <1>1, <2>1
    <3> QED BY <1>5, <3>1, <3>2
  <2> QED BY <2>1 DEF OrderInv
<1>13. \A x \in Finished' : (\E g \in Gray' : g \in Class(x)') \/ Settled(x)'
  BY <1>3, <1>7 DEF OrderInv
<1>14. OrderInv'
  BY <1>3, <1>8, <1>9, <1>10, <1>11, <1>12, <1>13 DEF OrderInv
<1> QED
  BY <1>1, <1>14

LEMMA AppendHolds ==
  ASSUME NEW S, NEW s \in Seq(S), NEW x \in S
  PROVE  /\ Append(s, x) \in Seq(S) /\ ToSet(Append(s, x)) = ToSet(s) \cup {x}
         /\ Len(s) + 1 \in DOMAIN Append(s, x) /\ Append(s, x)[Len(s) + 1] = x
         /\ \A i \in DOMAIN s : i \in DOMAIN Append(s, x) /\ Append(s, x)[i] = s[i]
         /\ \A i \in DOMAIN Append(s, x) : i \in DOMAIN s \/ i = Len(s) + 1
         /\ \A i \in DOMAIN Append(s, x) : Len(s) + 1 >= i
<1> DEFINE n == Len(s)
           t == Append(s, x)
<1>1. n \in Nat /\ DOMAIN s = 1..n
  OBVIOUS
<1>2. /\ t \in Seq(S) /\ DOMAIN t = 1..(n + 1) /\ t[n + 1] = x
      /\ \A i \in 1..n : t[i] = s[i]
  OBVIOUS
<1> HIDE DEF n, t
<1>3. /\ n + 1 \in 1..(n + 1) /\ \A i \in 1..n : i \in 1..(n + 1)
      /\ \A i \in 1..(n + 1) : i \in 1..n \/ i = n + 1
      /\ \A i \in 1..(n + 1) : n + 1 >= i
  BY <1>1
<1>4. ToSet(t) = ToSet(s) \cup {x}
  BY <1>1, <1>2, <1>3 DEF ToSet
<1> QED
  BY <1>1, <1>2, <1>3, <1>4 DEF n, t

(* A node whose edges were all followed is finished; if it is the last of  *)
(* its class to be so, all that it reaches is.                             *)
LEMMA Finishing ==
  ASSUME SearchTypes, phase = "order", OrderInv, stack # <<>>, NEW k, k = Len(stack),
         NEW node, Expanded(k, node),
         edges' = edges, roots' = roots, finishOrder' = Append(finishOrder, node),
         component' = component, components' = components, visited' = visited,
         stack' = Front(stack)
  PROVE  OrderInv' /\ stack' \in Seq(Vertex \X BOOLEAN) /\ finishOrder' \in Seq(Vertex)
<1>1. /\ stack' \in Seq(Vertex \X BOOLEAN) /\ DOMAIN stack' \subseteq DOMAIN stack
      /\ \A i, v : Expanded(i, v)' <=> Expanded(i, v) /\ i # k
      /\ \A i, v : Pending(i, v)' <=> Pending(i, v) /\ i # k
  BY Left
<1>2. /\ k \in Nat
      /\ \A i, v : Expanded(i, v) \/ Pending(i, v)
                     => i \in DOMAIN stack /\ i \in Nat /\ v \in Vertex /\ (i < k \/ i = k)
      /\ \A i, v, w : ~ (Expanded(i, v) /\ Pending(i, w))
      /\ \A i, v, w : Expanded(i, v) /\ Expanded(i, w) => v = w
  BY OnStack
<1>3. edges \in [Vertex -> SUBSET Vertex] /\ node \in Vertex /\ finishOrder \in Seq(Vertex)
  BY <1>2 DEF SearchTypes
<1>4. \A n : After(n)' = After(n) /\ Class(n)' = Class(n)
  BY GraphStays
<1> DEFINE F == finishOrder
           G == finishOrder'
           last == Len(finishOrder) + 1
<1>5. /\ G \in Seq(Vertex) /\ ToSet(G) = ToSet(F) \cup {node}
      /\ last \in DOMAIN G /\ G[last] = node
      /\ \A i \in DOMAIN F : i \in DOMAIN G /\ G[i] = F[i]
      /\ \A i \in DOMAIN G : i \in DOMAIN F \/ i = last
      /\ \A i \in DOMAIN G : last >= i
  BY <1>3, AppendHolds
<1> HIDE DEF last
<1>6. Finished' = Finished \cup {node}
  BY <1>5 DEF Finished
<1>7. \A i, v : Expanded(i, v)' => i \in DOMAIN stack'
  BY DEF Expanded
<1>8. \A i, v : Pending(i, v)' => i \in DOMAIN stack'
  BY DEF Pending
<1>9. node \in Gray /\ node \notin Finished
  BY <1>2 DEF Gray, OrderInv
<1>10. Gray' = Gray \ {node}
  <2>1. ASSUME NEW v \in Gray, v # node PROVE v \in Gray'
    <3>1. PICK i \in DOMAIN stack : Expanded(i, v)
      BY DEF Gray
    <3>2. Expanded(i, v)'
      BY <1>1, <1>2, <2>1, <3>1
    <3> QED BY <1>2, <1>7, <3>1, <3>2 DEF Gray
  <2>2. ASSUME NEW v \in Gray' PROVE v \in Gray /\ v # node
    <3>1. PICK i \in DOMAIN stack' : Expanded(i, v)'
      BY DEF Gray
    <3>2. Expanded(i, v) /\ i # k /\ i \in DOMAIN stack /\ v \in Vertex /\ k \in DOMAIN stack
      BY <1>1, <1>2, <3>1
    <3> QED BY <3>2 DEF Gray, OrderInv
  <2> QED BY <2>1, <2>2
<1>11. /\ component' = {} /\ components' = {}
       /\ visited' = Gray' \cup Finished' /\ Gray' \cap Finished' = {}
  BY <1>6, <1>9, <1>10 DEF OrderInv
<1>12. ASSUME NEW w \in edges[node] PROVE w \in visited
  <2>1. ASSUME NEW j \in DOMAIN stack, j > k, Pending(j, w) PROVE FALSE
    BY <1>2, <2>1
  <2> QED BY <1>2, <2>1 DEF OrderInv
<1>13. \A v \in Finished' : edges'[v] \subseteq visited'
  BY <1>6, <1>12 DEF OrderInv
<1>14. ASSUME NEW i \in DOMAIN stack', NEW j \in DOMAIN stack', NEW v \in Vertex,
              Expanded(i, v)', Expanded(j, v)'
       PROVE  i = j
  BY <1>1, <1>14 DEF OrderInv
<1>15. ASSUME NEW i \in DOMAIN stack', NEW j \in DOMAIN stack', NEW v \in Vertex, NEW w \in Vertex,
              Expanded(i, v)', Expanded(j, w)' \/ Pending(j, w)', i < j
       PROVE  w \in After(v)
  BY <1>1, <1>15 DEF OrderInv
<1>16. ASSUME NEW i \in DOMAIN stack', NEW v \in Vertex, NEW w \in edges[v], Expanded(i, v)'
       PROVE  w \in visited' \/ \E j \in DOMAIN stack' : j > i /\ Pending(j, w)'
  <2>1. w \in visited \/ \E j \in DOMAIN stack : j > i /\ Pending(j, w)
    BY <1>1, <1>16 DEF OrderInv
  <2>2. ASSUME NEW j \in DOMAIN stack, j > i, Pending(j, w) PROVE Pending(j, w)'
    BY <1>1, <1>2, <2>2
  <2> QED BY <1>8, <2>1, <2>2
<1>17. ASSUME NEW v \in Vertex
       PROVE  v \in visited' \/ v \in ToSet(roots') \/ \E i \in DOMAIN stack' : Pending(i, v)'
  <2>1. ASSUME NEW i \in DOMAIN stack, Pending(i, v) PROVE Pending(i, v)'
    BY <1>1, <1>2, <2>1
  <2> QED BY <1>8, <2>1 DEF OrderInv
<1>18. ASSUME \A g \in Gray' : g \notin Class(node)
       PROVE  /\ After(node) \subseteq Finished'
              /\ Settled(node)'
  <2>1. ASSUME NEW w \in After(node), w \in visited PROVE w \in Finished'
    <3> SUFFICES ASSUME w \in Gray, w # node PROVE FALSE
      BY <1>6, <2>1 DEF OrderInv
    <3>1. PICK i \in DOMAIN stack : Expanded(i, w)
      BY DEF Gray
    <3>2. i < k
      BY <1>2, <3>1
    <3>3. node \in After(w)
      BY <1>2, <1>3, <3>1, <3>2 DEF OrderInv
    <3>4. w \in Class(node)
      BY <1>2, <3>1, <3>3 DEF Class
    <3> QED BY <1>10, <1>18, <3>4
  <2> DEFINE S == After(node) \cap Finished'
  <2>2. S \in SUBSET Vertex /\ After(node) \subseteq Vertex /\ edges[node] \subseteq After(node)
        /\ \A m \in After(node) : edges[m] \subseteq After(node)
    BY <1>3, AfterCloses
  <2>3. edges[node] \subseteq S
    BY <1>12, <2>1, <2>2
  <2>4. ASSUME NEW m \in S PROVE edges[m] \subseteq S
    <3>1. CASE m = node
      BY <2>3, <3>1
    <3>2. CASE m \in Finished
      BY <2>1, <2>2, <3>2 DEF OrderInv
    <3> QED BY <1>6, <3>1, <3>2
  <2>5. After(node) \subseteq S
    <3> HIDE DEF S
    <3> QED BY <1>3, <2>2, <2>3, <2>4, AfterWithin
  <2>6. node \in Class(node)
    BY <1>3 DEF Class
  <2>7. ASSUME NEW y \in {node} \cup After(node)
        PROVE  /\ y \in Finished'
               /\ \A j \in DOMAIN G : G[j] = y => \E i \in DOMAIN G : i >= j /\ G[i] \in Class(node)
    BY <1>5, <1>6, <2>5, <2>6
  <2> HIDE DEF G
  <2>8. Settled(node)'
    BY <1>4, <2>7 DEF Settled, G
  <2> QED BY <2>5, <2>8
<1>19. ASSUME NEW x \in Finished', \A g \in Gray' : g \notin Class(x) PROVE Settled(x)'
  <2>1. x \in Vertex
    <3>1. ToSet(G) \subseteq Vertex
      BY <1>5 DEF ToSet
    <3> QED BY <3>1 DEF Finished
  <2>2. CASE node \in Class(x)
    <3>1. Class(x) = Class(node) /\ x \in Class(node)
      BY <1>3, <2>1, <2>2, SameClass
    <3>2. Settled(node)'
      BY <1>18, <1>19, <3>1
    <3>3. {x} \cup After(x) \subseteq {node} \cup After(node)
      BY <1>3, <3>1, AfterCloses DEF Class
    <3> QED BY <1>4, <3>1, <3>2, <3>3 DEF Settled
  <2>3. CASE node \notin Class(x)
    <3>1. x # node
      BY <1>3, <2>3 DEF Class
    <3>2. Settled(x)
      BY <1>6, <1>10, <1>19, <2>3, <3>1 DEF OrderInv
    <3>3. ASSUME NEW y \in {x} \cup After(x)
          PROVE  /\ y \in Finished'
                 /\ \A j \in DOMAIN G : G[j] = y => \E i \in DOMAIN G : i >= j /\ G[i] \in Class(x)
      <4>1. y \in Finished /\ y # node
        BY <1>9, <3>2, <3>3 DEF Settled
      <4>2. ASSUME NEW j \in DOMAIN G, G[j] = y
            PROVE  \E i \in DOMAIN G : i >= j /\ G[i] \in Class(x)
        <5>1. j \in DOMAIN F /\ F[j] = y
          BY <1>5, <4>1, <4>2
        <5>2. PICK i \in DOMAIN F : i >= j /\ F[i] \in Class(x)
          BY <3>2, <3>3, <5>1 DEF Settled
        <5> QED BY <1>5, <5>2
      <4> QED BY <1>6, <4>1, <4>2
    <3> HIDE DEF G
    <3> QED BY <1>4, <3>3 DEF Settled, G
  <2> QED BY <2>2, <2>3
<1>20. \A x \in Finished' : (\E g \in Gray' : g \in Class(x)') \/ Settled(x)'
  BY <1>4, <1>19
<1>21. OrderInv'
  BY <1>4, <1>11, <1>13, <1>14, <1>15, <1>16, <1>17, <1>20 DEF OrderInv
<1> QED
  BY <1>1, <1>5, <1>21

LEMMA TailHolds ==
  ASSUME NEW S, NEW s \in Seq(S), s # <<>>
  PROVE  /\ Tail(s) \in Seq(S) /\ Len(Tail(s)) = Len(s) - 1 /\ Len(s) \in Nat \ {0}
         /\ Head(s) = s[1] /\ Head(s) \in S
         /\ \A i \in 1..(Len(s) - 1) : Tail(s)[i] = s[i + 1]
         /\ ToSet(s) = {Head(s)} \cup ToSet(Tail(s))
<1> DEFINE n == Len(s)
           t == Tail(s)
<1>1. n \in Nat \ {0} /\ DOMAIN s = 1..n /\ Head(s) = s[1] /\ s[1] \in S
  OBVIOUS
<1>2. t \in Seq(S) /\ Len(t) = n - 1 /\ DOMAIN t = 1..(n - 1) /\ \A i \in 1..(n - 1) : t[i] = s[i + 1]
  BY <1>1
<1> HIDE DEF n, t
<1>3. /\ 1 \in 1..n /\ \A i \in 1..(n - 1) : i + 1 \in 1..n
      /\ \A i \in 1..n : i = 1 \/ (i - 1 \in 1..(n - 1) /\ (i - 1) + 1 = i)
  BY <1>1
<1>4. ToSet(s) = {Head(s)} \cup ToSet(t)
  <2>1. ASSUME NEW i \in 1..n PROVE s[i] = Head(s) \/ s[i] \in ToSet(t)
    <3>1. CASE i - 1 \in 1..(n - 1) /\ (i - 1) + 1 = i
      <4>1. t[i - 1] = s[i]
        BY <1>2, <3>1
      <4> QED BY <1>2, <3>1, <4>1 DEF ToSet
    <3> QED BY <1>1, <1>3, <3>1
  <2>2. \A i \in 1..(n - 1) : t[i] \in ToSet(s)
    BY <1>1, <1>2, <1>3 DEF ToSet
  <2>3. Head(s) \in ToSet(s)
    BY <1>1, <1>3 DEF ToSet
  <2>4. ToSet(t) \subseteq ToSet(s)
    BY <1>2, <2>2 DEF ToSet
  <2>5. ToSet(s) \subseteq {Head(s)} \cup ToSet(t)
    BY <1>1, <2>1 DEF ToSet
  <2> QED BY <2>3, <2>4, <2>5
<1> QED
  BY <1>1, <1>2, <1>4 DEF n, t

LEMMA OrderRootKept ==
  ASSUME SearchInv, OrderRoot
  PROVE  SearchInv'
<1>1. /\ phase = "order" /\ stack = <<>> /\ roots # <<>> /\ roots' = Tail(roots)
      /\ stack' = IF Head(roots) \in visited THEN <<>> ELSE <<<<Head(roots), FALSE>>>>
      /\ edges' = edges /\ phase' = phase /\ visited' = visited /\ finishOrder' = finishOrder
      /\ component' = component /\ components' = components
  BY DEF OrderRoot
<1>2. SearchTypes /\ OrderInv
  BY <1>1 DEF SearchInv
<1>3. PICK h \in Vertex : /\ h = Head(roots) /\ Tail(roots) \in Seq(Vertex)
                          /\ ToSet(roots) = {h} \cup ToSet(Tail(roots))
  BY <1>1, <1>2, TailHolds DEF SearchTypes
<1>4. /\ Finished' = Finished /\ \A n : After(n)' = After(n) /\ Class(n)' = Class(n)
      /\ \A n : Settled(n)' = Settled(n)
  BY <1>1, GraphStays
<1> DEFINE x == <<h, FALSE>>
           E == Vertex \X BOOLEAN
<1>5. x \in E /\ x = <<h, FALSE>>
  BY <1>3
<1>6. \A v : x # <<v, TRUE>>
  OBVIOUS
<1>7. stack' = IF h \in visited THEN <<>> ELSE <<x>>
  BY <1>1, <1>3
<1> HIDE DEF x, E
<1>8. /\ stack' \in Seq(E)
      /\ \A i \in DOMAIN stack' : stack'[i] = x
      /\ h \notin visited => 1 \in DOMAIN stack' /\ stack'[1] = x
  <2>1. CASE h \in visited
    BY <1>7, <2>1
  <2>2. CASE h \notin visited
    <3>1. stack' = <<x>>
      BY <1>7, <2>2
    <3>2. <<x>> \in Seq(E) /\ Len(<<x>>) = 1 /\ <<x>>[1] = x
      <4>1. x \in E
        BY <1>5
      <4> QED BY ONLY <4>1
    <3>3. stack' \in Seq(E) /\ DOMAIN stack' = 1..1 /\ stack'[1] = x
      BY <3>1, <3>2
    <3> QED BY <3>3
  <2> QED BY <2>1, <2>2
<1>9. SearchTypes'
  BY <1>1, <1>2, <1>3, <1>8 DEF SearchTypes, E
<1>10. \A i, v : ~ Expanded(i, v) /\ ~ Pending(i, v)
  BY <1>1 DEF Expanded, Pending
<1>11. ASSUME NEW i, NEW v PROVE ~ Expanded(i, v)'
  BY <1>6, <1>8 DEF Expanded
<1>12. h \in visited \/ \E i \in DOMAIN stack' : Pending(i, h)'
  <2>1. h \notin visited => Pending(1, h)' /\ 1 \in DOMAIN stack'
    BY <1>3, <1>5, <1>8 DEF Pending
  <2> QED BY <2>1
<1>13. Gray = {} /\ Gray' = {}
  BY <1>10, <1>11 DEF Gray
<1>14. ASSUME NEW v \in Vertex
       PROVE  v \in visited' \/ v \in ToSet(roots') \/ \E i \in DOMAIN stack' : Pending(i, v)'
  <2>1. v \in visited \/ v \in ToSet(roots)
    BY <1>2, <1>10 DEF OrderInv
  <2>2. v \in visited \/ v = h \/ v \in ToSet(Tail(roots))
    BY <1>3, <2>1
  <2>3. CASE v = h
    BY <1>1, <1>12, <2>3
  <2>4. CASE v # h
    BY <1>1, <2>2, <2>4
  <2> QED BY <2>3, <2>4
<1>15. OrderInv'
  BY <1>1, <1>2, <1>4, <1>11, <1>13, <1>14 DEF OrderInv
<1> QED
  BY <1>1, <1>9, <1>15 DEF SearchInv

LEMMA OrderNodeKept ==
  ASSUME SearchInv, OrderNode
  PROVE  SearchInv'
<1> DEFINE k == Len(stack)
           node == Last(stack)[1]
           expanded == Last(stack)[2]
<1>1. /\ phase = "order" /\ stack # <<>>
      /\ edges' = edges /\ phase' = phase /\ roots' = roots
      /\ component' = component /\ components' = components
      /\ finishOrder' = IF expanded THEN Append(finishOrder, node) ELSE finishOrder
      /\ visited' = IF ~ expanded /\ node \notin visited THEN visited \cup {node} ELSE visited
      /\ stack' = IF ~ expanded /\ node \notin visited THEN Pushed(node) ELSE Front(stack)
  BY DEF OrderNode, Fresh, Recorded, Pushed
<1>2. SearchTypes /\ OrderInv
  BY <1>1 DEF SearchInv
<1>3. k \in DOMAIN stack /\ Last(stack) = stack[k] /\ Last(stack) \in Vertex \X BOOLEAN
  BY <1>1, <1>2, TopOfStack
<1>4. node \in Vertex /\ expanded \in BOOLEAN /\ stack[k] = <<node, expanded>>
  BY <1>3
<1> HIDE DEF k, node, expanded
<1>5. CASE expanded
  <2>1. Expanded(k, node)
    BY <1>3, <1>4, <1>5 DEF Expanded
  <2>2. /\ finishOrder' = Append(finishOrder, node) /\ visited' = visited /\ stack' = Front(stack)
    BY <1>1, <1>5
  <2>3. OrderInv' /\ stack' \in Seq(Vertex \X BOOLEAN) /\ finishOrder' \in Seq(Vertex)
    BY <1>1, <1>2, <2>1, <2>2, Finishing DEF k
  <2> QED BY <1>1, <1>2, <2>2, <2>3 DEF SearchInv, SearchTypes
<1>6. CASE ~ expanded /\ node \in visited
  <2>1. Pending(k, node)
    BY <1>3, <1>4, <1>6 DEF Pending
  <2>2. /\ finishOrder' = finishOrder /\ visited' = visited /\ stack' = Front(stack)
    BY <1>1, <1>6
  <2>3. OrderInv' /\ stack' \in Seq(Vertex \X BOOLEAN)
    BY <1>1, <1>2, <1>6, <2>1, <2>2, Skipping DEF k
  <2> QED BY <1>1, <1>2, <2>2, <2>3 DEF SearchInv, SearchTypes
<1>7. CASE ~ expanded /\ node \notin visited
  <2>1. Pending(k, node)
    BY <1>3, <1>4, <1>7 DEF Pending
  <2>2. /\ finishOrder' = finishOrder /\ visited' = visited \cup {node} /\ stack' = Pushed(node)
    BY <1>1, <1>7
  <2>3. OrderInv' /\ visited' \in SUBSET Vertex /\ stack' \in Seq(Vertex \X BOOLEAN)
    BY <1>1, <1>2, <1>7, <2>1, <2>2, Entering DEF k
  <2> QED BY <1>1, <1>2, <2>2, <2>3 DEF SearchInv, SearchTypes
<1> QED
  BY <1>5, <1>6, <1>7

-----------------------------------------------------------------------------
(* The second pass                                                         *)

LEMMA TurnKept ==
  ASSUME SearchInv, Turn
  PROVE  SearchInv'
<1>1. /\ phase = "order" /\ stack = <<>> /\ roots = <<>> /\ phase' = "gather"
      /\ roots' = Reverse(finishOrder) /\ visited' = {}
      /\ edges' = edges /\ stack' = stack /\ finishOrder' = finishOrder
      /\ component' = component /\ components' = components
  BY DEF Turn
<1>2. SearchTypes /\ OrderInv
  BY <1>1 DEF SearchInv
<1>3. /\ roots' \in Seq(Vertex) /\ Len(roots') = Len(finishOrder)
      /\ \A i \in 1..Len(finishOrder) : roots'[i] = finishOrder[Len(finishOrder) + 1 - i]
  BY <1>1, <1>2, ReverseHolds DEF SearchTypes
<1>4. SearchTypes'
  <2>1. <<>> \in Seq(Vertex)
    OBVIOUS
  <2> QED BY <1>1, <1>2, <1>3, <2>1 DEF SearchTypes
<1>5. /\ Finished' = Finished /\ \A n : Settled(n)' = Settled(n)
  BY <1>1, GraphStays
<1>6. Gray = {} /\ ToSet(roots) = {} /\ ToSet(stack) = {} /\ \A i, v : ~ Pending(i, v)
  BY <1>1 DEF Gray, ToSet, Pending
<1>7. \A x \in Vertex : x \in Finished /\ Settled(x)
  BY <1>2, <1>6 DEF OrderInv
<1>8. component' = {} /\ components' = {} /\ Open' = {}
  BY <1>1, <1>2, <1>6 DEF OrderInv, Open, ToSet
<1>9. Len(finishOrder) \in Nat /\ DOMAIN finishOrder = 1..Len(finishOrder)
  BY <1>2 DEF SearchTypes
<1>10. GatherInv'
  BY <1>1, <1>3, <1>5, <1>7, <1>8, <1>9 DEF GatherInv, Gathered
<1> QED
  BY <1>1, <1>4, <1>10 DEF SearchInv

(* What stays while components are gathered.                               *)
LEMMA GatherStays ==
  ASSUME edges' = edges, finishOrder' = finishOrder
  PROVE  /\ \A n : Class(n)' = Class(n) /\ Predecessors(n)' = Predecessors(n)
         /\ Finished' = Finished /\ \A n : Settled(n)' = Settled(n)
  BY GraphStays

LEMMA GatherRootKept ==
  ASSUME SearchInv, GatherRoot
  PROVE  SearchInv'
<1>1. /\ phase = "gather" /\ stack = <<>> /\ component = {} /\ roots # <<>>
      /\ roots' = Tail(roots) /\ visited' = visited \cup {Head(roots)}
      /\ stack' = IF Head(roots) \in visited THEN <<>> ELSE <<Head(roots)>>
      /\ edges' = edges /\ phase' = phase /\ finishOrder' = finishOrder
      /\ component' = component /\ components' = components
  BY DEF GatherRoot
<1>2. SearchTypes /\ GatherInv
  BY <1>1 DEF SearchInv
<1> DEFINE k == Len(roots)
<1>3. PICK h \in Vertex : /\ h = Head(roots) /\ h = roots[1]
                          /\ roots' \in Seq(Vertex) /\ Len(roots') = k - 1 /\ k \in Nat \ {0}
                          /\ \A i \in 1..(k - 1) : roots'[i] = roots[i + 1]
  BY <1>1, <1>2, TailHolds DEF SearchTypes
<1>4. Len(finishOrder) \in Nat /\ DOMAIN finishOrder = 1..Len(finishOrder)
  BY <1>2 DEF SearchTypes
<1>5. /\ \A n : Class(n)' = Class(n) /\ Predecessors(n)' = Predecessors(n)
      /\ Finished' = Finished /\ \A n : Settled(n)' = Settled(n)
  BY <1>1, GatherStays
<1>6. /\ k <= Len(finishOrder) /\ \A i \in 1..k : roots[i] = finishOrder[k + 1 - i]
      /\ \A j \in DOMAIN finishOrder : j > k => finishOrder[j] \in visited
  BY <1>2 DEF GatherInv
<1>7. stack' \in Seq(Vertex) /\ ToSet(stack') = IF h \in visited THEN {} ELSE {h}
  <2>1. <<>> \in Seq(Vertex) /\ ToSet(<<>>) = {}
    BY DEF ToSet
  <2>2. <<h>> \in Seq(Vertex) /\ ToSet(<<h>>) = {h}
    BY DEF ToSet
  <2> QED BY <1>1, <1>3, <2>1, <2>2
<1>8. SearchTypes'
  BY <1>1, <1>2, <1>3, <1>7 DEF SearchTypes
<1>9. Open = {} /\ Open' = IF h \in visited THEN {} ELSE {h}
  <2>1. ToSet(stack) = {}
    BY <1>1 DEF ToSet
  <2> QED BY <1>1, <1>7, <2>1 DEF Open
<1>10. h = finishOrder[k] /\ k \in DOMAIN finishOrder
  <2>1. 1 \in 1..k /\ k + 1 - 1 = k /\ k \in 1..Len(finishOrder)
    BY <1>3, <1>4, <1>6
  <2> QED BY <1>3, <1>4, <1>6, <2>1
<1> DEFINE m == Len(roots')
<1>11. m = k - 1
  BY <1>3
<1> HIDE DEF k, m
<1>12. ASSUME NEW i \in 1..m PROVE roots'[i] = finishOrder[m + 1 - i]
  <2>1. i \in 1..(k - 1) /\ i + 1 \in 1..k /\ k + 1 - (i + 1) = m + 1 - i
    BY <1>3, <1>11
  <2> QED BY <1>3, <1>6, <2>1
<1>13. ASSUME NEW j \in DOMAIN finishOrder, j > m PROVE finishOrder[j] \in visited'
  <2>1. j = k \/ j > k
    BY <1>3, <1>4, <1>11, <1>13
  <2> QED BY <1>1, <1>3, <1>6, <1>10, <2>1
<1>14. /\ visited' = Gathered' \cup Open' /\ Open' \cap Gathered' = {}
  BY <1>1, <1>2, <1>3, <1>9 DEF GatherInv, Gathered
<1>15. m < Len(finishOrder) /\ m <= Len(finishOrder) /\ m + 1 = k
  BY <1>3, <1>4, <1>6, <1>11
<1>16. Root' = h
  BY <1>1, <1>10, <1>15 DEF Root, m
<1>17. Open' # {} => Root' \in Open' /\ Open' \subseteq Class(Root')
  BY <1>9, <1>16 DEF Class
<1>18. GatherInv'
  <2>1. \A x \in Vertex : x \in Finished' /\ Settled(x)'
    BY <1>2, <1>5 DEF GatherInv
  <2>2. \A C \in components' : \E n \in Vertex : C = Class(n)'
    BY <1>1, <1>2, <1>5 DEF GatherInv
  <2>3. Root' \in Vertex /\ Class(Root') = Class(Root)'
    BY <1>5, <1>16
  <2>4. \A n \in component' : Predecessors(n)' \subseteq visited'
    BY <1>1
  <2>5. phase' # "found"
    BY <1>1
  <2>6. finishOrder' = finishOrder
    BY <1>1
  <2> QED BY <1>12, <1>13, <1>14, <1>15, <1>17, <2>1, <2>2, <2>3, <2>4, <2>5, <2>6 DEF GatherInv, m
<1> QED
  BY <1>1, <1>8, <1>18 DEF SearchInv

(* Who reaches a node of the class of the root, and was not visited, is in *)
(* that class: it finished before some node of its own class that did not  *)
(* finish before the root, and that one was visited.                       *)
LEMMA NewInClass ==
  ASSUME SearchTypes, GatherInv, NEW node \in Open, NEW m \in Predecessors(node), m \notin visited
  PROVE  m \in Class(Root)
<1>1. edges \in [Vertex -> SUBSET Vertex] /\ finishOrder \in Seq(Vertex)
  BY DEF SearchTypes
<1>2. /\ Len(roots) < Len(finishOrder) /\ Root \in Open /\ Open \subseteq Class(Root)
  BY DEF GatherInv
<1>3. Len(roots) \in Nat /\ DOMAIN finishOrder = 1..Len(finishOrder) /\ Len(finishOrder) \in Nat
  BY <1>1 DEF SearchTypes
<1> DEFINE j == Len(roots) + 1
<1>4. j \in DOMAIN finishOrder /\ Root = finishOrder[j]
  BY <1>2, <1>3 DEF Root
<1>5. Root \in Vertex
  BY <1>1, <1>4
<1>6. m \in Vertex /\ node \in edges[m]
  BY DEF Predecessors
<1>7. Root \in After(m)
  <2>1. node \in After(m) /\ After(node) \subseteq After(m)
    BY <1>1, <1>6, AfterCloses
  <2>2. node = Root \/ Root \in After(node)
    BY <1>2 DEF Class
  <2> QED BY <2>1, <2>2
<1>8. Settled(m)
  BY <1>6 DEF GatherInv
<1>9. PICK i \in DOMAIN finishOrder : i >= j /\ finishOrder[i] \in Class(m)
  BY <1>4, <1>7, <1>8 DEF Settled
<1> DEFINE x == finishOrder[i]
<1>10. x \in visited
  <2>1. i > Len(roots)
    BY <1>3, <1>9
  <2> QED BY <2>1 DEF GatherInv
<1>11. Class(x) = Class(m) /\ x \in Vertex /\ m \in Class(x)
  BY <1>1, <1>6, <1>9, SameClass
<1> HIDE DEF x, j
<1>12. CASE x \in Open
  <2>1. Class(x) = Class(Root)
    BY <1>1, <1>2, <1>5, <1>12, SameClass
  <2> QED BY <1>11, <2>1
<1>13. CASE x \in Gathered
  <2>1. PICK C \in components : x \in C
    BY <1>13 DEF Gathered
  <2>2. PICK n \in Vertex : C = Class(n)
    BY DEF GatherInv
  <2>3. Class(x) = Class(n)
    BY <1>1, <2>1, <2>2, SameClass
  <2>4. m \in Gathered
    BY <1>11, <2>2, <2>3 DEF Gathered
  <2> QED BY <2>4 DEF GatherInv
<1> QED
  BY <1>10, <1>12, <1>13 DEF GatherInv

LEMMA GatherNodeKept ==
  ASSUME SearchInv, GatherNode
  PROVE  SearchInv'
<1>1. phase = "gather" /\ stack # <<>>
  BY DEF GatherNode
<1>2. SearchTypes /\ GatherInv
  BY <1>1 DEF SearchInv
<1>3. PICK node \in Vertex : /\ node = Last(stack) /\ Front(stack) \in Seq(Vertex)
                             /\ ToSet(stack) = ToSet(Front(stack)) \cup {node}
  BY <1>1, <1>2, FrontHolds DEF SearchTypes
<1>4. PICK new \in SUBSET Vertex : new = Predecessors(node) \ visited
  BY DEF Predecessors
<1>5. /\ component' = component \cup {node} /\ visited' = visited \cup new
      /\ stack' = Front(stack) \o Reverse(Sorted(new))
      /\ edges' = edges /\ phase' = phase /\ roots' = roots /\ finishOrder' = finishOrder
      /\ components' = components
  BY <1>3, <1>4 DEF GatherNode
<1>6. /\ \A n : Class(n)' = Class(n) /\ Predecessors(n)' = Predecessors(n)
      /\ Finished' = Finished /\ \A n : Settled(n)' = Settled(n)
  BY <1>5, GatherStays
<1>7. stack' \in Seq(Vertex) /\ ToSet(stack') = ToSet(Front(stack)) \cup new
  <2> DEFINE r == Reverse(Sorted(new))
  <2>1. Sorted(new) \in Seq(new) /\ ToSet(Sorted(new)) = new
    BY <1>4, SortedHolds
  <2>2. r \in Seq(new) /\ ToSet(r) = new
    BY <2>1, ReverseHolds
  <2>3. r \in Seq(Vertex)
    BY <1>4, <2>2
  <2> HIDE DEF r
  <2>4. Front(stack) \o r \in Seq(Vertex) /\ ToSet(Front(stack) \o r) = ToSet(Front(stack)) \cup ToSet(r)
    BY <1>3, <2>3, JoinHolds
  <2> QED BY <1>5, <2>2, <2>4 DEF r
<1>8. SearchTypes'
  BY <1>1, <1>2, <1>4, <1>5, <1>7 DEF SearchTypes
<1>9. Open' = Open \cup new /\ node \in Open
  BY <1>3, <1>5, <1>7 DEF Open
<1>10. Root' = Root
  BY <1>5 DEF Root
<1>11. new \subseteq Class(Root)
  BY <1>2, <1>4, <1>9, NewInClass
<1>12. /\ Len(roots) < Len(finishOrder) /\ Root \in Open /\ Open \subseteq Class(Root)
  BY <1>2, <1>9 DEF GatherInv
<1>13. /\ visited = Gathered \cup Open /\ Open \cap Gathered = {}
       /\ \A n \in component : Predecessors(n) \subseteq visited
  BY <1>2 DEF GatherInv
<1>14. /\ visited' = Gathered' \cup Open' /\ Open' \cap Gathered' = {}
       /\ \A n \in component' : Predecessors(n)' \subseteq visited'
  BY <1>4, <1>5, <1>6, <1>9, <1>13 DEF Gathered
<1>15. Root' \in Open' /\ Open' \subseteq Class(Root)'
  BY <1>6, <1>9, <1>11, <1>12, <1>10
<1>16. GatherInv'
  <2>1. \A x \in Vertex : x \in Finished' /\ Settled(x)'
    BY <1>2, <1>6 DEF GatherInv
  <2>2. \A C \in components' : \E n \in Vertex : C = Class(n)'
    BY <1>2, <1>5, <1>6 DEF GatherInv
  <2>3. /\ Len(roots') <= Len(finishOrder')
        /\ \A i \in 1..Len(roots') : roots'[i] = finishOrder'[Len(roots') + 1 - i]
        /\ \A j \in DOMAIN finishOrder' : j > Len(roots') => finishOrder'[j] \in visited'
        /\ Len(roots') < Len(finishOrder')
    BY <1>2, <1>5, <1>12 DEF GatherInv
  <2>4. phase' # "found"
    BY <1>1, <1>5
  <2>5. \A n : Class(n)' = Class(n)
    BY <1>6
  <2> QED BY <1>14, <1>15, <2>1, <2>2, <2>3, <2>4, <2>5 DEF GatherInv
<1> QED
  BY <1>1, <1>5, <1>8, <1>16 DEF SearchInv

(* A component is closed when all its predecessors are visited; none of    *)
(* its class is left then, for what reaches it and was visited before is   *)
(* in another class.                                                       *)
LEMMA ComponentIsClass ==
  ASSUME SearchTypes, GatherInv, phase = "gather", stack = <<>>, component # {}
  PROVE  component = Class(Root) /\ Root \in Vertex
<1>1. edges \in [Vertex -> SUBSET Vertex] /\ finishOrder \in Seq(Vertex)
  BY DEF SearchTypes
<1>2. Open = component
  BY DEF Open, ToSet
<1>3. /\ Len(roots) < Len(finishOrder) /\ Root \in component /\ component \subseteq Class(Root)
      /\ visited = Gathered \cup component /\ component \cap Gathered = {}
      /\ \A n \in component : Predecessors(n) \subseteq visited
  BY <1>2 DEF GatherInv
<1>4. Root \in Vertex
  <2>1. Len(roots) \in Nat /\ Len(finishOrder) \in Nat /\ DOMAIN finishOrder = 1..Len(finishOrder)
    BY <1>1 DEF SearchTypes
  <2>2. Len(roots) + 1 \in DOMAIN finishOrder
    BY <1>3, <2>1
  <2> QED BY <1>1, <2>2 DEF Root
<1>5. ASSUME NEW n \in Class(Root), n \in Gathered PROVE FALSE
  <2>1. PICK C \in components : n \in C
    BY <1>5 DEF Gathered
  <2>2. PICK q \in Vertex : C = Class(q)
    BY DEF GatherInv
  <2>3. Class(n) = Class(q) /\ Class(n) = Class(Root)
    BY <1>1, <1>4, <2>1, <2>2, SameClass
  <2>4. Root \in C
    BY <1>3, <2>2, <2>3
  <2> QED BY <1>3, <2>4 DEF Gathered
<1>6. ASSUME NEW n \in Class(Root), n \notin component PROVE FALSE
  <2>1. n \in Vertex /\ Root \in After(n) /\ n \in After(Root)
    BY <1>3, <1>6 DEF Class
  <2> DEFINE S == After(n) \ component
  <2>2. ASSUME NEW m \in Vertex, m \notin component, m = n \/ m \in After(n)
        PROVE  edges[m] \subseteq S
    <3>1. edges[m] \subseteq After(n)
      BY <1>1, <2>1, <2>2, AfterCloses
    <3> SUFFICES ASSUME NEW w \in edges[m], w \in component PROVE FALSE
      BY <3>1
    <3>2. m \in visited
      BY <1>3, <2>2 DEF Predecessors
    <3>3. m \in Gathered
      BY <1>3, <2>2, <3>2
    <3>4. w = Root \/ Root \in After(w)
      BY <1>3 DEF Class
    <3>5. w \in After(m) /\ After(w) \subseteq After(m)
      BY <1>1, <2>2, AfterCloses
    <3>6. m \in After(Root)
      BY <1>1, <1>4, <2>1, <2>2, AfterCloses
    <3>7. m \in Class(Root)
      BY <2>2, <3>4, <3>5, <3>6 DEF Class
    <3> QED BY <1>5, <3>3, <3>7
  <2>3. S \in SUBSET Vertex
    BY <1>1, <2>1, AfterCloses
  <2>4. edges[n] \subseteq S /\ \A m \in S : edges[m] \subseteq S
    BY <1>6, <2>1, <2>2, <2>3
  <2>5. After(n) \subseteq S
    <3> HIDE DEF S
    <3> QED BY <1>1, <2>1, <2>3, <2>4, AfterWithin
  <2> QED BY <1>3, <2>1, <2>5
<1> QED
  BY <1>3, <1>4, <1>6

LEMMA CloseComponentKept ==
  ASSUME SearchInv, CloseComponent
  PROVE  SearchInv'
<1>1. /\ phase = "gather" /\ stack = <<>> /\ component # {}
      /\ components' = components \cup {component} /\ component' = {}
      /\ edges' = edges /\ phase' = phase /\ roots' = roots /\ stack' = stack
      /\ visited' = visited /\ finishOrder' = finishOrder
  BY DEF CloseComponent
<1>2. SearchTypes /\ GatherInv
  BY <1>1 DEF SearchInv
<1>3. component = Class(Root) /\ Root \in Vertex
  BY <1>1, <1>2, ComponentIsClass
<1>4. /\ \A n : Class(n)' = Class(n) /\ Predecessors(n)' = Predecessors(n)
      /\ Finished' = Finished /\ \A n : Settled(n)' = Settled(n)
  BY <1>1, GatherStays
<1>5. SearchTypes'
  BY <1>1, <1>2 DEF SearchTypes
<1>6. Open' = {} /\ Open = component
  BY <1>1 DEF Open, ToSet
<1>7. GatherInv'
  <2>1. \A x \in Vertex : x \in Finished' /\ Settled(x)'
    BY <1>2, <1>4 DEF GatherInv
  <2>2. \A C \in components' : \E n \in Vertex : C = Class(n)'
    BY <1>1, <1>2, <1>3, <1>4 DEF GatherInv
  <2>3. /\ Len(roots') <= Len(finishOrder')
        /\ \A i \in 1..Len(roots') : roots'[i] = finishOrder'[Len(roots') + 1 - i]
        /\ \A j \in DOMAIN finishOrder' : j > Len(roots') => finishOrder'[j] \in visited'
    BY <1>1, <1>2 DEF GatherInv
  <2>4. visited' = Gathered' \cup Open'
    BY <1>1, <1>2, <1>6 DEF GatherInv, Gathered
  <2>5. phase' # "found"
    BY <1>1
  <2> QED BY <1>1, <1>6, <2>1, <2>2, <2>3, <2>4, <2>5 DEF GatherInv
<1> QED
  BY <1>1, <1>5, <1>7 DEF SearchInv

LEMMA EndSearchKept ==
  ASSUME SearchInv, EndSearch
  PROVE  SearchInv'
<1>1. /\ phase = "gather" /\ stack = <<>> /\ component = {} /\ roots = <<>> /\ phase' = "found"
      /\ edges' = edges /\ roots' = roots /\ stack' = stack /\ visited' = visited
      /\ finishOrder' = finishOrder /\ component' = component /\ components' = components
  BY DEF EndSearch
<1>2. SearchTypes /\ GatherInv
  BY <1>1 DEF SearchInv
<1>3. /\ \A n : Class(n)' = Class(n) /\ Predecessors(n)' = Predecessors(n)
      /\ Finished' = Finished /\ \A n : Settled(n)' = Settled(n)
  BY <1>1, GatherStays
<1>4. Open' = Open /\ Root' = Root
  BY <1>1 DEF Open, Root
<1>5. SearchTypes'
  BY <1>1, <1>2 DEF SearchTypes
<1>6. GatherInv'
  BY <1>1, <1>2, <1>3, <1>4 DEF GatherInv, Gathered
<1> QED
  BY <1>1, <1>5, <1>6 DEF SearchInv

LEMMA SearchFinal == SearchInv => ComponentsExact
<1> SUFFICES ASSUME SearchInv, phase = "found"
             PROVE  /\ components = {Class(n) : n \in Vertex}
                    /\ Recursive = {n \in Vertex : n \in After(n)}
  BY DEF ComponentsExact, Class
<1>1. SearchTypes /\ GatherInv
  BY DEF SearchInv
<1>2. edges \in [Vertex -> SUBSET Vertex]
  BY <1>1 DEF SearchTypes
<1>3. stack = <<>> /\ component = {} /\ roots = <<>>
  BY <1>1 DEF GatherInv
<1>4. Open = {}
  BY <1>3 DEF Open, ToSet
<1>5. Gathered = Vertex
  <2>1. ASSUME NEW x \in Vertex PROVE x \in visited
    <3>1. PICK j \in DOMAIN finishOrder : finishOrder[j] = x
      BY <1>1 DEF GatherInv, Finished, ToSet
    <3>2. j > Len(roots)
      <4>1. finishOrder \in Seq(Vertex)
        BY <1>1 DEF SearchTypes
      <4> QED BY <1>3, <3>1, <4>1
    <3> QED BY <1>1, <3>1, <3>2 DEF GatherInv
  <2> QED BY <1>1, <1>4, <2>1 DEF GatherInv, SearchTypes
<1>6. ASSUME NEW C \in components, NEW n \in C PROVE n \in Vertex /\ C = Class(n)
  <2>1. PICK q \in Vertex : C = Class(q)
    BY <1>1 DEF GatherInv
  <2> QED BY <1>2, <1>6, <2>1, SameClass
<1>7. components = {Class(n) : n \in Vertex}
  <2>1. ASSUME NEW C \in components PROVE C \in {Class(n) : n \in Vertex}
    BY <1>1 DEF GatherInv
  <2>2. ASSUME NEW n \in Vertex PROVE Class(n) \in components
    <3>1. PICK C \in components : n \in C
      BY <1>5 DEF Gathered
    <3> QED BY <1>6, <3>1
  <2> QED BY <2>1, <2>2
<1>8. ASSUME NEW n \in Vertex
      PROVE  (\E C \in components : C # {n} /\ n \in C) <=> Class(n) # {n}
  <2>1. Class(n) \in components /\ n \in Class(n)
    BY <1>7 DEF Class
  <2> QED BY <1>6, <2>1
<1>9. Recursive = {n \in Vertex : n \in After(n)}
  BY <1>2, <1>8, OwnCycle DEF Recursive
<1> QED
  BY <1>7, <1>9

(* Whatever the graph, two nodes share a component exactly if each reaches *)
(* the other, and the recursive nodes are those that reach themselves.     *)
(* (graph.rs, strongly_connected_components and recursive_nodes.)          *)
THEOREM ComponentsAreExact == SearchSpec => []ComponentsExact
<1>1. SearchInit => SearchInv
  BY OrderStarts
<1>2. SearchInv /\ [SearchNext]_searchVars => SearchInv'
  <2> SUFFICES ASSUME SearchInv, [SearchNext]_searchVars PROVE SearchInv'
    OBVIOUS
  <2>1. CASE UNCHANGED searchVars
    <3>1. /\ edges' = edges /\ phase' = phase /\ roots' = roots /\ stack' = stack
          /\ visited' = visited /\ finishOrder' = finishOrder
          /\ component' = component /\ components' = components
      BY <2>1 DEF searchVars
    <3>2. /\ Finished' = Finished
          /\ \A n : After(n)' = After(n) /\ Class(n)' = Class(n) /\ Predecessors(n)' = Predecessors(n)
          /\ \A n : Settled(n)' = Settled(n)
      BY <3>1, GraphStays
    <3>3. \A i, v : (Expanded(i, v)' <=> Expanded(i, v)) /\ (Pending(i, v)' <=> Pending(i, v))
      BY <3>1 DEF Expanded, Pending
    <3>4. Gray' = Gray /\ Open' = Open /\ Root' = Root
      BY <3>1, <3>3 DEF Gray, Open, Root
    <3>5. SearchTypes'
      BY <3>1 DEF SearchInv, SearchTypes
    <3>6. phase = "order" => OrderInv'
      BY <3>1, <3>2, <3>3, <3>4 DEF SearchInv, OrderInv
    <3>7. phase # "order" => GatherInv'
      BY <3>1, <3>2, <3>4 DEF SearchInv, GatherInv, Gathered
    <3> QED BY <3>1, <3>5, <3>6, <3>7 DEF SearchInv
  <2> QED
    BY <2>1, OrderRootKept, OrderNodeKept, TurnKept, GatherRootKept, GatherNodeKept,
       CloseComponentKept, EndSearchKept DEF SearchNext
<1> QED
  BY <1>1, <1>2, SearchFinal, PTL DEF SearchSpec
=============================================================================
