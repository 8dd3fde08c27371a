---------------------------- MODULE WeightedCosts ----------------------------
(***************************************************************************)
(* The logical cost of every function over a call graph: semantic.rs,      *)
(* solve_weighted_costs.  A function costs what it does itself plus the    *)
(* cost of every call in it; costs saturate, and a recursive function has  *)
(* no bound, which is the greatest cost.  Functions are taken when all     *)
(* they call is known: one action is one turn of the `while let` loop.     *)
(***************************************************************************)
EXTENDS Integers, FiniteSetsExt

CONSTANTS
  Callable,    \* functions, ordered as in the BTreeMaps
  Greatest,    \* u64::MAX
  CallGraphs   \* [calls, own]: calls[caller][callee] is how often the body of
               \* the caller names the callee, own[f] the local cost of f

ASSUME CostAssumption ==
  /\ Callable \subseteq Nat /\ IsFiniteSet(Callable) /\ Greatest \in Nat
  /\ \A program \in CallGraphs :
       /\ program.calls \in [Callable -> [Callable -> Nat]]
       /\ program.own \in [Callable -> 0..Greatest]

VARIABLES
  calls, own,
  recursive, \* recursive_nodes of the call graph
  costs,     \* the costs being accumulated
  remaining, \* how many callees of a function are not yet known
  ready      \* functions to be taken

costVars == <<calls, own, recursive, costs, remaining, ready>>

Saturating(n) == IF n > Greatest THEN Greatest ELSE n

Callees(caller) == {callee \in Callable : calls[caller][callee] > 0}

(* The callers that wait for a callee; a recursive one waits for nobody.   *)
CallersOf(callee) == {caller \in Callable \ recursive : callee \in Callees(caller)}

(* What the calls of a callee add to a caller.                             *)
WithCalls(caller, callee) ==
  Saturating(costs[caller] + Saturating(costs[callee] * calls[caller][callee]))

(* Mutant: a caller is taken as soon as one of its callees is known.       *)
KnownEarly(caller, callee) == TRUE

(* The callee was the last one the caller waited for.                      *)
Known(caller, callee) == remaining[caller] = 1

-----------------------------------------------------------------------------

(* What is reachable in at least one call.                                 *)
Called(node) == {n \in Callable : \A S \in SUBSET Callable :
                   Callees(node) \subseteq S /\ (\A m \in S : Callees(m) \subseteq S) => n \in S}

Start == [n \in Callable |-> IF n \in recursive THEN Greatest ELSE own[n]]

CostInit ==
  /\ \E program \in CallGraphs : calls = program.calls /\ own = program.own
  /\ recursive = {n \in Callable : n \in Called(n)}
  /\ costs = Start
  /\ remaining = [n \in Callable |-> IF n \in recursive THEN 0 ELSE Cardinality(Callees(n))]
  /\ ready = recursive \cup {n \in Callable : Callees(n) = {}}

(* BTreeSet::pop_first.                                                    *)
Take(callee) ==
  /\ callee \in ready /\ \A n \in ready : callee <= n
  /\ costs' = [n \in Callable |-> IF n \in CallersOf(callee) THEN WithCalls(n, callee) ELSE costs[n]]
  /\ remaining' = [n \in Callable |-> IF n \in CallersOf(callee) THEN remaining[n] - 1
                                      ELSE remaining[n]]
  /\ ready' = (ready \ {callee}) \cup {n \in CallersOf(callee) : Known(n, callee)}
  /\ UNCHANGED <<calls, own, recursive>>

CostNext == \E callee \in Callable : Take(callee)

CostSpec == CostInit /\ [][CostNext]_costVars

(* solve_fact_graph: what the costs say of a function.                     *)
Bounded(n) == costs[n] # Greatest /\ n \notin recursive

(* What the calls of a function cost.                                      *)
CallCosts(n) == MapThenSumSet(LAMBDA c : costs[c] * calls[n][c], Callees(n))

(* When no function is left to be taken, each costs what it does itself    *)
(* and what its calls cost, saturating; a function that is recursive or    *)
(* calls an unbounded one is not bounded, however the saturating sums came *)
(* about.                                                                  *)
(* (semantic.rs, solve_weighted_costs.)                                    *)
CostsExact ==
  ready = {} =>
    \A n \in Callable :
      /\ costs[n] = IF n \in recursive THEN Greatest
                    ELSE Saturating(own[n] + CallCosts(n))
      /\ Bounded(n) => \A c \in Callees(n) : Bounded(c)
=============================================================================
