---------------------------- MODULE MonotoneFacts ----------------------------
(***************************************************************************)
(* The worklist that solves the function facts over the call graph:        *)
(* graph.rs, propagate_monotone, with the merge of semantic.rs,            *)
(* merge_function_facts.                                                   *)
(*                                                                         *)
(* A FunctionFacts value is the set of the facts that can only be gained:  *)
(* "not pure", "may panic", "suspends", "not evaluator eligible",          *)
(* "transfers ownership" and one element per Build Constructor.  Merging a *)
(* callee is then a union and "changed" is "the set grew".  The two fields *)
(* the merge does not touch, the cost and boundedness, are not here.       *)
(*                                                                         *)
(* One action is one turn of the `while let` loop; another thread may set  *)
(* the request's cancellation flag between any two of them.                *)
(***************************************************************************)
EXTENDS Integers, FiniteSets

CONSTANTS
  Node,      \* DefinitionId or SpecializationId, ordered as in the BTreeMaps
  Fact

ASSUME NodeAssumption == Node \subseteq Int

VARIABLES
  graph,     \* call graph: callees of every node
  base,      \* local facts, keyed by the nodes that are analysed
  facts,     \* the facts being accumulated
  pending,   \* nodes whose facts must still reach their callers
  cancelled, \* the request's Cancellation flag
  outcome    \* "running", "solved" (Some(facts)) or "cancelled" (None)

vars == <<graph, base, facts, pending, cancelled, outcome>>

Key == DOMAIN base

(* The reversed edges between analysed nodes.                              *)
Dependents(callee) == {caller \in Key : callee \in graph[caller]}

(* The callers the loop visits: a node is never merged into itself.        *)
Callers(callee) == Dependents(callee) \ {callee}

Merged(callee) == [n \in Key |-> IF n \in Callers(callee)
                                 THEN facts[n] \cup facts[callee]
                                 ELSE facts[n]]

(* Mutants: callers that are not analysed wait too; nobody waits again;    *)
(* every caller waits again, changed or not.                               *)
ChangedUnanalysed(callee) == {caller \in Node \ {callee} : callee \in graph[caller]}
ChangedNobody(callee)     == {}
ChangedAlways(callee)     == Callers(callee)

(* The callers for which the merge reports a change.                       *)
Changed(callee) == {caller \in Callers(callee) :
                      ~ (facts[callee] \subseteq facts[caller])}

(* BTreeSet::pop_first.                                                    *)
IsFirst(callee) == callee \in pending /\ \A n \in pending : callee <= n

-----------------------------------------------------------------------------

Init == /\ graph \in [Node -> SUBSET Node]
        /\ base \in UNION {[K -> SUBSET Fact] : K \in SUBSET Node}
        /\ facts = base
        /\ pending = Key
        /\ cancelled = FALSE
        /\ outcome = "running"

Step(callee) == /\ outcome = "running"
                /\ ~ cancelled
                /\ IsFirst(callee)
                /\ facts' = Merged(callee)
                /\ pending' = (pending \ {callee}) \cup Changed(callee)
                /\ UNCHANGED <<graph, base, cancelled, outcome>>

(* Mutant: a cancelled solver hands out what it has so far.                *)
AbortPartial == /\ outcome = "running" /\ cancelled /\ pending # {}
                /\ outcome' = "solved"
                /\ UNCHANGED <<graph, base, facts, pending, cancelled>>

(* The flag is polled after a node was taken and before it is merged.      *)
Abort == /\ outcome = "running"
         /\ cancelled
         /\ pending # {}
         /\ outcome' = "cancelled"
         /\ UNCHANGED <<graph, base, facts, pending, cancelled>>

(* An empty worklist ends the loop without another poll.                   *)
Finish == /\ outcome = "running"
          /\ pending = {}
          /\ outcome' = "solved"
          /\ UNCHANGED <<graph, base, facts, pending, cancelled>>

(* Another thread of the host.                                             *)
Cancel == /\ ~ cancelled
          /\ outcome = "running"
          /\ cancelled' = TRUE
          /\ UNCHANGED <<graph, base, facts, pending, outcome>>

Next == (\E callee \in Node : Step(callee)) \/ Abort \/ Finish \/ Cancel

Solve == (\E callee \in Node : Step(callee)) \/ Abort \/ Finish

Spec == Init /\ [][Next]_vars

(* The calling thread runs the loop to its end; nobody has to cancel.      *)
FairSpec == Spec /\ WF_vars(Solve)

-----------------------------------------------------------------------------
(***************************************************************************)
(* Properties                                                              *)
(***************************************************************************)

Below(f, g) == \A n \in Key : f[n] \subseteq g[n]

Closed(f) == \A caller \in Key : \A callee \in graph[caller] \cap Key :
               f[callee] \subseteq f[caller]

(* Types; only analysed nodes ever wait on the worklist.                   *)
TypeOK == /\ graph \in [Node -> SUBSET Node]
          /\ Key \subseteq Node
          /\ base \in [Key -> SUBSET Fact]
          /\ facts \in [Key -> SUBSET Fact]
          /\ pending \subseteq Key
          /\ cancelled \in BOOLEAN
          /\ outcome \in {"running", "solved", "cancelled"}

(* The worklist forgets nobody: a callee whose facts a caller still lacks  *)
(* is waiting to be propagated, through cycles and self calls alike.       *)
WorklistCovers ==
  \A caller \in Key : \A callee \in graph[caller] \cap Key :
    callee \in pending \/ facts[callee] \subseteq facts[caller]

(* No fact is invented: whatever closed assignment contains the local      *)
(* facts contains the accumulated ones at every moment.                    *)
NothingInvented ==
  /\ Below(base, facts)
  /\ \A g \in [Key -> SUBSET Fact] :
       Below(base, g) /\ Closed(g) => Below(facts, g)

Solver == INSTANCE FactSolver WITH
            answer <- IF outcome = "running" THEN <<>>
                      ELSE IF outcome = "solved" THEN <<"some", facts>>
                      ELSE <<"none">>

(* propagate_monotone answers with the least closed assignment or, when    *)
(* the request is cancelled, with nothing.                                 *)
SolvesLeast == Solver!Spec
=============================================================================
