----------------------------- MODULE FactSolver -----------------------------
(***************************************************************************)
(* What the fact fixpoints of the semantic analysis promise.               *)
(*                                                                         *)
(* A request gives a call graph and, for some of its nodes, the facts that *)
(* the node has by itself.  The answer is the least assignment that keeps  *)
(* those facts and hands every fact of a callee to its callers.  Being the *)
(* least one it is unique, so no order of work can be told from it.  A     *)
(* cancelled request has no answer at all, never a part of one.            *)
(***************************************************************************)
CONSTANTS
  Node,      \* functions or specializations
  Fact       \* what may be known of one of them

VARIABLES
  graph,     \* graph[n] is the set of callees of n
  base,      \* the local facts, for the nodes that have a body
  answer     \* the sequence of answers given so far: at most one

vars == <<graph, base, answer>>

(* The nodes that take part: calls that leave them are ignored.            *)
Key == DOMAIN base

Inputs == /\ graph \in [Node -> SUBSET Node]
          /\ base \in UNION {[K -> SUBSET Fact] : K \in SUBSET Node}

Below(f, g) == \A n \in Key : f[n] \subseteq g[n]

Closed(f) == \A caller \in Key : \A callee \in graph[caller] \cap Key :
               f[callee] \subseteq f[caller]

Solution(f) == f \in [Key -> SUBSET Fact] /\ Below(base, f) /\ Closed(f)

Least(f) == Solution(f) /\ \A g \in [Key -> SUBSET Fact] :
                             Solution(g) => Below(f, g)

-----------------------------------------------------------------------------

Init == Inputs /\ answer = <<>>

Answer == /\ answer = <<>>
          /\ answer' \in {<<"none">>} \cup {<<"some", f>> : f \in
                           {g \in [Key -> SUBSET Fact] : Least(g)}}
          /\ UNCHANGED <<graph, base>>

Next == Answer

Spec == Init /\ [][Next]_vars
=============================================================================
