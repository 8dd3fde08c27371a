--------------------------- MODULE StrongComponents ---------------------------
(***************************************************************************)
(* The strongly connected components of graph.rs, which find import cycles *)
(* and recursive functions: a depth-first pass with an explicit stack that *)
(* records the order in which nodes finish, then a pass over the reversed  *)
(* edges that takes the roots in the opposite order.  One action is one    *)
(* turn of one of the four loops.                                          *)
(***************************************************************************)
EXTENDS Integers, SequencesExt

CONSTANTS
  Vertex,        \* numbers, ordered as in the BTreeMaps
  Digraphs         \* from every node to its edges

ASSUME GraphAssumption ==
  /\ Vertex \subseteq Nat /\ IsFiniteSet(Vertex)
  /\ Digraphs \subseteq [Vertex -> SUBSET Vertex]

VARIABLES
  edges,         \* the graph
  phase,         \* "order", "gather", "found"
  roots,         \* nodes the outer loop still has to look at, in order
  stack,         \* first pass: <<node, expanded>>; second pass: nodes
  visited,
  finishOrder,
  component,     \* the component being gathered
  components

searchVars == <<edges, phase, roots, stack, visited, finishOrder, component, components>>

(* A BTreeSet from its first to its last.                                  *)
Sorted(S) == CHOOSE s \in [1..Cardinality(S) -> S] :
               \A i, j \in DOMAIN s : i < j => s[i] < s[j]

(* Mutant: the second pass follows the edges forward.                      *)
Targets(source) == edges[source]

(* A node is entered once, and recorded when it comes up again.            *)
Fresh(node, expanded)    == ~ expanded /\ node \notin visited
Recorded(node, expanded) == IF expanded THEN Append(finishOrder, node) ELSE finishOrder

(* Reversed edges of a node.                                               *)
Predecessors(target) == {source \in Vertex : target \in edges[source]}

-----------------------------------------------------------------------------

SearchInit ==
  /\ edges \in Digraphs
  /\ phase = "order"
  /\ roots = Sorted(Vertex)
  /\ stack = <<>> /\ visited = {} /\ finishOrder = <<>>
  /\ component = {} /\ components = {}

OrderRoot == /\ phase = "order" /\ stack = <<>> /\ roots # <<>>
             /\ roots' = Tail(roots)
             /\ stack' = IF Head(roots) \in visited THEN <<>> ELSE <<<<Head(roots), FALSE>>>>
             /\ UNCHANGED <<edges, phase, visited, finishOrder, component, components>>

(* A node is finished when it comes up a second time; its edges are pushed *)
(* so that the first one is on top.                                        *)
OrderNode ==
  /\ phase = "order" /\ stack # <<>>
  /\ LET node     == Last(stack)[1]
         expanded == Last(stack)[2]
         targets  == Reverse(Sorted(edges[node]))
         fresh    == Fresh(node, expanded)
     IN /\ finishOrder' = Recorded(node, expanded)
        /\ visited' = IF fresh THEN visited \cup {node} ELSE visited
        /\ stack' = IF fresh
                    THEN Front(stack) \o <<<<node, TRUE>>>>
                         \o [i \in DOMAIN targets |-> <<targets[i], FALSE>>]
                    ELSE Front(stack)
  /\ UNCHANGED <<edges, phase, roots, component, components>>

Turn == /\ phase = "order" /\ stack = <<>> /\ roots = <<>>
        /\ phase' = "gather"
        /\ roots' = Reverse(finishOrder)
        /\ visited' = {}
        /\ UNCHANGED <<edges, stack, finishOrder, component, components>>

GatherRoot ==
  /\ phase = "gather" /\ stack = <<>> /\ component = {} /\ roots # <<>>
  /\ roots' = Tail(roots)
  /\ stack' = IF Head(roots) \in visited THEN <<>> ELSE <<Head(roots)>>
  /\ visited' = visited \cup {Head(roots)}
  /\ UNCHANGED <<edges, phase, finishOrder, component, components>>

GatherNode ==
  /\ phase = "gather" /\ stack # <<>>
  /\ LET node == Last(stack)
         new  == Predecessors(node) \ visited
     IN /\ component' = component \cup {node}
        /\ stack' = Front(stack) \o Reverse(Sorted(new))
        /\ visited' = visited \cup new
  /\ UNCHANGED <<edges, phase, roots, finishOrder, components>>

CloseComponent ==
  /\ phase = "gather" /\ stack = <<>> /\ component # {}
  /\ components' = components \cup {component}
  /\ component' = {}
  /\ UNCHANGED <<edges, phase, roots, stack, visited, finishOrder>>

EndSearch == /\ phase = "gather" /\ stack = <<>> /\ component = {} /\ roots = <<>>
             /\ phase' = "found"
             /\ UNCHANGED <<edges, roots, stack, visited, finishOrder, component, components>>

SearchNext == \/ OrderRoot \/ OrderNode \/ Turn
              \/ GatherRoot \/ GatherNode \/ CloseComponent \/ EndSearch

SearchSpec == SearchInit /\ [][SearchNext]_searchVars

(* recursive_nodes: members of a cycle, and nodes with an edge to itself.  *)
Recursive == {node \in Vertex : \/ node \in edges[node]
                                \/ \E C \in components : C # {node} /\ node \in C}

-----------------------------------------------------------------------------
(***************************************************************************)
(* Properties                                                              *)
(***************************************************************************)

(* What is reachable from a node in at least one step.                     *)
After(node) == {n \in Vertex : \A S \in SUBSET Vertex :
                  edges[node] \subseteq S /\ (\A m \in S : edges[m] \subseteq S) => n \in S}

(* Two nodes share a component exactly when each reaches the other, and    *)
(* the recursive nodes are exactly those that reach themselves.            *)
(* (graph.rs, strongly_connected_components and recursive_nodes.)          *)
ComponentsExact ==
  phase = "found" =>
    /\ components = {{m \in Vertex : m = n \/ (m \in After(n) /\ n \in After(m))} : n \in Vertex}
    /\ Recursive = {n \in Vertex : n \in After(n)}
=============================================================================
