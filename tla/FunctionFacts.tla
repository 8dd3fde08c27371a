---------------------------- MODULE FunctionFacts ----------------------------
(***************************************************************************)
(* What semantic.rs concludes from the bodies of functions: the local      *)
(* facts of each (local_facts), the facts of its call graph, the cycles of *)
(* calls that are known to end (analyze_recursion) and what is refused.    *)
(*                                                                         *)
(* The bodies are typed HIR.  An expression is a record of its `kind`, its *)
(* children `args` and what the kind needs; the children of a Read are the *)
(* indexes of its place.  A statement has the expressions it evaluates,    *)
(* the indexes of the place it assigns, its nested blocks and the guards of*)
(* its cases.                                                              *)
(***************************************************************************)
EXTENDS Integers, FiniteSets, SequencesExt

CONSTANTS
  LoweredPrograms,  \* sets of [functions, constants, image]: bodies, values, the image constructor
  GreatestInteger,  \* the greatest value of an integer type
  BodyNesting       \* how deep statements and expressions nest

(* visit_statements: the statements of a block and of the blocks in it.    *)
Statements(block) ==
  LET level[n \in 0 .. BodyNesting] ==
        IF n = 0 THEN ToSet(block)
        ELSE UNION {UNION {ToSet(inner) : inner \in ToSet(s.blocks)} : s \in level[n - 1]}
  IN UNION {level[n] : n \in 0 .. BodyNesting}

(* An expression and what is in it, without entering the `closed` kinds.   *)
Within(e, closed) ==
  LET level[n \in 0 .. BodyNesting] ==
        IF n = 0 THEN {e}
        ELSE UNION {ToSet(x.args) : x \in {y \in level[n - 1] : y.kind \notin closed}}
  IN UNION {level[n] : n \in 0 .. BodyNesting}

(* visit_expression does not go into the indexes of places; visit_children *)
(* does.                                                                   *)
Looking(e) == Within(e, {"Read"})
Reached(e) == Within(e, {})

Expressions(block) ==
  UNION {UNION {Looking(v) : v \in ToSet(s.values)} : s \in Statements(block)}

(* Mutant: only divisions count.                                           *)
MayPanicDividing(e) == e.kind = "Index" \/ (e.kind = "Binary" /\ e.operator = "/")

MayPanic(e) == \/ e.kind = "Index"
               \/ e.kind = "Negate" /\ e.integer
               \/ e.kind = "Binary" /\ e.integer /\ e.operator \in {"+", "-", "*", "/", "%"}

CallsBuild(e) == e.kind = "Call" /\ e.target = "Build"

(* expression_constructs.                                                  *)
Constructs(e) == \E x \in Looking(e) : CallsBuild(x)

CalledIn(e) == IF e.kind = "Call" /\ e.target \in {"Function", "TemplateFunction"}
              THEN {e.definition} ELSE {}

(* local_facts: the facts that spread to callers, and the functions that   *)
(* are called.  How often, and what the body itself costs, is what         *)
(* WeightedCosts begins with.                                              *)
LocalFacts(f) ==
  LET expressions == Expressions(f.body)
      panics   == \/ \E e \in expressions : MayPanic(e)
                  \/ \E s \in Statements(f.body) : s.kind \in {"Panic", "Assert"}
      suspends == f.modifier = "async" \/ \E e \in expressions : e.kind = "Await"
  IN [spread |-> {x \in {"panics"} : panics} \cup {x \in {"suspends"} : suspends}
                 \cup {x \in {"moves"} : \E i \in DOMAIN f.params : f.params[i].access = "Move"}
                 \cup {x \in {"constructs"} : \E e \in expressions : CallsBuild(e)},
      calls  |-> UNION {CalledIn(e) : e \in expressions}]

(* All expressions of a statement, guards and indexes included.            *)
AllValues(s) == ToSet(s.values) \cup ToSet(s.places) \cup ToSet(s.guards)

PartsOf(f) == UNION {UNION {Reached(v) : v \in AllValues(s)} : s \in Statements(f.body)}

(* What the lowering makes sure of: an operation has two operands, what is *)
(* called is there, and a call gives every parameter an argument.          *)
Links(program, e) ==
  /\ e.kind = "Literal" => e.value \in Int
  /\ e.kind = "Binary" => DOMAIN e.args = 1..2
  /\ e.kind = "Call" /\ e.target = "Callable" => 1 \in DOMAIN e.args
  /\ e.kind = "FunctionValue" => e.definition \in DOMAIN program.functions
  /\ \A d \in CalledIn(e) : /\ d \in DOMAIN program.functions
                           /\ DOMAIN e.order = DOMAIN e.args
                           /\ ToSet(e.order) = DOMAIN program.functions[d].params

Shallow(f) == /\ \A s \in Statements(f.body) : \A b \in ToSet(s.blocks) : ToSet(b) \subseteq Statements(f.body)
              /\ \A e \in PartsOf(f) : ToSet(e.args) \subseteq PartsOf(f)

ASSUME BodyAssumption ==
  /\ GreatestInteger \in Nat /\ BodyNesting \in Nat
  /\ \A program \in UNION LoweredPrograms : \A d \in DOMAIN program.functions :
       /\ program.functions[d].params \in Seq([integer: BOOLEAN, access: {"Copy", "Read", "Mut", "Move"}])
       /\ Shallow(program.functions[d])
       /\ \A e \in PartsOf(program.functions[d]) : Links(program, e)

-----------------------------------------------------------------------------
(***************************************************************************)
(* The call graph of a program: what propagate_monotone and the components *)
(* of graph.rs say of it.                                                  *)
(***************************************************************************)

CallGraph(program) == [d \in DOMAIN program.functions |-> LocalFacts(program.functions[d]).calls]

(* What is reachable in at least one call.                                 *)
ReachableFrom(graph, d) ==
  {n \in DOMAIN graph : \A S \in SUBSET DOMAIN graph :
                      graph[d] \subseteq S /\ (\A m \in S : graph[m] \subseteq S) => n \in S}

FactsOf(program, d) ==
  UNION {LocalFacts(program.functions[n]).spread : n \in {d} \cup ReachableFrom(CallGraph(program), d)}

Group(graph, d) == {n \in DOMAIN graph : n \in ReachableFrom(graph, d) /\ d \in ReachableFrom(graph, n)}

-----------------------------------------------------------------------------
(***************************************************************************)
(* Recursion.                                                              *)
(***************************************************************************)

(* The first integer parameter measures a function.                        *)
Measured(f) == \E i \in DOMAIN f.params : f.params[i].integer

Measure(f) == CHOOSE i \in DOMAIN f.params :
                f.params[i].integer /\ \A j \in 1 .. i - 1 : ~ f.params[j].integer

(* Mutant: the argument is looked up by its place in the call.             *)
ArgumentInOrder(e, parameter) == parameter

(* The argument that is bound to a parameter.                              *)
ArgumentFor(e, parameter) == CHOOSE i \in DOMAIN e.order : e.order[i] = parameter

(* The argument is the caller's measure less a positive constant.          *)
Lessens(argument, measure) ==
  /\ argument.kind = "Binary" /\ argument.operator = "-"
  /\ argument.args[1].kind = "Read" /\ argument.args[1].local = measure
  /\ argument.args[2].kind = "Literal" /\ argument.args[2].value > 0

(* recursive_calls_decrease.                                               *)
Decreases(functions, d, group) ==
  \A s \in Statements(functions[d].body) : \A v \in ToSet(s.values) :
    \A e \in Reached(v) : \A callee \in CalledIn(e) \cap group :
      Lessens(e.args[ArgumentFor(e, Measure(functions[callee]))], Measure(functions[d]))

(* analyze_recursion: the bound of a recursive function, if it is proven.  *)
Proven(program, d) ==
  LET group == Group(CallGraph(program), d)
  IN /\ d \in group
     /\ \A n \in group : Measured(program.functions[n])
     /\ \A n \in group : Decreases(program.functions, n, group)

Unproven(program) == {d \in DOMAIN program.functions :
                        d \in Group(CallGraph(program), d) /\ ~ Proven(program, d)}

MaximumCalls == GreatestInteger + 1

-----------------------------------------------------------------------------

(* The diagnostics of a program.                                           *)
Diagnostics(program) ==
  LET functions == program.functions
      inImage   == {program.image} \cup ReachableFrom(CallGraph(program), program.image)
  IN {<<"await_requires_async", d>> : d \in {n \in DOMAIN functions :
         "suspends" \in FactsOf(program, n) /\ functions[n].modifier # "async"}}
     \cup {<<"pure_effect_violation", d>> : d \in {n \in DOMAIN functions :
         functions[n].modifier = "pure" /\ "suspends" \in FactsOf(program, n)}}
     \cup {<<"build_constructor_outside_image", d>> : d \in {n \in DOMAIN functions :
         "constructs" \in FactsOf(program, n) /\ n \notin inImage}}
     \cup {<<"build_constructor_outside_image", 0>> : c \in {c \in program.constants : Constructs(c)}}
     \cup {<<"unproven_recursive_bound", d>> : d \in Unproven(program)}
=============================================================================
