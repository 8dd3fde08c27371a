----------------------------- MODULE FunctionRuns -----------------------------
(***************************************************************************)
(* What can happen when a function of a program runs, by the rules of the  *)
(* language: every part of a body may be evaluated, in any order and any   *)
(* number of times; an integer operation may panic; a call binds its       *)
(* arguments to the parameters they are for.  Integers that are not        *)
(* computed from a measure are chosen.                                     *)
(***************************************************************************)
EXTENDS FunctionFacts

VARIABLES
  program,
  concluded, \* what the analyses concluded from it
  start,     \* the function that was entered first
  frames,    \* calls that have not returned: [function, arguments]
  happened   \* what happened since

runVars == <<program, concluded, start, frames, happened>>

Integers_ == 0 .. GreatestInteger

Frame(d, arguments) == [function |-> d, arguments |-> arguments]

Running == frames # <<>>

Top == Last(frames)

Here == PartsOf(program.functions[Top.function])

(* The evaluator's own limit of the depth.                                 *)
Deepest == 2 * (GreatestInteger + 2)

(* What entering a function by itself does.                                *)
Entering(d) == {x \in {"moves"} : \E i \in DOMAIN program.functions[d].params :
                                     program.functions[d].params[i].access = "Move"}

Enter(d, arguments) ==
  /\ Len(frames) < Deepest
  /\ frames' = Append(frames, Frame(d, arguments))
  /\ happened' = happened \cup Entering(d)
  /\ UNCHANGED <<program, concluded, start>>

(* The values an argument can have; none, when computing it panics.        *)
ValuesOf(e) ==
  CASE e.kind = "Read" /\ e.args = <<>> -> {Top.arguments[e.local]}
    [] e.kind = "Literal" -> {e.value}
    [] e.kind = "Binary" /\ e.operator = "-" /\ e.args[1].kind = "Read" /\ e.args[2].kind = "Literal"
         -> {Top.arguments[e.args[1].local] - e.args[2].value} \cap Integers_
    [] OTHER -> Integers_

(* What semantic.rs knows of a program before any of it runs.              *)
Conclusions ==
  [facts    |-> [d \in DOMAIN program.functions |-> FactsOf(program, d)],
   groups   |-> [d \in DOMAIN program.functions |-> Group(CallGraph(program), d)],
   unproven |-> Unproven(program)]

RunInit == /\ program \in UNION LoweredPrograms
           /\ concluded = Conclusions
           /\ start \in DOMAIN program.functions
           /\ frames \in {<<Frame(start, a)>> : a \in [DOMAIN program.functions[start].params -> Integers_]}
           /\ happened = Entering(start)

(* Integer operations are checked, shifts too; so are indexes.             *)
CanPanic(e) == \/ e.kind = "Index"
               \/ e.kind = "Read" /\ e.args # <<>>
               \/ e.kind = "Negate" /\ e.integer
               \/ e.kind = "Binary" /\ e.integer /\ e.operator \in {"+", "-", "*", "/", "%", "<<", ">>"}

RunPanic == /\ Running
            /\ \/ \E e \in Here : CanPanic(e)
               \/ \E s \in Statements(program.functions[Top.function].body) :
                    s.kind \in {"Panic", "Assert"} \/ s.places # <<>>
            /\ happened' = happened \cup {"panics"} /\ frames' = <<>>
            /\ UNCHANGED <<program, concluded, start>>

Happens(what, Does(_)) == /\ Running /\ \E e \in Here : Does(e)
                          /\ happened' = happened \cup {what}
                          /\ UNCHANGED <<program, concluded, start, frames>>

RunSuspend   == Happens("suspends", LAMBDA e : e.kind = "Await")
RunConstruct == Happens("constructs", CallsBuild)

RunCall == /\ Running
           /\ \E e \in Here : \E d \in CalledIn(e) :
                \E a \in [DOMAIN program.functions[d].params -> Integers_] :
                  /\ \A i \in DOMAIN e.args : a[e.order[i]] \in ValuesOf(e.args[i])
                  /\ Enter(d, a)

(* A function value that is called where it stands.                        *)
RunCallable == /\ Running
               /\ \E e \in Here : /\ e.kind = "Call" /\ e.target = "Callable"
                                  /\ e.args[1].kind = "FunctionValue"
                                  /\ \E a \in [DOMAIN program.functions[e.args[1].definition].params
                                                 -> Integers_] : Enter(e.args[1].definition, a)

RunReturn == /\ Running
             /\ frames' = Front(frames)
             /\ UNCHANGED <<program, concluded, start, happened>>

RunNext == RunPanic \/ RunSuspend \/ RunConstruct \/ RunCall \/ RunCallable \/ RunReturn

RunSpec == RunInit /\ [][RunNext]_runVars

-----------------------------------------------------------------------------

(* The analyses do not look at the guards of cases, at the indexes of      *)
(* places, at functions that are values and at shifts; programs without    *)
(* any of these.                                                           *)
Plain ==
  \A d \in DOMAIN program.functions :
    /\ \A s \in Statements(program.functions[d].body) : s.guards = <<>> /\ s.places = <<>>
    /\ \A e \in PartsOf(program.functions[d]) :
         /\ e.kind = "Read" => e.args = <<>>
         /\ e.kind # "FunctionValue"
         /\ e.kind = "Binary" => e.operator \notin {"<<", ">>"}

(* Whatever can happen in a run of a function, in the functions it calls   *)
(* too, is among the function's facts.                                     *)
(* (semantic.rs, local_facts and solve_fact_graph.)                        *)
FactsCover == Plain => happened \subseteq concluded.facts[start]

NestedIn(group) == Cardinality({i \in DOMAIN frames : frames[i].function \in group})

(* A program without an unproven cycle never nests the functions of one    *)
(* cycle deeper than the proven bound, and others not at all.              *)
(* (semantic.rs, analyze_recursion and recursive_calls_decrease.)          *)
CyclesEnd ==
  Plain /\ concluded.unproven = {} =>
    \A d \in DOMAIN program.functions :
      NestedIn({d} \cup concluded.groups[d]) <= IF concluded.groups[d] = {} THEN 1 ELSE MaximumCalls
=============================================================================
