----------------------------- MODULE MCEvaluator -----------------------------
(* Programs for TLC.  Every leaf and check has a site of its own, so that   *)
(* a leaf evaluated twice, late or not at all shows in the trace.           *)
EXTENDS EvaluatorReference

(* Expressions.                                                            *)
Leaf_(site, type)     == [kind |-> "Leaf", site |-> site, type |-> type, length |-> 0]
Int_(site)            == Leaf_(site, "Int")
Bool_(site)           == Leaf_(site, "Bool")
Array_(site, n)       == [Leaf_(site, "Array") EXCEPT !.length = n]
Field_(local, field)  == [kind |-> "Read", local |-> local, field |-> field]
Read_(local)          == Field_(local, 0)
Elements_(es)         == [kind |-> "Array", arguments |-> es]
At_(local, i, site)   == [kind |-> "ReadPlace", local |-> local, index |-> i, site |-> site]
Add_(l, r, site)      == [kind |-> "Binary", left |-> l, right |-> r, site |-> site]
Neg_(e, site)         == [kind |-> "Negate", value |-> e, site |-> site]
Logic_(l, op, r)      == [kind |-> "ShortCircuit", left |-> l, operator |-> op, right |-> r]
Try_(e)               == [kind |-> "Propagate", value |-> e]
Make_(variant, e)     == [kind |-> "Variant", name |-> variant, arguments |-> <<e>>]
Struct_(es, order)    == [kind |-> "Struct", arguments |-> es, order |-> order]
Named_(f, es, order, mutable) ==
  [kind |-> "Call", function |-> f, arguments |-> es, order |-> order, mutable |-> mutable]
Call_(f, es, mutable) == Named_(f, es, [i \in DOMAIN es |-> i], mutable)
ValueOf_(f)           == [kind |-> "Function", function |-> f]
Apply_(c, es, mutable) == [kind |-> "CallClosure", callable |-> c, arguments |-> es,
                           mutable |-> mutable]
Lambda_(captures, params, types, returns, body) ==
  [kind |-> "Closure", name |-> "closure", captures |-> captures, params |-> params,
   types |-> types, returns |-> returns, body |-> body]

(* Statements.                                                             *)
Of_(kind, e)         == [kind |-> kind, value |-> e, site |-> "stop"]
Do_(e)               == Of_("Evaluate", e)
Return_(e)           == Of_("Return", e)
Let_(local, e)       == [kind |-> "Initialize", local |-> local, value |-> e]
Set_(local, e)       == [kind |-> "Assign", local |-> local, value |-> e]
SetAt_(l, i, e, s)   == [kind |-> "AssignPlace", local |-> l, index |-> i, value |-> e,
                         site |-> s]
SetField_(l, f, e)   == [kind |-> "AssignField", local |-> l, field |-> f, value |-> e]
Defer_(e)            == [kind |-> "Defer", expression |-> e]
If_(c, then, else)   == [kind |-> "If", value |-> c, then |-> then, else |-> else]
IfIs_(e, p, t, f)    == [kind |-> "IfPattern", value |-> e, pattern |-> p,
                         then |-> t, else |-> f]
For_(p, e, body)     == [kind |-> "For", pattern |-> p, value |-> e, body |-> body]
While_(c, n, body)   == [kind |-> "While", condition |-> c, bound |-> n, body |-> body]
Match_(e, cases)     == [kind |-> "Match", value |-> e, cases |-> cases]
Case_(p, guard, b)   == [pattern |-> p, guard |-> guard, body |-> b]
Pool_(local, e, b)   == [kind |-> "WithPool", local |-> local, scope |-> e, body |-> b]
Plain_(kind)         == [kind |-> kind]
Pattern_(variant, l) == [variant |-> variant, local |-> l]

Function_(name, params, types, returns, body) ==
  [kind |-> "function", name |-> name, params |-> params, types |-> types,
   returns |-> returns, body |-> body]

Main(returns, body) == "main" :> Function_("main", <<>>, <<>>, returns, body)

-----------------------------------------------------------------------------
(* Every way to leave a block, in every kind of block, between two deferred *)
(* expressions and inside an outer scope that defers as well.               *)

Leaves == { Return_(Int_("r")),
            Return_(Try_(Leaf_("p", "Result"))),
            Do_(Try_(Leaf_("p", "Result"))),
            Of_("Panic", Int_("m")),
            Of_("Assert", Bool_("a")) }

LoopLeaves == Leaves \cup { Plain_("Break"), Plain_("Continue") }

Around(leave) == << Defer_(Int_("d1")),
                    If_(Bool_("c"), <<Defer_(Int_("d2")), leave>>, <<Plain_("Pass")>>),
                    Defer_(Call_("close", <<Int_("d3")>>, <<>>)) >>

Close == "close" :> Function_("close", <<"h">>, <<"Int">>, "Int",
                              <<Return_(Neg_(Read_("h"), "n"))>>)

Whole_(local) == Pattern_("any", local)

Loops(body) ==
  { For_(Whole_("i"), Array_("xs", 2), body),
    While_(Bool_("w"), 2, body),
    For_(Whole_("i"), Array_("xs", 1), <<Pool_("q", Int_("s"), body)>>),
    For_(Whole_("i"), Array_("xs", 2), <<For_(Whole_("j"), Array_("ys", 1), body)>>),
    For_(Whole_("i"), Array_("xs", 2),
         <<Match_(Leaf_("v", "Result"),
                  <<Case_(Pattern_("Ok", "x"), <<Bool_("g")>>, body),
                    Case_(Whole_(""), <<>>, <<Do_(Read_("i"))>>)>>)>>) }

Blocks(body) ==
  { Pool_("q", Int_("s"), body),
    IfIs_(Leaf_("v", "Result"), Pattern_("Err", "x"), body, <<Do_(Int_("else"))>>),
    Match_(Leaf_("v", "Result"), <<Case_(Pattern_("Ok", "x"), <<>>, body),
                                   Case_(Pattern_("Err", "x"), <<>>, <<Plain_("Pass")>>)>>) }

Within(block) ==
  Main("Result", <<Defer_(Int_("d0")), block, Do_(Int_("after")), Return_(Int_("end"))>>)
  @@ Close

ScopePrograms ==
  {Within(block) : block \in UNION {Loops(Around(leave)) : leave \in LoopLeaves}}
  \cup {Within(block) : block \in UNION {Blocks(Around(leave)) : leave \in Leaves}}

-----------------------------------------------------------------------------
(* Calls, closures, write-backs and the expressions.                       *)

(* A mutable parameter is reassigned, then the callee returns or fails.    *)
Fill == "fill" :> Function_("fill", <<"p", "k">>, <<"Array", "Int">>, "Result",
          <<Set_("p", Elements_(<<Read_("k"), Int_("e")>>)),
            Do_(Try_(Leaf_("f", "Result"))),
            SetAt_("p", Int_("i1"), Int_("new"), "store"),
            Return_(Int_("filled"))>>)

Pair == Struct_(<<Int_("x"), Array_("xs", 1)>>, <<2, 1>>)

Filling ==
  Main("Result",
       <<Let_("a", Array_("xs", 1)),
         Defer_(At_("a", Int_("i0"), "last")),
         Do_(Try_(Call_("fill", <<Read_("a"), Int_("k")>>, <<1>>))),
         Return_(Make_("Ok", Read_("a")))>>) @@ Fill

(* Named arguments; the mutable one is a field of a struct.                *)
Pairing ==
  Main("Result",
       <<Let_("s", Pair),
         Defer_(Field_("s", 2)),
         Do_(Try_(Named_("fill", <<Int_("k"), Field_("s", 1)>>, <<2, 1>>, <<2>>))),
         SetField_("s", 2, Int_("y")),
         Return_(Make_("Ok", Read_("s")))>>) @@ Fill

(* Function values, called by position, passed on and compared with a      *)
(* closure.                                                                *)
Passing ==
  Main("Result",
       <<Let_("a", Array_("xs", 2)),
         Let_("f", ValueOf_("fill")),
         Do_(Try_(Apply_(Read_("f"), <<Read_("a"), Int_("k")>>, <<1>>))),
         Do_(Named_("with", <<Int_("x"), ValueOf_("close")>>, <<2, 1>>, <<>>)),
         Do_(Named_("with", <<Int_("y"), Lambda_(<<"a">>, <<"p">>, <<"Int">>, "Array",
                                                 Read_("a"))>>, <<2, 1>>, <<>>)),
         Return_(Make_("Ok", Elements_(<<Read_("a"), Read_("f")>>)))>>)
  @@ "with" :> Function_("with", <<"g", "h">>, <<"Callable", "Int">>, "Unit",
                         <<Do_(Apply_(Read_("g"), <<Read_("h")>>, <<>>))>>)
  @@ Fill @@ Close

(* A stored element of another size than the one it replaces.              *)
Nesting ==
  Main("Array",
       <<Let_("a", Elements_(<<Array_("xs", 1), Array_("ys", 2)>>)),
         SetAt_("a", Int_("i"), Array_("zs", 3), "store"),
         Return_(Elements_(<<At_("a", Int_("j"), "load"), Read_("a")>>))>>)

(* A closure keeps the value it captured when the local is reassigned.     *)
Capturing ==
  Main("Int",
       <<Let_("a", Int_("first")),
         Let_("c", Lambda_(<<"a">>, <<"p">>, <<"Int">>, "Int",
                           Add_(Read_("a"), Call_("close", <<Read_("p")>>, <<>>), "sum"))),
         Set_("a", Int_("second")),
         Return_(Add_(Apply_(Read_("c"), <<Int_("x")>>, <<>>), Read_("a"), "total"))>>) @@ Close

(* Operands left to right, through calls that may panic.                   *)
Ordering ==
  Main("Result",
       <<If_(Logic_(Logic_(Bool_("b1"), "and", Bool_("b2")), "or", Bool_("b3")),
             <<Return_(Add_(Call_("close", <<Int_("l")>>, <<>>),
                            Add_(Int_("m"), Call_("close", <<Int_("o")>>, <<>>), "in"),
                            "out"))>>,
             <<Let_("z", Make_("Ok", Int_("q"))), Return_(Read_("z"))>>)>>) @@ Close

(* Unit functions, by `return` and by falling through.                     *)
Units ==
  Main("Unit", <<Defer_(Call_("log", <<Int_("u")>>, <<>>)),
                 Do_(Call_("log", <<Int_("w")>>, <<>>)),
                 If_(Bool_("c"), <<Plain_("ReturnUnit")>>, <<Do_(Int_("x"))>>)>>)
  @@ "log" :> Function_("log", <<"k">>, <<"Int">>, "Unit",
                <<Defer_(Int_("y")), If_(Bool_("z"), <<Plain_("ReturnUnit")>>, <<>>)>>)

Generous == [fuel |-> 10000, compilationFuel |-> 10000, memory |-> 10000, depth |-> 16,
             compilationMemory |-> 10000]

Workloads_(programs, priors, limits) ==
  { [program |-> p, prior |-> prior, limits |-> limits] : p \in programs, prior \in priors }

SemanticWorkloads ==
  Workloads_(ScopePrograms \cup {Filling, Pairing, Passing, Nesting, Capturing,
                               Ordering, Units}, {0}, Generous)

-----------------------------------------------------------------------------
(* Programs for the ceilings: recursion, a loop and values that grow.      *)

Recursive ==
  Main("Result", <<Return_(Call_("down", <<Int_("n")>>, <<>>))>>)
  @@ "down" :> Function_("down", <<"k">>, <<"Int">>, "Result",
                 <<Defer_(Int_("d")),
                   If_(Bool_("c"), <<Return_(Call_("down", <<Read_("k")>>, <<>>))>>,
                                   <<Return_(Try_(Leaf_("p", "Result")))>>)>>)

Growing ==
  Main("Array", <<Let_("a", Array_("xs", 0)),
                  While_(Bool_("w"), 3, <<Set_("a", Elements_(<<Read_("a"), Read_("a")>>))>>),
                  Return_(Read_("a"))>>)

(* Each of the four ceilings can be the first one to be reached.           *)
Tight == [fuel |-> 60, compilationFuel |-> 75, memory |-> 400, depth |-> 4,
          compilationMemory |-> 10000]

LimitWorkloads == Workloads_({Recursive, Growing}, {0, 20, 45}, Tight)

(* Every retain in turn is the first to be refused, in calls, write-backs, *)
(* captures and deferred expressions.                                      *)
StarvedWorkloads ==
  UNION {Workloads_({Filling, Pairing, Passing, Nesting, Capturing, Units}, {0},
                    [Generous EXCEPT !.memory = 16 * n]) :
           n \in 4..40}

EvaluationWorkloads == SemanticWorkloads \cup LimitWorkloads \cup StarvedWorkloads

-----------------------------------------------------------------------------
(* `return Result.Ok(inner()?)` and `return 1 + inner()?`.                 *)
NestedPropagation == Workloads_(
  { Main("Result", <<Return_(Make_("Ok", Try_(Leaf_("p", "Result"))))>>),
    Main("Result", <<Defer_(Int_("d")),
                     Return_(Add_(Int_("one"), Try_(Leaf_("p", "Result")), "sum"))>>) },
  {0}, Generous)

(* A binding in the body of a loop.                                        *)
LoopBindings == Workloads_(
  { Main("Result", <<For_(Whole_("i"), Array_("xs", n),
                          <<Let_("b", Int_("x")), Do_(Read_("b"))>>),
                     Return_(Int_("end"))>>) : n \in 0..2 },
  {0}, Generous)

-----------------------------------------------------------------------------
(* The expressions and statements of the workloads.                        *)
Fields_(n, names) == {n[x] : x \in names \cap DOMAIN n}

Parts_(n) ==
  LET bodies == {"arguments", "then", "else"} \cup IF n.kind = "Closure" THEN {} ELSE {"body"}
      cases  == UNION {ToSet(cs) : cs \in Fields_(n, {"cases"})}
  IN Fields_(n, {"value", "left", "right", "index", "callable", "condition", "scope",
                 "expression"} \cup IF n.kind = "Closure" THEN {"body"} ELSE {})
     \cup UNION {ToSet(es) : es \in Fields_(n, bodies)}
     \cup UNION {ToSet(c.guard) \cup ToSet(c.body) : c \in cases}

RECURSIVE Nodes_(_)
Nodes_(n) == {n} \cup UNION {Nodes_(part) : part \in Parts_(n)}

Code_(workloads) ==
  LET programs == {w.program : w \in workloads}
      bodies   == UNION {{p[f].body : f \in DOMAIN p} : p \in programs}
  IN UNION {UNION {Nodes_(s) : s \in ToSet(body)} : body \in bodies}

EvaluationCode == Code_(EvaluationWorkloads)
NestedCode     == Code_(NestedPropagation)
LoopCode       == Code_(LoopBindings)
=============================================================================
