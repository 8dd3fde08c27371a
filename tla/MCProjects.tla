------------------------------ MODULE MCProjects -----------------------------
(***************************************************************************)
(* Small projects: revisions whose identities are assigned, installations   *)
(* of the compiler's own modules, Image Constructors, and programs of two  *)
(* functions that call each other.                                         *)
(***************************************************************************)
EXTENDS Integers, Sequences, TLC

-----------------------------------------------------------------------------

(* A project module and an authenticated one, with declarations of every    *)
(* kind, and lowerings that ask for up to three things in every order.  A   *)
(* wide hash never clashes here; a narrow one does, sooner or later.        *)
Declaration(kind, name, start, nested) ==
  [valid |-> TRUE, kind |-> kind, name |-> name, start |-> start, nested |-> nested]

Nested(what, name) == [what |-> what, name |-> name]

Enum   == Declaration("enum", 1, 0, <<Nested("variant", 1), Nested("variant", 2),
                                      Nested("associated_function", 1)>>)
Struct == Declaration("struct", 2, 1, <<Nested("associated_function", 1)>>)
Suite  == Declaration("suite", 3, 2, <<Nested("test", 1), Nested("test", 2)>>)
Pool   == Declaration("pool", 4, 3, <<>>)
Fn     == Declaration("function", 5, 4, <<>>)

Module(path, origin, declarations) ==
  [path |-> path, origin |-> origin, declarations |-> declarations]

Modules == <<Module(1, "project", <<Enum, Struct, Suite, Pool, Fn>>),
             Module(2, "authenticated", <<Struct, Fn>>)>>

(* One declaration is malformed, or takes the name of another.              *)
Malformed == {[Modules EXCEPT ![1].declarations[2].valid = FALSE],
              [Modules EXCEPT ![1].declarations[2].name = 1],
              [Modules EXCEPT ![1].declarations[2] = [Enum EXCEPT !.start = 9]]}

Type(tag, definition, arguments) ==
  [tag |-> tag, definition |-> definition, arguments |-> arguments]

Integer == Type(2, <<>>, <<>>)
Colour  == Type(12, <<1, "enum", 1>>, <<>>)
Card    == Type(12, <<1, "struct", 2>>, <<>>)
Other   == Type(12, <<2, "struct", 2>>, <<Colour>>)
Array(element) == Type(7, <<>>, <<element>>)

Asks(type) == [what |-> "type", type |-> type]
Specialize(path, arguments, body) ==
  [what |-> "specialization", function |-> <<path, "function", 5>>,
   arguments |-> arguments, body |-> body]

Demands == {Asks(Integer), Asks(Array(Other)), Asks(Card),
            Specialize(1, <<>>, 1), Specialize(2, <<>>, 0),
            Specialize(1, <<Colour>>, 2), Specialize(1, <<Array(Colour)>>, 0),
            Specialize(1, <<Array(Colour)>>, 3)}

Asked == {Integer, Colour, Card, Other, Array(Other), Array(Colour)}

Revision(hasher, modules, demands) ==
  [hasher |-> hasher, modules |-> modules, demands |-> demands,
   types |-> IF demands = <<>> THEN {} ELSE Asked]

Wide   == 67108859
Narrow == {37, 61, 101, 151, 211, 307, 401, 503}

MCRevision ==
  {Revision(Wide, Modules, <<a, b, c>>) : a, b, c \in Demands}
  \cup {Revision(hasher, Modules, <<a, b>>) : hasher \in Narrow, a, b \in Demands}
  \cup {Revision(Wide, modules, <<>>) : modules \in Malformed}

-----------------------------------------------------------------------------

(* Every import graph of three modules, self imports included, one of which *)
(* may import what is not there; then installations with one defect.        *)
Installable(path, imports) == [path |-> path, valid |-> TRUE, clean |-> TRUE, imports |-> imports]

Installs(modules) == [modules |-> modules, catalog |-> "identified", analysis |-> "clean"]

ImportGraphs == {<<Installable(2, a), Installable(1, b), Installable(3, c)>> :
              a \in SUBSET {1, 2, 3}, b \in SUBSET {1, 2, 3, 4}, c \in SUBSET {1, 2, 3}}

Sound == <<Installable(2, {1}), Installable(1, {}), Installable(3, {2})>>

OneDefect ==
  { [Sound EXCEPT ![i].valid = FALSE] : i \in 1..3 }
  \cup { [Sound EXCEPT ![i].clean = FALSE] : i \in 1..3 }
  \cup { [Sound EXCEPT ![i].path = p] : i \in 1..3, p \in {1, 2} }

MCInstalled ==
  { Installs(modules) : modules \in ImportGraphs \cup OneDefect }
  \cup { [Installs(Sound) EXCEPT !.catalog = "collision"] }
  \cup { [Installs(Sound) EXCEPT !.analysis = found] : found \in {"defect", "diagnostic"} }

-----------------------------------------------------------------------------

(* Image Constructors of four steps.  A step takes nothing, the value just *)
(* made, or all values; a node may be built again where an earlier one was *)
(* built, as in a loop.                                                    *)
Takes(i) == {<<>>, [k \in 1..(i - 1) |-> k]} \cup {<<k>> : k \in {i - 1} \ {0}}

Step(op, kind, at, from) == [op |-> op, kind |-> kind, at |-> at, from |-> from]

Build(i, kind) == {Step("build", kind, i, from) : from \in Takes(i)}

FirstStep == {Step("build", "Node", 1, <<>>), Step("build", "Image", 1, <<>>),
              Step("apply", "passes", 1, <<>>),
              Step("constant", "Node", 1, <<>>), Step("constant", "Image", 1, <<>>)}

Middle(i) == Build(i, "Node") \cup Build(i, "Test")
             \cup {Step("build", "Node", 1, <<>>), Step("build", "Test", 2, <<>>)}
             \cup {Step("apply", "passes", i, <<>>), Step("apply", "fails", i, <<i - 1>>),
                   Step("gather", "", i, [k \in 1..(i - 1) |-> k])}

(* The value returned is an Image.                                         *)
Returned(i) == Build(i, "Image") \cup {Step("constant", "Image", i, <<>>)}

MCConstructorSteps ==
  {<<a, b, c, d>> : a \in FirstStep, b \in Middle(2), c \in Middle(3), d \in Returned(4)}
  \cup {<<a>> : a \in Returned(1)}

-----------------------------------------------------------------------------

(* Programs of two functions for FunctionRuns: one family for what can     *)
(* happen in a body and in what it calls, one for recursion.               *)
Lit(v)            == [kind |-> "Literal", args |-> <<>>, value |-> v]
Local(l)          == [kind |-> "Read", args |-> <<>>, local |-> l]
Binary(o, a, b)   == [kind |-> "Binary", args |-> <<a, b>>, operator |-> o, integer |-> TRUE]
Plus              == Binary("+", Lit(1), Lit(2))
Shift             == Binary("<<", Lit(1), Lit(2))
Compare           == Binary("<", Lit(1), Lit(2))
Unary(kind, e)    == [kind |-> kind, args |-> <<e>>, integer |-> TRUE]
Repeated(e, n)    == [kind |-> "RepeatedArray", args |-> <<e>>, length |-> n]
BuildCall         == [kind |-> "Call", args |-> <<Lit(0)>>, target |-> "Build"]
CallOf(d, order, args) ==
  [kind |-> "Call", args |-> args, target |-> "Function", definition |-> d, order |-> order]
Tell(d)           == CallOf(d, <<1>>, <<Lit(1)>>)

Statement(kind, values)       == [kind |-> kind, values |-> values, places |-> <<>>,
                                  guards |-> <<>>, blocks |-> <<>>]
Nesting(kind, values, blocks) == [Statement(kind, values) EXCEPT !.blocks = blocks]
Return(e)                     == <<Statement("Return", <<e>>)>>
Pass                          == Statement("Pass", <<>>)

Function(modifier, params, body) == [modifier |-> modifier, params |-> params, body |-> body]

IntegerBy(access) == [integer |-> TRUE, access |-> access]
Word              == [integer |-> FALSE, access |-> "Copy"]
Whole             == IntegerBy("Copy")

Program(functions, constants) == [functions |-> functions, constants |-> constants, image |-> 1]

-----------------------------------------------------------------------------

(* Bodies that call `d`: every kind of statement and of expression that    *)
(* the visits tell apart, the innermost below another.                     *)
Bodies(d) ==
  {<<Pass>>, Return(Plus), Return(Compare), Return(Unary("Await", Tell(d))),
   Return(Unary("Negate", Lit(1))), Return(Unary("Propagate", Tell(d))), Return(Repeated(Tell(d), 2)),
   Return(BuildCall), Return([kind |-> "Index", args |-> <<Lit(0), Tell(d)>>]),
   <<Statement("Assert", <<Tell(d)>>)>>, <<Statement("Expect", <<Tell(d)>>)>>,
   <<Statement("Panic", <<Tell(d)>>)>>,
   <<Nesting("If", <<Tell(d)>>, <<<<Pass>>, Return(Plus)>>)>>,
   <<Nesting("Match", <<Lit(0)>>, <<<<Pass>>, <<Nesting("For", <<Lit(0)>>, <<Return(BuildCall)>>)>>>>)>>,
   <<Nesting("While", <<Compare>>, <<<<Pass>>, Return(Tell(d))>>)>>}

(* What the analyses do not look at.                                       *)
HiddenBodies(d) ==
  {Return(Shift),
   <<[Nesting("Match", <<Lit(0)>>, <<<<Pass>>>>) EXCEPT !.guards = <<Tell(d)>>]>>,
   <<[Statement("Assign", <<Lit(0)>>) EXCEPT !.places = <<Tell(d)>>]>>,
   Return([kind |-> "Read", args |-> <<Tell(d)>>, local |-> 1]),
   Return([kind |-> "Call", target |-> "Callable",
           args |-> <<[kind |-> "FunctionValue", args |-> <<>>, definition |-> d], Lit(1)>>])}

(* Either body may be any; the parameters, the modifier and the constants  *)
(* matter beside a few.                                                    *)
FactPrograms ==
  {Program(1 :> Function("none", <<Whole>>, a) @@ 2 :> Function("none", <<Whole>>, b), {}) :
     a \in Bodies(2) \cup HiddenBodies(2), b \in Bodies(1) \cup HiddenBodies(1)}
  \cup {Program(1 :> Function(m, <<Whole>>, Return(Tell(2))) @@ 2 :> Function(n, <<IntegerBy("Move")>>, b),
                {Unary("Negate", BuildCall)}) :
          m \in {"none", "async", "pure"}, n \in {"none", "async"}, b \in {<<Pass>>, Return(BuildCall)}}

-----------------------------------------------------------------------------

Less(l, n) == Binary("-", Local(l), Lit(n))

(* Calls of a function with parameters <<Word, Whole>> or <<Whole>>,       *)
(* whose arguments come in another order too.                              *)
Recursions(d, wide, own) ==
  LET arguments == {Less(own, 1), Less(own, 0), Local(own), Lit(1), Plus, Less(own, 2)}
  IN IF wide
     THEN {CallOf(d, <<1, 2>>, <<Lit(0), a>>) : a \in arguments}
          \cup {CallOf(d, <<2, 1>>, <<a, Lit(0)>>) : a \in arguments}
          \cup {CallOf(d, <<2, 1>>, <<Local(own), Less(own, 1)>>)}
     ELSE {CallOf(d, <<1>>, <<a>>) : a \in arguments}

Shapes(e) == {Return(e), <<Statement("Defer", <<e>>), Nesting("For", <<Lit(0)>>, <<Return(e)>>)>>}

RecursionBody(d, wide, own) ==
  UNION {Shapes(e) : e \in Recursions(d, wide, own)}
  \cup {Return(Binary("+", e, e)) : e \in Recursions(d, wide, own)}

(* One function that calls itself; two that call each other.               *)
RecursionPrograms ==
  {Program(1 :> Function("none", <<Word, Whole>>, body), {}) : body \in RecursionBody(1, TRUE, 2)}
  \cup {Program(1 :> Function("none", <<Word, Whole>>, Return(a)) @@ 2 :> Function("none", <<Whole>>, Return(b)), {}) :
          a \in Recursions(2, FALSE, 2) \cup Recursions(1, TRUE, 2), b \in Recursions(1, TRUE, 1)}
  \cup {Program(1 :> Function("none", <<Word>>, Return(CallOf(1, <<1>>, <<Lit(0)>>))), {})}

Programmes == {FactPrograms, RecursionPrograms}
=============================================================================
