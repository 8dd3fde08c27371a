-------------------------- MODULE FunctionExecution --------------------------
(***************************************************************************)
(* What the executions of a lowered function do to its places, by the      *)
(* rules of the language: an operand is evaluated when control reaches it, *)
(* `take` leaves exactly its place without a value, an assignment gives    *)
(* exactly its place a value, a deferred expression runs when its block is *)
(* left.  Data that no rule determines is chosen, so that one part has a   *)
(* set of results.                                                         *)
(*                                                                         *)
(* Integers and Booleans are numbers, TRUE is 1.  Arrays have two elements *)
(* and a place without fields or elements is a leaf; env.moved is a set of *)
(* leaves.  env.detour: the path did not run the body of some loop exactly *)
(* once and to its end, or is in a deferred expression; a moved place is   *)
(* then read as "MovedOnDetour".                                           *)
(***************************************************************************)
EXTENDS FunctionLowering

Going(env) == env.exit = ""

Stop(env, why) == [env EXCEPT !.exit = why]

Detour(env) == [env EXCEPT !.detour = TRUE]

Result(env, value) == [env |-> env, value |-> value]

Anything(type) == IF type \in {"Int", "Bool"} THEN {0, 1} ELSE {0}

RECURSIVE LeafPlaces(_, _)

LeafPlaces(place, type) ==
  LET t == Types[type]
      Below(p, of) == LeafPlaces([place EXCEPT !.path = Append(@, p)], of)
  IN IF DOMAIN t.fields # {} THEN UNION {Below(Field(f), t.fields[f].type) : f \in DOMAIN t.fields}
     ELSE IF t.element # "" THEN UNION {Below(Element(n), t.element) : n \in 0 .. 1}
     ELSE {place}

Within(leaf, place) == leaf.local = place.local /\ IsPrefix(place.path, leaf.path)

RECURSIVE Run(_, _)

(* Parts from left to right: [env, values].                                *)
RunAll(env, parts) ==
  FoldLeft(LAMBDA results, part :
             UNION {IF Going(r.env)
                    THEN {[env |-> n.env, values |-> Append(r.values, n.value)] : n \in Run(r.env, part)}
                    ELSE {r} : r \in results},
           {[env |-> env, values |-> <<>>]}, parts)

(* Continue the results that go on.                                        *)
Then(results, Next_(_)) ==
  UNION {IF Going(r.env) THEN Next_(r) ELSE {Result(r.env, 0)} : r \in results}

-----------------------------------------------------------------------------
(* Places: the elements get the values of their indexes in order.          *)
Concrete(place, values) ==
  FoldLeft(LAMBDA acc, p :
             IF p.field # "" THEN [acc EXCEPT !.path = Append(@, p)]
             ELSE [path |-> Append(acc.path, Element(Head(acc.left))), left |-> Tail(acc.left)],
           [path |-> <<>>, left |-> values], place.path).path

(* The place with its indexes evaluated, or a panic out of bounds.         *)
Locate(env, place, indexes) ==
  {IF ~ Going(r.env) THEN [env |-> r.env, place |-> place]
   ELSE IF \E i \in DOMAIN r.values : r.values[i] \notin 0 .. 1
   THEN [env |-> Stop(r.env, "Panicked"), place |-> place]
   ELSE [env |-> r.env, place |-> [place EXCEPT !.path = Concrete(place, r.values)]]
   : r \in RunAll(env, indexes)}

RunRead(env, e) ==
  UNION {LET p == r.place
         IN IF ~ Going(r.env) THEN {Result(r.env, 0)}
            ELSE IF p.local \notin r.env.bound THEN {Result(Stop(r.env, "Unbound"), 0)}
            ELSE IF \E leaf \in r.env.moved : Within(leaf, p)
            THEN {Result(Stop(r.env, IF r.env.detour THEN "MovedOnDetour" ELSE "Moved"), 0)}
            ELSE LET after == IF e.access = "Move"
                              THEN [r.env EXCEPT !.moved = @ \cup LeafPlaces(p, e.type)] ELSE r.env
                 IN {Result(after, n) : n \in IF p.path = <<>> /\ p.local \in DOMAIN r.env.ints
                                              THEN {r.env.ints[p.local]} ELSE Anything(e.type)}
         : r \in Locate(env, e.place, e.indexes)}

(* An element of a place is read as a place of its own.                    *)
RunIndex(env, e) ==
  IF e.root # <<>>
  THEN RunRead(env, Read(e.root[1].place, e.root[1].indexes, e.type, e.access))
  ELSE Then(RunAll(env, <<e.value, e.index>>),
            LAMBDA r : {Result(r.env, n) : n \in Anything(e.type)})

Truth(b) == IF b THEN 1 ELSE 0

Apply(operator, a, b) ==
  CASE operator = "+"  -> a + b
    [] operator = "-"  -> a - b
    [] operator = "<"  -> Truth(a < b)
    [] operator = "<=" -> Truth(a <= b)
    [] operator = ">"  -> Truth(a > b)
    [] operator = ">=" -> Truth(a >= b)
    [] OTHER           -> b

Skips(operator, value) == (operator = "and" /\ value = 0) \/ (operator = "or" /\ value = 1)

RunBinary(env, e) ==
  Then(Run(env, e.left),
       LAMBDA l : IF Skips(e.operator, l.value) THEN {l}
                  ELSE Then(Run(l.env, e.right),
                            LAMBDA r : {Result(r.env, Apply(e.operator, l.value, r.value))}))

-----------------------------------------------------------------------------
(* A local gets its first value, again when its block runs again.          *)
Bound(env, local, type, value) ==
  [env EXCEPT !.bound = @ \cup {local},
              !.moved = RestoredAll(@, {local}),
              !.ints  = IF type \in {"Int", "Bool"} THEN (local :> value) @@ @ ELSE @]

BoundPattern(env, pattern) ==
  FoldSet(LAMBDA local, acc : Bound(acc, local, "", 0), env, Bindings(pattern))

(* The indexes of the place come first, then the value.                    *)
RunAssign(env, s) ==
  UNION {Then(IF Going(l.env) THEN Run(l.env, s.value) ELSE {Result(l.env, 0)},
              LAMBDA r : {Result(IF l.place.path = <<>>
                                 THEN Bound(r.env, l.place.local, s.value.type, r.value)
                                 ELSE [r.env EXCEPT !.moved = {leaf \in @ : ~ Within(leaf, l.place)}], 0)})
         : l \in Locate(env, s.place, s.indexes)}

(* A block: on the way out its deferred expressions run, the last one      *)
(* first, unless it panicked.                                              *)
Deferred(env, exit, expressions) ==
  IF env.exit \in {"", "Break", "Continue", "Returned"}
  THEN {IF Going(r.env) THEN [r.env EXCEPT !.exit = exit, !.detour = env.detour] ELSE r.env
        : r \in RunAll(Detour(Stop(env, "")), expressions)}
  ELSE {env}

RunBlock(env, statements) ==
  UNION {{[e EXCEPT !.deferred = env.deferred] :
            e \in Deferred(r.env, r.env.exit, Reverse(r.env.deferred))}
         : r \in RunAll([env EXCEPT !.deferred = <<>>], statements)}

Blocks(env, statements) == {Result(e, 0) : e \in RunBlock(env, statements)}

(* Whether a value of the type, with the given variant, matches.           *)
Fit(pattern, value, variant) ==
  CASE pattern.kind = "Literal" -> value = Truth(pattern.value)
    [] pattern.kind = "Variant" -> pattern.variant = variant
    [] OTHER                    -> TRUE

VariantsOf(type) == IF Types[type].variants = {} THEN {""} ELSE Types[type].variants

(* What a pattern that takes the value of a place takes.                   *)
TakenBy(pattern, value) ==
  IF MovesValue(pattern) /\ RootPlace(value) # <<>>
  THEN LeafPlaces(RootPlace(value)[1].place, value.type) ELSE {}

RunIf(env, s) ==
  Then(Run(env, s.condition),
       LAMBDA r :
         IF s.pattern = <<>>
         THEN Blocks(r.env, IF r.value = 1 THEN s.then ELSE s.else)
         ELSE UNION {IF Fit(s.pattern[1], r.value, variant)
                     THEN Blocks([BoundPattern(r.env, s.pattern[1]) EXCEPT
                                    !.moved = @ \cup TakenBy(s.pattern[1], s.condition)], s.then)
                     ELSE Blocks(r.env, s.else)
                     : variant \in VariantsOf(s.condition.type)})

(* One round of a loop: it may go on with the next one.                    *)
Round(env, body) ==
  {IF e.exit = "Continue" THEN Stop(e, "") ELSE e : e \in RunBlock(env, body)}

Left(e) == IF e.exit = "Break" THEN Stop(e, "") ELSE e

(* Zero, one or two elements.                                              *)
RunFor(env, s) ==
  Then(Run(env, s.iterable),
       LAMBDA r :
         LET round(e) == IF Going(e) THEN Round(BoundPattern(e, s.pattern), s.body) ELSE {e}
             first     == round(r.env)
         IN {Result(Left(e), 0) : e \in {Detour(r.env)} \cup first \cup UNION {round(Detour(f)) : f \in first}})

(* The condition holds once more than the bound allows: a Defect.          *)
RunWhile(env, s) ==
  LET leave(r, n) == [env |-> IF n = 1 THEN r.env ELSE Detour(r.env), over |-> TRUE]
      round(r, n) ==
        IF n = s.bound THEN {[env |-> Stop(r.env, "Exceeded"), over |-> TRUE]}
        ELSE {[env |-> e, over |-> ~ Going(e)] :
                e \in Round(IF n = 0 THEN r.env ELSE Detour(r.env), s.body)}
      next(env_, n) ==
        UNION {IF ~ Going(r.env) \/ r.value = 0 THEN {leave(r, n)} ELSE round(r, n) :
                 r \in Run(env_, s.condition)}
      after[n \in 0 .. s.bound + 1] ==
        IF n = 0 THEN {[env |-> env, over |-> FALSE]}
        ELSE UNION {IF state.over THEN {state} ELSE next(state.env, n - 1) : state \in after[n - 1]}
  IN {Result(Left(state.env), 0) : state \in after[s.bound + 1]}

(* The cases in order; a guard sees what its pattern took.                 *)
RunCases(env, s, value, variant) ==
  LET fold == FoldLeft(
        LAMBDA acc, c :
          LET taken == TakenBy(c.pattern, s.value)
              tried == UNION {{[env |-> g.env, holds |-> c.guard = <<>> \/ g.values = <<1>>] :
                                g \in RunAll([BoundPattern(e, c.pattern) EXCEPT
                                                !.moved = @ \cup taken], c.guard)} : e \in acc.open}
          IN IF ~ Fit(c.pattern, value, variant) THEN acc
             ELSE [open   |-> {[t.env EXCEPT !.moved = @ \ taken] :
                                 t \in {u \in tried : Going(u.env) /\ ~ u.holds}},
                   closed |-> acc.closed
                     \cup {t.env : t \in {u \in tried : ~ Going(u.env)}}
                     \cup UNION {RunBlock(t.env, c.body) :
                                   t \in {u \in tried : Going(u.env) /\ u.holds}}],
        [open |-> {env}, closed |-> {}], s.cases)
  IN {Result(e, 0) : e \in fold.closed} \cup {Result(Stop(e, "NoCase"), 0) : e \in fold.open}

RunMatch(env, s) ==
  Then(Run(env, s.value),
       LAMBDA r : UNION {RunCases(r.env, s, r.value, variant) : variant \in VariantsOf(s.value.type)})

RunWith(env, s) ==
  Then(Run(env, s.scope), LAMBDA r : Blocks(Bound(r.env, s.local, "", 0), s.body))

RunPart(env, part) ==
  CASE part.kind = "Int"        -> {Result(env, part.value)}
    [] part.kind = "Bool"       -> {Result(env, Truth(part.value))}
    [] part.kind = "Read"       -> RunRead(env, part)
    [] part.kind = "Index"      -> RunIndex(env, part)
    [] part.kind = "Call"       -> Then(RunAll(env, part.arguments),
                                        LAMBDA r : {Result(r.env, n) : n \in Anything(part.type)})
    [] part.kind = "Binary"     -> RunBinary(env, part)
    [] part.kind = "Evaluate"   -> Then(RunAll(env, part.values), LAMBDA r : {Result(r.env, 0)})
    [] part.kind = "Return"     -> Then(RunAll(env, part.values),
                                        LAMBDA r : {Result(Stop(r.env, "Returned"), 0)})
    [] part.kind = "Panic"      -> Then(RunAll(env, part.values),
                                        LAMBDA r : {Result(Stop(r.env, "Panicked"), 0)})
    [] part.kind = "Defer"      -> {Result([env EXCEPT !.deferred = @ \o part.values], 0)}
    [] part.kind = "Initialize" -> Then(Run(env, part.value),
                                        LAMBDA r : {Result(Bound(r.env, part.local, part.value.type,
                                                                 r.value), 0)})
    [] part.kind = "Assign"     -> RunAssign(env, part)
    [] part.kind = "If"         -> RunIf(env, part)
    [] part.kind = "For"        -> RunFor(env, part)
    [] part.kind = "While"      -> RunWhile(env, part)
    [] part.kind = "Match"      -> RunMatch(env, part)
    [] part.kind = "With"       -> RunWith(env, part)
    [] part.kind \in {"Break", "Continue"} -> {Result(Stop(Detour(env), part.kind), 0)}
    [] part.kind = "Pass"       -> {Result(env, 0)}

Run(env, part) == RunPart(env, part)

(* How the executions of a function end.                                   *)
Endings(parameters, body) ==
  {e.exit : e \in RunBlock([moved |-> {}, bound |-> parameters, ints |-> <<>>, deferred |-> <<>>,
                            detour |-> FALSE, exit |-> ""], body)}
=============================================================================
