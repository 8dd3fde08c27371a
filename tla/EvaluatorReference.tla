-------------------------- MODULE EvaluatorReference --------------------------
(***************************************************************************)
(* What the evaluator promises, written as a big-step semantics: the value *)
(* of an expression and the effect of a statement, by recursion over the   *)
(* program, with no stack of controls.  The choices are read from the      *)
(* trace of the machine, in order and at the site they were made, so that  *)
(* agreement also means that the machine evaluated the same leaves, once   *)
(* each and in the same order.                                             *)
(*                                                                         *)
(* A result has a signal: "value"/"normal" to go on, "return", "break" and *)
(* "continue" to leave, "stop" when the root has an outcome.               *)
(***************************************************************************)
EXTENDS Evaluator

Result(signal, v, env, t) == [signal |-> signal, v |-> v, env |-> env, t |-> t]

Stop(kind, of, env, t) == Result("stop", [kind |-> kind, of |-> of], env, t)

(* The next choice was made at this site.                                  *)
Known(site, t)  == t < Len(trace) /\ trace[t + 1][1] = site
Choice(t)       == trace[t + 1][2]

IndexOf(s, x)  == CHOOSE i \in DOMAIN s : s[i] = x
FieldOf(v, field) == IF field = 0 THEN v ELSE v.elements[field]

(* A leaf, or a check that yields an integer or panics.                    *)
Checked(site, env, t) ==
  IF ~ Known(site, t) THEN Stop("OutOfOrder", site, env, t)
  ELSE IF Choice(t) THEN Result("value", Integer(site), env, t + 1)
  ELSE Stop("Panicked", site, env, t + 1)

(* The recursion goes through one operator, which selects the rule.        *)
RECURSIVE Meaning(_, _, _, _)

Value(e, env, t)   == Meaning("expression", e, env, t)
Values(es, env, t) == Meaning("expressions", es, env, t)
Effects(statements, env, t, deferred) ==
  Meaning("statements", [rest |-> statements, deferred |-> deferred], env, t)
ForEach(s, elements, env, t) ==
  Meaning("for", [statement |-> s, elements |-> elements], env, t)
Repeat(s, left, env, t) ==
  Meaning("while", [statement |-> s, left |-> left], env, t)
FirstCase(cases, v, env, t) ==
  Meaning("cases", [cases |-> cases, value |-> v], env, t)

(* Operands from left to right.                                            *)
ExpressionsRule(es, env, t) ==
  IF es = <<>> THEN Result("value", <<>>, env, t)
  ELSE LET first == Value(Head(es), env, t)
           rest  == Values(Tail(es), first.env, first.t)
       IN IF first.signal # "value" THEN first
          ELSE IF rest.signal # "value" THEN rest
          ELSE [rest EXCEPT !.v = <<first.v>> \o @]

Returned(v, type, env, t) ==
  IF Coerced(v, type) = NoValue THEN Stop("CreatorRejected", "ReturnTypeMismatch", env, t)
  ELSE Result("value", Coerced(v, type), env, t)

(* A body run with its parameters bound.  env of the result is the final   *)
(* environment of the callee.                                              *)
BodyRule(f, env, t) ==
  LET r == Effects(f.body, env, t, <<>>)
  IN CASE r.signal = "normal" -> Returned(Unit, f.returns, r.env, r.t)
       [] r.signal = "return" -> Returned(r.v, f.returns, r.env, r.t)
       [] OTHER               -> r

Called(f, arguments, t) ==
  Meaning("body", f,
          [p \in ToSet(f.params) |-> LET i == IndexOf(f.params, p)
                                    IN Coerced(arguments[i], f.types[i])], t)

(* A call, after its callable and its arguments: values[from[p]] is bound  *)
(* to parameter p.  A mutable argument has the parameter's last value in   *)
(* the place it names.                                                     *)
FunctionRule(e, f, values, env, t) ==
  LET from == [p \in DOMAIN f.params |-> IF e.kind = "Call" THEN IndexOf(e.order, p) ELSE p]
      Written(last, p) ==
        LET place == e.arguments[from[p]]
            new   == last.inner[f.params[p]]
        IN IF from[p] \notin ToSet(e.mutable) THEN last
           ELSE [last EXCEPT !.outer[place.local] =
                   IF place.field = 0 THEN new
                   ELSE Struct([@.elements EXCEPT ![place.field] = new])]
      Back(c) ==
        [c EXCEPT !.env =
           IF c.signal # "value" THEN env
           ELSE FoldLeft(Written, [outer |-> env, inner |-> c.env],
                         [p \in DOMAIN f.params |-> p]).outer]
  IN Back(Called(f, [p \in DOMAIN f.params |-> values[1 + from[p]]], t))

ClosureRule(v, arguments, env, t) ==
  LET e     == v.expression
      inner == v.captured @@ [p \in ToSet(e.params) |-> arguments[IndexOf(e.params, p)]]
      b     == Value(e.body, inner, t)
  IN IF b.signal = "stop" THEN [b EXCEPT !.env = env]
     ELSE Returned(b.v, e.returns, env, b.t)

CallRule(e, values, env, t) ==
  LET callee == Head(values)
  IN IF callee.tag = "Closure" THEN ClosureRule(callee, Tail(values), env, t)
     ELSE FunctionRule(e, program[callee.name], values, env, t)

ExpressionRule(e, env, t) ==
  CASE e.kind = "Leaf" ->
         IF Known(e.site, t) THEN Result("value", LeafValue(e, Choice(t)), env, t + 1)
         ELSE Stop("OutOfOrder", e.site, env, t)
    [] e.kind = "Read" ->
         IF e.local \in DOMAIN env
         THEN Result("value", FieldOf(env[e.local], e.field), env, t)
         ELSE Stop("CreatorRejected", "MissingLocal", env, t)
    [] e.kind = "Function" -> Result("value", FunctionValue(e.function), env, t)
    [] e.kind = "Closure" -> Result("value", Closure(e, env), env, t)
    [] e.kind \in {"Array", "Variant", "Struct"} ->
         LET r == Values(e.arguments, env, t) IN
         IF r.signal # "value" THEN r
         ELSE [r EXCEPT !.v = CASE e.kind = "Array"   -> Array(r.v)
                                [] e.kind = "Variant" -> Variant(e.name, r.v[1])
                                [] e.kind = "Struct"  ->
                                     Struct([field \in DOMAIN r.v |->
                                               r.v[IndexOf(e.order, field)]])]
    [] e.kind = "ReadPlace" ->
         LET r == Value(e.index, env, t)
         IN IF r.signal # "value" THEN r
            ELSE IF ~ Known(e.site, r.t) THEN Stop("OutOfOrder", e.site, r.env, r.t)
            ELSE IF Choice(r.t) = 0 THEN Stop("Panicked", e.site, r.env, r.t + 1)
            ELSE Result("value", r.env[e.local].elements[Choice(r.t)], r.env, r.t + 1)
    [] e.kind \in {"Binary", "Negate"} ->
         LET r == Values(Operands(e), env, t) IN
         IF r.signal # "value" THEN r ELSE Checked(e.site, r.env, r.t)
    [] e.kind = "ShortCircuit" ->
         LET r == Value(e.left, env, t) IN
         IF r.signal # "value" \/ r.v.truth = (e.operator = "or") THEN r
         ELSE Value(e.right, r.env, r.t)
    [] e.kind = "Propagate" ->
         LET r == Value(e.value, env, t) IN
         IF r.signal # "value" THEN r
         ELSE IF r.v.tag = "Ok" THEN [r EXCEPT !.v = r.v.payload]
         ELSE [r EXCEPT !.signal = "return"]
    [] e.kind \in {"Call", "CallClosure"} ->
         LET r == Values(Operands(e), env, t) IN
         IF r.signal # "value" THEN r
         ELSE CallRule(e, IF e.kind = "Call" THEN <<FunctionValue(e.function)>> \o r.v
                          ELSE r.v, r.env, r.t)

(* The deferred expressions of a block, last registered first.  A panic    *)
(* among them is the outcome; nothing else replaces the result.            *)
Cleanup(deferred, r) ==
  LET Run_(acc, e) ==
        LET q == Value(e, acc.env, acc.t)
        IN IF acc.signal = "stop" THEN acc
           ELSE IF q.signal = "stop" THEN q
           ELSE [acc EXCEPT !.env = q.env, !.t = q.t]
  IN FoldLeft(Run_, r, Reverse(deferred))

Normal(r)  == IF r.signal = "value" THEN [r EXCEPT !.signal = "normal"] ELSE r
Unbound(r, locals) == [r EXCEPT !.env = Without(@, locals)]

(* A block that runs with bindings.                                        *)
Scoped(bindings, body, env, t) ==
  Unbound(Effects(body, bindings @@ env, t, <<>>), DOMAIN bindings)

ForRule(s, elements, env, t) ==
  IF elements = <<>> THEN Result("normal", Unit, env, t)
  ELSE LET r == Scoped(Bindings(Head(elements), s.pattern), s.body, env, t)
       IN CASE r.signal \in {"normal", "continue"} -> ForEach(s, Tail(elements), r.env, r.t)
            [] r.signal = "break"                  -> [r EXCEPT !.signal = "normal"]
            [] OTHER                               -> r

WhileRule(s, left, env, t) ==
  LET c == Value(s.condition, env, t)
      r == Effects(s.body, c.env, c.t, <<>>)
  IN IF c.signal # "value" THEN c
     ELSE IF ~ c.v.truth THEN Normal(c)
     ELSE IF left = 0
          THEN Stop("Defect", "while exceeded its compiler-derived bound", env, c.t)
     ELSE CASE r.signal \in {"normal", "continue"} -> Repeat(s, left - 1, r.env, r.t)
            [] r.signal = "break"                  -> [r EXCEPT !.signal = "normal"]
            [] OTHER                               -> r

CasesRule(cases, v, env, t) ==
  LET case == Head(cases)
      bindings == Bindings(v, case.pattern)
      guard == Value(case.guard[1], bindings @@ env, t)
  IN IF ~ Fits(v, case.pattern) THEN FirstCase(Tail(cases), v, env, t)
     ELSE IF case.guard = <<>> THEN Scoped(bindings, case.body, env, t)
     ELSE IF guard.signal # "value" THEN guard
     ELSE IF guard.v.truth
          THEN Scoped(bindings, case.body, Without(guard.env, DOMAIN bindings), guard.t)
     ELSE FirstCase(Tail(cases), v, Without(guard.env, DOMAIN bindings), guard.t)

(* The effect of a statement once its expression has the value r.v.        *)
EffectOf(s, r) ==
  CASE s.kind \in {"Initialize", "Assign"} -> [Normal(r) EXCEPT !.env = (s.local :> r.v) @@ @]
    [] s.kind = "AssignField" ->
         [Normal(r) EXCEPT !.env[s.local] = Struct([@.elements EXCEPT ![s.field] = r.v])]
    [] s.kind = "Evaluate"  -> Normal(r)
    [] s.kind = "Return"    -> [r EXCEPT !.signal = "return"]
    [] s.kind = "Panic"     -> Stop("Panicked", s.site, r.env, r.t)
    [] s.kind = "Assert"    -> IF r.v.truth THEN Normal(r)
                               ELSE Stop("Panicked", s.site, r.env, r.t)
    [] s.kind = "If"        -> Effects(IF r.v.truth THEN s.then ELSE s.else, r.env, r.t, <<>>)
    [] s.kind = "IfPattern" -> IF Fits(r.v, s.pattern)
                               THEN Scoped(Bindings(r.v, s.pattern), s.then, r.env, r.t)
                               ELSE Effects(s.else, r.env, r.t, <<>>)
    [] s.kind = "For"       -> ForEach(s, r.v.elements, r.env, r.t)
    [] s.kind = "Match"     -> FirstCase(s.cases, r.v, r.env, r.t)
    [] s.kind = "WithPool"  -> Scoped(s.local :> r.v, s.body, r.env, r.t)

Effect(s, env, t) ==
  CASE s.kind = "Pass"       -> Result("normal", Unit, env, t)
    [] s.kind = "Break"      -> Result("break", Unit, env, t)
    [] s.kind = "Continue"   -> Result("continue", Unit, env, t)
    [] s.kind = "ReturnUnit" -> Result("return", Unit, env, t)
    [] s.kind = "While"      -> Repeat(s, s.bound, env, t)
    [] s.kind = "AssignPlace" ->
         LET r == Values(<<s.index, s.value>>, env, t)
             i == Choice(r.t)
         IN IF r.signal # "value" THEN r
            ELSE IF ~ Known(s.site, r.t) THEN Stop("OutOfOrder", s.site, r.env, r.t)
            ELSE IF i = 0 THEN Stop("Panicked", s.site, r.env, r.t + 1)
            ELSE Result("normal", Unit,
                        [r.env EXCEPT ![s.local] = Array([@.elements EXCEPT ![i] = r.v[2]])],
                        r.t + 1)
    [] OTHER ->
         LET r == Value(IF s.kind = "WithPool" THEN s.scope ELSE s.value, env, t)
         IN IF r.signal # "value" THEN r ELSE EffectOf(s, r)

(* The statements of a block, with what it deferred so far.                *)
StatementsRule(statements, env, t, deferred) ==
  IF statements = <<>> THEN Cleanup(deferred, Result("normal", Unit, env, t))
  ELSE IF Head(statements).kind = "Defer"
       THEN Effects(Tail(statements), env, t, Append(deferred, Head(statements).expression))
  ELSE LET r == Effect(Head(statements), env, t)
       IN IF r.signal = "normal" THEN Effects(Tail(statements), r.env, r.t, deferred)
          ELSE Cleanup(deferred, r)

Meaning(rule, x, env, t) ==
  CASE rule = "expression"  -> ExpressionRule(x, env, t)
    [] rule = "expressions" -> ExpressionsRule(x, env, t)
    [] rule = "statements"  -> StatementsRule(x.rest, env, t, x.deferred)
    [] rule = "for"         -> ForRule(x.statement, x.elements, env, t)
    [] rule = "while"       -> WhileRule(x.statement, x.left, env, t)
    [] rule = "body"        -> BodyRule(x, env, t)
    [] rule = "cases"       -> CasesRule(x.cases, x.value, env, t)

(* The outcome the root has to have, and the leaves it has to evaluate.    *)
Expected ==
  LET r == Called(program["main"], <<>>, 0)
  IN [outcome |-> IF r.signal = "value" THEN [kind |-> "Completed", of |-> r.v] ELSE r.v,
      leaves  |-> r.t]

(* The machine agrees with the big-step semantics.  Left-to-right and      *)
(* exactly-once evaluation, deferred expressions in reverse order on every *)
(* recoverable exit and on none after a panic, early return by `?`, loop   *)
(* exits, scopes of bindings and write-backs are all consequences.         *)
AgreesWithReference ==
  machine.outcome.kind \in {"Completed", "CreatorRejected", "Panicked", "Defect"} =>
    /\ Expected.leaves = Len(trace)
    /\ Expected.outcome.kind = machine.outcome.kind
    /\ Expected.outcome.of = machine.outcome.of
=============================================================================
