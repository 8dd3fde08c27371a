-------------------------- MODULE EvaluatorMachine --------------------------
(***************************************************************************)
(* Values, controls and the primitives of the evaluator's machine          *)
(* (evaluator.rs), without the handlers, which are in module Evaluator.    *)
(*                                                                         *)
(* A machine is a record: the stack of frames, the call stack, the memory  *)
(* the tariff counts as retained, its peak, the compilation fuel used by   *)
(* earlier roots and the ceilings (which do not change), and the outcome.  *)
(* A frame has                                                             *)
(* a stack of controls (what is left to do), a stack of operand values and *)
(* its locals, a function whose domain is the initialized ones.            *)
(***************************************************************************)
EXTENDS Naturals, SequencesExt, TLC

-----------------------------------------------------------------------------
(***************************************************************************)
(* Values: value_size, coerce, pattern_bindings.                           *)
(***************************************************************************)

Sizes(values) == FoldLeft(LAMBDA total, v : total + v.size, 0, values)

Unit             == [tag |-> "Unit", size |-> 0]
Bool(b)          == [tag |-> "Bool", size |-> 1, truth |-> b]
Integer(site)    == [tag |-> "Int", size |-> 16, site |-> site]
Array(values)    == [tag |-> "Array", size |-> 16 + Sizes(values), elements |-> values]
Variant(name, v) == [tag |-> name, size |-> 16 + v.size, payload |-> v]
CapturedSizes(captured, s) == FoldLeft(LAMBDA total, l : total + captured[l].size, 0, s)
Closure(e, captured) ==
  [tag |-> "Closure", expression |-> e, captured |-> captured,
   size |-> 16 + CapturedSizes(captured, e.captures)]
FunctionValue(name) == [tag |-> "Function", size |-> 16, name |-> name]

(* A struct charges the lengths of its fields' names, here one each.       *)
Struct(fields) == [tag |-> "Struct", size |-> 16 + Len(fields) + Sizes(fields),
                   elements |-> fields]

IsResult(v)   == v.tag \in {"Ok", "Err"}
IsCallable(v) == v.tag \in {"Function", "Closure"}

Matches(v, type) == \/ v.tag = type
                    \/ IsResult(v) /\ type = "Result"
                    \/ IsCallable(v) /\ type = "Callable"

(* The field of a place; field 0 is the place without a projection.        *)
Projects(v, field) == field = 0 \/ (v.tag = "Struct" /\ field \in DOMAIN v.elements)
Projected(v, field) == IF field = 0 THEN v ELSE v.elements[field]
Stored(v, field, new) == IF field = 0 THEN new ELSE Struct([v.elements EXCEPT ![field] = new])

(* A plain value returned where a Result is expected is wrapped in Ok.     *)
NoValue == [tag |-> "None"]
Coerced(v, type) == IF Matches(v, type) THEN v
                    ELSE IF type = "Result" /\ v.tag = "Int" THEN Variant("Ok", v)
                    ELSE NoValue

(* A pattern names a variant ("any" matches all) and the local it binds.   *)
Fits(v, pattern) == pattern.variant \in {"any", v.tag}
Bindings(v, pattern) ==
  IF pattern.local = "" THEN <<>>
  ELSE [l \in {pattern.local} |-> IF pattern.variant = "any" THEN v ELSE v.payload]

-----------------------------------------------------------------------------
(***************************************************************************)
(* Controls.                                                               *)
(***************************************************************************)

Expr(e)                 == [op |-> "Expression", expression |-> e]
Discard                 == [op |-> "Discard"]
Block(statements)       == [op |-> "Block", statements |-> statements, index |-> 1]
EndScope(deferred)      == [op |-> "EndScope", deferred |-> deferred]
Store(local, init)      == [op |-> "Store", local |-> local, initialize |-> init]
ClearLocals(locals)     == [op |-> "ClearLocals", locals |-> locals]
FinishReturn(type)      == [op |-> "FinishReturn", returns |-> type]

IsLoopMarker(control) == control.op \in {"ForNext", "WhileNext"}

Deferred(control) == IF control.op = "EndScope" THEN control.deferred ELSE <<>>
Cleared(control)  == IF control.op = "ClearLocals" THEN control.locals ELSE {}

(* Mutants: first registered first; the bindings of the scopes that are    *)
(* left stay.                                                              *)
DeferredInOrder(controls) == FlattenSeq([i \in DOMAIN controls |-> Deferred(controls[i])])
ExitedNone(controls)      == {}

(* The deferred expressions of the scopes in controls, innermost and last  *)
(* registered first.                                                       *)
DeferredExpressions(controls) ==
  Reverse(FlattenSeq([i \in DOMAIN controls |-> Deferred(controls[i])]))

ExitedLocals(controls) == UNION {Cleared(controls[i]) : i \in DOMAIN controls}

(* What has to be pushed so that the first expression runs first.          *)
Scheduled(expressions) ==
  FlattenSeq([i \in DOMAIN expressions |->
                <<Discard, Expr(Reverse(expressions)[i])>>])

-----------------------------------------------------------------------------
(***************************************************************************)
(* The machine's primitives.  Each returns the next machine; once one has  *)
(* failed, the rest of the handler is not executed (the `?` of the source).*)
(***************************************************************************)

Running(m)        == m.outcome.kind = "Running"
Fail(m, kind, of) == IF Running(m) THEN [m EXCEPT !.outcome = [kind |-> kind, of |-> of]]
                     ELSE m

Retain(m, amount) ==
  LET now  == m.memory + amount
      peak == IF now > m.peak THEN now ELSE m.peak
      kept == [m EXCEPT !.memory = now, !.peak = peak]
  IN IF ~ Running(m) THEN m
     ELSE IF peak > m.limits.memory THEN Fail(kept, "LimitExceeded", "RootMemory")
     ELSE kept

Release(m, amount) ==
  IF ~ Running(m) THEN m
  ELSE IF amount > m.memory THEN Fail(m, "Defect", "memory accounting underflow")
  ELSE [m EXCEPT !.memory = @ - amount]

Depth(m) == Len(m.frames)
Top(m)   == m.frames[Depth(m)]

WithTop(m, frame) == [m EXCEPT !.frames[Depth(m)] = frame]
WithControls(m, controls) == WithTop(m, [Top(m) EXCEPT !.controls = controls])
Push(m, controls) == WithControls(m, Top(m).controls \o controls)

PushValue(m, v) ==
  LET r == Retain(m, v.size)
  IN IF Running(r) THEN WithTop(r, [Top(r) EXCEPT !.values = Append(@, v)]) ELSE r

TopValue(m) == Last(Top(m).values)
TopValues(m, n) == SubSeq(Top(m).values, Len(Top(m).values) - n + 1, Len(Top(m).values))
PopValue(m) ==
  LET r == Release(m, TopValue(m).size)
  IN IF ~ Running(m) THEN m
     ELSE IF Top(m).values = <<>> THEN Fail(m, "Defect", "evaluator value stack underflow")
     ELSE IF Running(r) THEN WithTop(r, [Top(r) EXCEPT !.values = Front(@)]) ELSE r
PopValues(m, n) == FoldLeft(LAMBDA acc, i : PopValue(acc), m, [i \in 1..n |-> i])

Locals(m)         == Top(m).locals
IsLive(m, local)  == local \in DOMAIN Locals(m)
Without(f, S)     == [x \in DOMAIN f \ S |-> f[x]]
With(f, l, v)     == [x \in DOMAIN f \cup {l} |-> IF x = l THEN v ELSE f[x]]
SetLocal(m, l, v) == WithTop(m, [Top(m) EXCEPT !.locals = With(@, l, v)])

(* A local gets another value: the old one is released, the new retained.  *)
ReplaceLocal(m, l, v) ==
  LET r == Retain(Release(m, Locals(m)[l].size), v.size)
  IN IF Running(r) THEN SetLocal(r, l, v) ELSE r

(* store_projected_value and its callers, for a place without an index.    *)
StoreProjected(m, l, field, v) ==
  IF ~ IsLive(m, l) THEN Fail(m, "CreatorRejected", "MissingLocal")
  ELSE IF ~ Projects(Locals(m)[l], field)
  THEN Fail(m, "Defect", "place field stores through a non-struct value")
  ELSE ReplaceLocal(m, l, Stored(Locals(m)[l], field, v))

(* Mutant: the locals go, their memory stays charged.                      *)
ClearUnreleased(m, locals) == WithTop(m, [Top(m) EXCEPT !.locals = Without(@, locals)])

(* clear_locals: a local that is not initialized is skipped.               *)
Released(m, gone) == FoldLeft(LAMBDA acc, l : Release(acc, Locals(m)[l].size), m, gone)
Clear(m, locals) ==
  LET r == Released(m, SetToSeq(locals \cap DOMAIN Locals(m)))
  IN IF ~ Running(m) THEN m
     ELSE IF Running(r) THEN WithTop(r, [Top(r) EXCEPT !.locals = Without(@, locals)])
     ELSE r

(* The bindings of a matched pattern become locals, which must be free.    *)
Bind(m, bindings) ==
  LET BindOne(acc, l) ==
        LET r == Retain(acc, bindings[l].size)
        IN IF ~ Running(r) THEN r
           ELSE IF IsLive(r, l) THEN Fail(r, "Defect", "pattern reused a live LocalId")
           ELSE SetLocal(r, l, bindings[l])
  IN IF Running(m) THEN FoldLeft(BindOne, m, SetToSeq(DOMAIN bindings)) ELSE m
=============================================================================
