------------------------------ MODULE Evaluator ------------------------------
(***************************************************************************)
(* The compile-time evaluator: run_machine of evaluator.rs, one action per *)
(* control.  One root function is evaluated (RootWork::Function); the      *)
(* constant cache that links several roots is module EvaluationEngine.     *)
(*                                                                         *)
(* Programs are trees of records, as typed HIR is.  Data is abstract: a    *)
(* value has a tag, the source site that made it and the logical size the  *)
(* tariff gives it.  Every outcome that depends on data the model leaves   *)
(* out (the Boolean a condition yields, whether arithmetic overflows,      *)
(* whether a call fails) is a choice, and `trace` records each one in the  *)
(* order the machine evaluated them.  Option is Result with other names.   *)
(***************************************************************************)
EXTENDS EvaluatorMachine

CONSTANTS
  Workloads,     \* what may be run, each a record of
                 \*   program: the verified program, [name -> HirFunction]
                 \*   prior: what earlier roots used of the compilation's fuel
                 \*   limits: the ceilings, constants of the source
  Code,          \* every expression and statement of the programs
  Identities     \* the named constants that they may read

Ceilings == [fuel : Nat, compilationFuel : Nat, memory : Nat, depth : Nat,
             compilationMemory : Nat]

ASSUME WorkloadAssumption ==
  \A w \in Workloads : w.prior \in Nat /\ w.limits \in Ceilings

(* What the Rust types of the HIR say of it, and that every parameter has  *)
(* a LocalId of its own (bind_local); nothing about the types of the       *)
(* program itself.                                                         *)
IsSequence(s) == s \in Seq(ToSet(s))
IsPattern(p)  == p.variant \in {"any", "Ok", "Err"}
IsCase(c)     == IsPattern(c.pattern) /\ c.guard \in Seq(Code) /\ c.body \in Seq(Code)

IsHirExpression(e) ==
  /\ e.kind = "Leaf" => /\ e.type \in {"Unit", "Bool", "Int", "Array", "Result"}
                        /\ e.type = "Array" => e.length \in Nat
  /\ e.kind = "Closure" => /\ IsSequence(e.captures) /\ IsSequence(e.params) /\ e.body \in Code
                           /\ IsInjective(e.captures \o e.params)
  /\ e.kind \in {"Array", "Call", "CallClosure", "Variant", "Struct"} => e.arguments \in Seq(Code)
  /\ e.kind \in {"Call", "CallClosure"} => e.mutable \in Seq(DOMAIN e.arguments)
  /\ e.kind \in {"Call", "Struct"} => e.order \in Seq(Nat)
  /\ e.kind = "CallClosure"  => e.callable \in Code
  /\ e.kind = "Read"         => e.field \in Nat
  /\ e.kind = "Variant"      => e.name \in {"Ok", "Err"} /\ e.arguments # <<>>
  /\ e.kind \in {"Binary", "ShortCircuit"} => {e.left, e.right} \subseteq Code
  /\ e.kind = "ReadPlace"    => e.index \in Code
  /\ e.kind = "Constant"     => e.id \in Identities
  /\ e.kind \in {"Negate", "Propagate"} => e.value \in Code

IsHirStatement(s) ==
  /\ s.kind \in {"Return", "Panic", "Assert", "Evaluate", "Initialize", "Assign", "If",
                  "IfPattern", "For", "Match", "AssignPlace", "AssignField"} => s.value \in Code
  /\ s.kind \in {"If", "IfPattern"} => {s.then, s.else} \subseteq Seq(Code)
  /\ s.kind \in {"IfPattern", "For"} => IsPattern(s.pattern)
  /\ s.kind \in {"For", "While", "WithPool"} => s.body \in Seq(Code)
  /\ s.kind = "While"        => s.condition \in Code /\ s.bound \in Nat
  /\ s.kind = "Match"        => IsSequence(s.cases) /\ \A c \in ToSet(s.cases) : IsCase(c)
  /\ s.kind = "AssignPlace"  => s.index \in Code
  /\ s.kind = "AssignField"  => s.field \in Nat
  /\ s.kind = "Defer"        => s.expression \in Code
  /\ s.kind = "WithPool"     => s.scope \in Code

IsHirFunction(f) == /\ f.kind = "function"
                    /\ IsSequence(f.params) /\ f.body \in Seq(Code)
                    /\ IsInjective(f.params)

ASSUME CodeAssumption ==
  /\ \A n \in Code : IsHirExpression(n) /\ IsHirStatement(n)
  /\ \A w \in Workloads : /\ "main" \in DOMAIN w.program
                          /\ \A f \in DOMAIN w.program : IsHirFunction(w.program[f])

VARIABLES
  program,       \* VerifiedProgram
  machine,       \* the machine, see EvaluatorMachine
  fuel,          \* logical fuel charged to this root
  cancelled,     \* the request's Cancellation flag
  trace          \* history: the site and choice of every leaf evaluated so far

vars == <<program, machine, fuel, cancelled, trace>>

-----------------------------------------------------------------------------
(***************************************************************************)
(* The current control.                                                    *)
(***************************************************************************)

Control == Last(Top(machine).controls)

(* The machine with the current control taken off its frame.               *)
Popped == WithControls(machine, Front(Top(machine).controls))

(* (A frame whose controls run out is a defect of the source, and stuck.)  *)
At(op)     == /\ Running(machine) /\ Depth(machine) > 0 /\ Top(machine).controls # <<>>
              /\ Control.op = op
AtExpr(k)  == At("Expression") /\ Control.expression.kind = k
AtStmt(k)  == At("Statement") /\ Control.statement.kind = k

-----------------------------------------------------------------------------
(***************************************************************************)
(* What a call calls, and how its arguments are bound.                     *)
(***************************************************************************)

(* The callable of a call whose arguments have been evaluated: a function  *)
(* it names, or the value below the arguments.                             *)
CalleeOf(e) ==
  LET values == Top(machine).values
  IN IF e.kind = "Call" THEN FunctionValue(e.function)
     ELSE values[Len(values) - Len(e.arguments)]

IsResolved(callee) == callee.tag = "Function" => callee.name \in DOMAIN program

(* reorder_values: order[i] is the parameter (or field) of argument i.     *)
IsBinding(order, arguments) == /\ Len(order) = Len(arguments)
                               /\ ToSet(order) = DOMAIN arguments

InOrder(arguments, order) ==
  [p \in DOMAIN arguments |-> arguments[CHOOSE i \in DOMAIN order : order[i] = p]]

(* A function value is called by position.                                 *)
OrderOf(e, f) == IF e.kind = "Call" THEN e.order ELSE [i \in DOMAIN f.params |-> i]

(* function_writebacks: the mutable arguments are places of the caller.    *)
IsWritable(e, f) ==
  \A i \in ToSet(e.mutable) : /\ i \in DOMAIN OrderOf(e, f)
                              /\ OrderOf(e, f)[i] \in DOMAIN f.params
                              /\ e.arguments[i].kind = "Read"

WriteBacks(e, f) ==
  [i \in DOMAIN e.mutable |->
     LET argument == e.arguments[e.mutable[i]]
     IN [local |-> f.params[OrderOf(e, f)[e.mutable[i]]],
         place |-> argument.local, field |-> argument.field]]

Binds(e, f) == /\ e.kind = "Call" => IsBinding(e.order, e.arguments)
               /\ IsWritable(e, f)

OpensFrame(c) ==
  /\ c.op = "FinishCall" /\ c.expression.kind \in {"Call", "CallClosure"}
  /\ LET callee == CalleeOf(c.expression)
     IN /\ IsCallable(callee) /\ IsResolved(callee)
        /\ callee.tag = "Function" => Binds(c.expression, program[callee.name])

-----------------------------------------------------------------------------
(***************************************************************************)
(* Fuel.                                                                   *)
(***************************************************************************)

(* What the handler of the current control charges; 5 opens a frame.       *)
Tariff == IF Depth(machine) = 0 THEN 5
          ELSE CASE Control.op \in {"Expression", "Statement"} -> 1
                 [] OpensFrame(Control)                       -> 5
                 [] OTHER                                     -> 0

Limits == machine.limits

(* Mutant: the compilation's fuel is not compared.                         *)
AffordableRoot(amount) == fuel + amount <= Limits.fuel

Affordable(amount) == /\ machine.prior + fuel + amount <= Limits.compilationFuel
                      /\ fuel + amount <= Limits.fuel

(* charge: the flag is polled first and the compilation ceiling is         *)
(* compared before the ceiling of the root.                                *)
Payable == Tariff > 0 => ~ cancelled /\ Affordable(Tariff)

Charged == Payable /\ fuel' = fuel + Tariff

(* Mutant: a cancelled root is not given up.                               *)
RefusableLimit == ~ Affordable(Tariff)

Refusable == cancelled \/ ~ Affordable(Tariff)

Refused ==
  /\ Running(machine)
  /\ Tariff > 0 /\ Refusable
  /\ IF cancelled
     THEN machine' = Fail(machine, "Cancelled", "") /\ UNCHANGED fuel
     ELSE /\ machine' = Fail(machine, "LimitExceeded",
                             IF machine.prior + fuel + Tariff > Limits.compilationFuel
                             THEN "CompilationFuel" ELSE "RootFuel")
          /\ fuel' = fuel + Tariff
  /\ UNCHANGED <<program, cancelled, trace>>

(* A handler without a choice of its own.                                  *)
Becomes(m) == Charged /\ machine' = m /\ UNCHANGED <<program, cancelled, trace>>

(* A handler whose result the model leaves open.                           *)
Chooses(site, choice, m) == /\ Charged
                            /\ machine' = m
                            /\ trace' = Append(trace, <<site, choice>>)
                            /\ UNCHANGED <<program, cancelled>>

-----------------------------------------------------------------------------
(***************************************************************************)
(* Frames.                                                                 *)
(***************************************************************************)

(* Parameters (and captures) are coerced and retained one by one.          *)
Bound(m, params, arguments, types) ==
  LET BindParameter(acc, i) ==
        LET v == Coerced(arguments[i], types[i])
        IN IF ~ Running(acc) THEN acc
           ELSE IF v = NoValue THEN Fail(acc, "CreatorRejected", "ArgumentTypeMismatch")
           ELSE LET r == Retain(acc, v.size) IN
                IF Running(r) THEN SetLocal(r, params[i], v) ELSE r
  IN FoldLeft(BindParameter, m, [i \in 1..Len(params) |-> i])

(* push_function_frame and push_closure_frame.  The arguments were already *)
(* popped from the caller.  The frame is there once all are bound.         *)
PushFrame(m, callable, params, arguments, types, controls, writebacks) ==
  LET retained == Retain(m, 64)
      opened   == [retained EXCEPT
                    !.frames = Append(@, [returns |-> callable.returns,
                                          callable |-> callable.kind,
                                          controls |-> controls, values |-> <<>>,
                                          locals |-> <<>>, writebacks |-> writebacks]),
                    !.calls = Append(@, callable.name)]
      bound    == Bound(opened, params, arguments, types)
  IN IF ~ Running(m) THEN m
     ELSE IF Len(m.calls) = m.limits.depth THEN Fail(m, "LimitExceeded", "CallDepth")
     ELSE IF Len(params) # Len(arguments) THEN Fail(m, "CreatorRejected", "ArgumentCount")
     ELSE IF ~ Running(retained) THEN retained
     ELSE IF ~ Running(bound)
     THEN [bound EXCEPT !.frames = m.frames, !.calls = m.calls]
     ELSE bound

PushFunction(m, f, arguments, writebacks) ==
  PushFrame(m, f, f.params, arguments, f.types,
            <<[op |-> "FunctionFallthrough"], Block(f.body)>>, writebacks)

PushClosure(m, closure, arguments) ==
  LET e        == closure.expression
      captures == e.captures
  IN PushFrame(m, e, captures \o e.params,
               [i \in DOMAIN captures |-> closure.captured[captures[i]]] \o arguments,
               [i \in DOMAIN captures |-> closure.captured[captures[i]].tag] \o e.types,
               <<[op |-> "FinishClosure", returns |-> e.returns], Expr(e.body)>>, <<>>)

(* Every mutable parameter is copied back into the caller's place.         *)
WriteBack(m, frame) ==
  LET WriteOne(acc, w) ==
        IF ~ Running(acc) THEN acc
        ELSE StoreProjected(acc, w.place, w.field, frame.locals[w.local])
  IN FoldLeft(WriteOne, m, frame.writebacks)

(* Mutant: the call stack keeps its entry.                                 *)
PoppedFrameOnly(m) == [m EXCEPT !.frames = Front(@)]

PoppedFrame(m) == [m EXCEPT !.frames = Front(@), !.calls = Front(@)]

(* complete_frame: everything the frame retained is released, mutable      *)
(* parameters are written back, and the value goes to the caller.          *)
CompleteFrame(m, v) ==
  LET frame    == Top(m)
      missing  == \E i \in DOMAIN frame.writebacks :
                    frame.writebacks[i].local \notin DOMAIN frame.locals
      live     == SetToSeq(DOMAIN frame.locals)
      retained == 64 + Sizes(frame.values) + Sizes([i \in DOMAIN live |-> frame.locals[live[i]]])
      released == Release(m, retained)
      popped   == PoppedFrame(released)
      written  == WriteBack(popped, frame)
  IN IF ~ Running(m) THEN m
     ELSE IF missing THEN Fail(m, "Defect", "writeback references a missing local")
     ELSE IF ~ Running(released) THEN released
     ELSE IF Depth(m) = 1 THEN Fail(popped, "Completed", v)
     ELSE IF Running(written) THEN PushValue(written, v) ELSE written

CompleteCoerced(m, v, type) ==
  IF Coerced(v, type) = NoValue THEN Fail(m, "CreatorRejected", "ReturnTypeMismatch")
  ELSE CompleteFrame(m, Coerced(v, type))

(* return and `?`: every control of the frame is dropped, the deferred     *)
(* expressions of all its scopes are run, then the frame finishes.         *)
Unwound(m, finish) ==
  WithControls(m, <<finish>> \o Scheduled(DeferredExpressions(Top(m).controls)))

-----------------------------------------------------------------------------
(***************************************************************************)
(* Expressions.                                                            *)
(***************************************************************************)

(* A leaf: a literal, or any expression over data the model leaves out.    *)
LeafValue(e, choice) ==
  CASE e.type = "Unit"   -> Unit
    [] e.type = "Bool"   -> Bool(choice)
    [] e.type = "Int"    -> Integer(e.site)
    [] e.type = "Array"  -> Array([i \in 1..e.length |-> Integer(e.site)])
    [] e.type = "Result" -> Variant(IF choice THEN "Ok" ELSE "Err", Integer(e.site))

LeafChoices(e) == IF e.type \in {"Bool", "Result"} THEN BOOLEAN ELSE {TRUE}

Leaf == /\ AtExpr("Leaf")
        /\ LET e == Control.expression IN
             \E choice \in LeafChoices(e) :
               Chooses(e.site, choice, PushValue(Popped, LeafValue(e, choice)))

(* A field is read by a control of its own, which comes right after.       *)
Read == /\ AtExpr("Read")
        /\ LET e == Control.expression
               v == Locals(Popped)[e.local]
           IN Becomes(
                IF ~ IsLive(Popped, e.local)
                THEN Fail(Popped, "CreatorRejected", "MissingLocal")
                ELSE IF ~ Projects(v, e.field)
                THEN Fail(Popped, "Defect", "place field projects a non-struct value")
                ELSE PushValue(Popped, Projected(v, e.field)))

MakeFunction ==
  /\ AtExpr("Function")
  /\ Becomes(PushValue(Popped, FunctionValue(Control.expression.function)))

(* A closure copies the locals it captures.                                *)
MakeClosure ==
  /\ AtExpr("Closure")
  /\ LET e == Control.expression IN
       Becomes(IF \A i \in DOMAIN e.captures : IsLive(Popped, e.captures[i])
               THEN PushValue(Popped, Closure(e, Locals(Popped)))
               ELSE Fail(Popped, "CreatorRejected", "MissingLocal"))

(* Operands are pushed last to first, so that they run first to last.      *)
Operands(e) ==
  CASE e.kind \in {"Array", "Call", "Variant", "Struct"} -> e.arguments
    [] e.kind = "CallClosure"       -> <<e.callable>> \o e.arguments
    [] e.kind = "Binary"            -> <<e.left, e.right>>
    [] e.kind = "ShortCircuit"      -> <<e.left>>
    [] e.kind = "ReadPlace"         -> <<e.index>>
    [] e.kind \in {"Negate", "Propagate"} -> <<e.value>>

FinishOp == [Array        |-> "FinishArray",     Call      |-> "FinishCall",
             CallClosure  |-> "FinishCall",      Variant   |-> "FinishCall",
             Struct       |-> "FinishCall",
             Binary       |-> "FinishBinary",    Negate    |-> "FinishNegate",
             ShortCircuit |-> "FinishShortCircuit",
             ReadPlace    |-> "FinishReadPlace", Propagate |-> "FinishPropagate"]

Compound ==
  /\ At("Expression")
  /\ LET e == Control.expression IN
       /\ e.kind \in DOMAIN FinishOp
       /\ Becomes(Push(Popped,
                       <<[op |-> FinishOp[e.kind], expression |-> e]>>
                       \o [i \in DOMAIN Operands(e) |-> Expr(Reverse(Operands(e))[i])]))

FinishArray ==
  /\ At("FinishArray")
  /\ LET n == Len(Control.expression.arguments) IN
       Becomes(PushValue(PopValues(Popped, n), Array(TopValues(Popped, n))))

(* Which element an index names is left open; 0 is none of them.           *)
FinishReadPlace ==
  /\ At("FinishReadPlace")
  /\ LET e     == Control.expression
         index == TopValue(Popped)
         m     == PopValue(Popped)
         root  == Locals(Popped)[e.local]
     IN IF ~ IsLive(Popped, e.local)
        THEN Becomes(Fail(m, "CreatorRejected", "MissingLocal"))
        ELSE IF index.tag # "Int" \/ root.tag # "Array"
        THEN Becomes(Fail(m, "Defect", "place index projects a non-array value"))
        ELSE \E i \in 0..Len(root.elements) :
               Chooses(e.site, i, IF i = 0 THEN Fail(m, "Panicked", e.site)
                                  ELSE PushValue(m, root.elements[i]))

FinishNegate ==
  /\ At("FinishNegate")
  /\ LET e == Control.expression IN
       \E fits \in BOOLEAN :
         Chooses(e.site, fits,
                 IF fits THEN PushValue(PopValue(Popped), Integer(e.site))
                 ELSE Fail(PopValue(Popped), "Panicked", e.site))

FinishBinary ==
  /\ At("FinishBinary")
  /\ LET e        == Control.expression
         operands == TopValues(Popped, 2)
         m        == PopValues(Popped, 2)
     IN IF \E i \in 1..2 : operands[i].tag # "Int"
        THEN Becomes(Fail(m, "CreatorRejected", "BinaryTypeMismatch"))
        ELSE \E fits \in BOOLEAN :
               Chooses(e.site, fits, IF fits THEN PushValue(m, Integer(e.site))
                                     ELSE Fail(m, "Panicked", e.site))

FinishShortCircuit ==
  /\ At("FinishShortCircuit")
  /\ LET e    == Control.expression
         left == TopValue(Popped)
         m    == PopValue(Popped)
     IN Becomes(CASE left.tag # "Bool" -> Fail(m, "Defect", "operand is not Bool")
                  [] left.tag = "Bool" /\ left.truth = (e.operator = "or")
                       -> PushValue(m, left)
                  [] OTHER -> Push(m, <<Expr(e.right)>>))

(* `?`: a success is unwrapped.  An alternative unwinds the frame, unless  *)
(* a return of this frame is already scheduled below.                      *)
FinishPropagate ==
  /\ At("FinishPropagate")
  /\ LET v         == TopValue(Popped)
         m         == PopValue(Popped)
         frame     == Top(m)
         scheduled == \E i \in DOMAIN frame.controls :
                        frame.controls[i].op = "FinishReturn"
     IN Becomes(
          CASE v.tag = "Ok" -> PushValue(m, v.payload)
            [] v.tag = "Err" /\ frame.returns # "Result"
                 -> Fail(m, "Defect", "alternative does not match callable return")
            [] v.tag = "Err" /\ frame.returns = "Result" /\ scheduled
                 -> PushValue(m, v)
            [] v.tag = "Err" /\ frame.returns = "Result" /\ ~ scheduled
                 -> PushValue(Unwound(m, FinishReturn(frame.returns)), v)
            [] OTHER -> Fail(m, "CreatorRejected", "PropagationRequiresResult"))

(* The machine m has neither the arguments nor the callable any more.      *)
Call(m, e, callee, arguments) ==
  LET f       == program[callee.name]
      ordered == IF e.kind = "Call" THEN InOrder(arguments, e.order) ELSE arguments
  IN CASE ~ IsCallable(callee)
            -> Fail(m, "Defect", "callable target is not a function value")
       [] IsCallable(callee) /\ ~ IsResolved(callee)
            -> Fail(m, "CreatorRejected", "UnresolvedCall")
       [] callee.tag = "Function" /\ IsResolved(callee) /\ ~ Binds(e, f)
            -> Fail(m, "Defect", "call argument binding")
       [] callee.tag = "Function" /\ IsResolved(callee) /\ Binds(e, f)
            -> PushFunction(m, f, ordered, WriteBacks(e, f))
       [] callee.tag = "Closure" -> PushClosure(m, callee, arguments)

FinishCall ==
  /\ At("FinishCall")
  /\ LET e         == Control.expression
         n         == Len(e.arguments)
         arguments == TopValues(Popped, n)
         m         == PopValues(Popped, n)
     IN Becomes(
          CASE e.kind = "Variant" -> PushValue(m, Variant(e.name, arguments[1]))
            [] e.kind = "Struct" /\ IsBinding(e.order, e.arguments)
                 -> PushValue(m, Struct(InOrder(arguments, e.order)))
            [] e.kind = "Struct" /\ ~ IsBinding(e.order, e.arguments)
                 -> Fail(m, "Defect", "struct construction omitted a field")
            [] e.kind = "Call"        -> Call(m, e, CalleeOf(e), arguments)
            [] e.kind = "CallClosure" -> Call(PopValue(m), e, CalleeOf(e), arguments))

-----------------------------------------------------------------------------
(***************************************************************************)
(* Statements.  Every one of them charges 1 before it does anything.       *)
(***************************************************************************)

Statement == Control.statement

ReturnValue == /\ AtStmt("Return")
               /\ Becomes(Push(Unwound(Popped, FinishReturn(Top(machine).returns)),
                               <<Expr(Statement.value)>>))

ReturnUnit == /\ AtStmt("ReturnUnit")
              /\ Becomes(Unwound(Popped, [op |-> "FinishUnitReturn"]))

(* Statements that evaluate an expression and then finish with its value.  *)
FinishOfStatement(s) ==
  CASE s.kind = "Panic"      -> [op |-> "FinishPanic", site |-> s.site]
    [] s.kind = "Assert"     -> [op |-> "FinishAssert", site |-> s.site]
    [] s.kind = "Evaluate"   -> Discard
    [] s.kind = "Initialize" -> Store(s.local, TRUE)
    [] s.kind = "Assign"     -> Store(s.local, FALSE)
    [] s.kind = "AssignField" -> [op |-> "StoreField", statement |-> s]
    [] s.kind = "If"         -> [op |-> "SelectBranch", statement |-> s]
    [] s.kind = "IfPattern"  -> [op |-> "SelectPatternBranch", statement |-> s]
    [] s.kind = "For"        -> [op |-> "FinishFor", statement |-> s]
    [] s.kind = "Match"      -> [op |-> "FinishMatch", cases |-> s.cases]

EvaluateThenFinish ==
  /\ At("Statement")
  /\ Statement.kind \in {"Panic", "Assert", "Evaluate", "Initialize", "Assign",
                         "AssignField", "If", "IfPattern", "For", "Match"}
  /\ Becomes(Push(Popped, <<FinishOfStatement(Statement), Expr(Statement.value)>>))

(* An indexed place: the index runs first, then the value.                 *)
AssignPlace ==
  /\ AtStmt("AssignPlace")
  /\ Becomes(Push(Popped, <<[op |-> "StorePlace", statement |-> Statement],
                            Expr(Statement.value), Expr(Statement.index)>>))

While == /\ AtStmt("While")
         /\ Becomes(Push(Popped, <<[op |-> "WhileNext", statement |-> Statement,
                                    remaining |-> Statement.bound]>>))

InnermostLoop(m) == SelectLastInSeq(Top(m).controls, IsLoopMarker)

(* The controls above the first `keep` are dropped: what their scopes      *)
(* deferred runs, then the locals they would have cleared are cleared.     *)
LeaveLoop(m, keep) ==
  LET controls == Top(m).controls
      exited   == SubSeq(controls, InnermostLoop(m) + 1, Len(controls))
  IN IF InnermostLoop(m) = 0 THEN Fail(m, "Defect", "break or continue outside a loop")
     ELSE WithControls(m, SubSeq(controls, 1, keep)
                          \o <<ClearLocals(ExitedLocals(exited))>>
                          \o Scheduled(DeferredExpressions(exited)))

(* break drops the loop marker as well, continue keeps it.                 *)
Break    == AtStmt("Break") /\ Becomes(LeaveLoop(Popped, InnermostLoop(Popped) - 1))
Continue == AtStmt("Continue") /\ Becomes(LeaveLoop(Popped, InnermostLoop(Popped)))

(* defer registers with the innermost open scope.                          *)
Defer ==
  /\ AtStmt("Defer")
  /\ LET controls == Top(Popped).controls
         scope    == SelectLastInSeq(controls, LAMBDA c : c.op = "EndScope")
     IN Becomes(
          IF scope = 0 THEN Fail(Popped, "Defect", "defer outside a lexical scope")
          ELSE WithControls(Popped, [controls EXCEPT
                 ![scope].deferred = Append(@, Statement.expression)]))

WithPool ==
  /\ AtStmt("WithPool")
  /\ Becomes(Push(Popped, <<ClearLocals({Statement.local}), Block(Statement.body),
                            Store(Statement.local, TRUE), Expr(Statement.scope)>>))

Pass == AtStmt("Pass") /\ Becomes(Popped)

-----------------------------------------------------------------------------
(***************************************************************************)
(* Blocks, scopes and the ends of frames.                                  *)
(***************************************************************************)

(* Entering a block opens its scope, below the statements.                 *)
RunBlock ==
  /\ At("Block")
  /\ LET statements == Control.statements
         index      == Control.index
         scope      == IF index = 1 THEN <<EndScope(<<>>)>> ELSE <<>>
         next       == IF index > Len(statements) THEN <<>>
                       ELSE <<[Control EXCEPT !.index = index + 1],
                              [op |-> "Statement", statement |-> statements[index]]>>
     IN Becomes(Push(Popped, scope \o next))

(* The deferred expressions of a scope run in reverse order.               *)
CloseScope ==
  /\ At("EndScope")
  /\ Becomes(Push(Popped, FlattenSeq([i \in DOMAIN Control.deferred |->
                                        <<Discard, Expr(Control.deferred[i])>>])))

FinishValue ==
  /\ At("FinishReturn") \/ At("FinishClosure")
  /\ Becomes(CompleteCoerced(PopValue(Popped), TopValue(Popped), Control.returns))

FinishUnitReturn == At("FinishUnitReturn") /\ Becomes(CompleteFrame(Popped, Unit))

Fallthrough ==
  /\ At("FunctionFallthrough")
  /\ Becomes(IF Top(machine).returns = "Unit" THEN CompleteFrame(Popped, Unit)
             ELSE Fail(Popped, "Defect", "non-Unit function fell through"))

FinishPanic == /\ At("FinishPanic")
               /\ Becomes(Fail(PopValue(Popped), "Panicked", Control.site))

FinishAssert ==
  /\ At("FinishAssert")
  /\ LET v == TopValue(Popped)
         m == PopValue(Popped)
     IN Becomes(CASE v.tag # "Bool" -> Fail(m, "Defect", "assertion condition is not Bool")
                  [] v.tag = "Bool" /\ v.truth -> m
                  [] OTHER -> Fail(m, "Panicked", Control.site))

DiscardValue == At("Discard") /\ Becomes(PopValue(Popped))

-----------------------------------------------------------------------------
(***************************************************************************)
(* Locals.                                                                 *)
(***************************************************************************)

StoreLocal ==
  /\ At("Store")
  /\ LET l    == Control.local
         v    == TopValue(Popped)
         m    == PopValue(Popped)
         freed == IF IsLive(m, l) THEN Release(m, Locals(m)[l].size) ELSE m
         kept  == Retain(freed, v.size)
     IN Becomes(
          CASE Control.initialize /\ IsLive(m, l)
                 -> Fail(m, "Defect", "initializer targets an initialized local")
            [] ~ Control.initialize /\ ~ IsLive(m, l)
                 -> Fail(m, "Defect", "assignment targets no local")
            [] OTHER -> IF Running(kept) THEN SetLocal(kept, l, v) ELSE kept)

(* StorePlace without an index, and with one.                              *)
StoreField ==
  /\ At("StoreField")
  /\ LET s == Control.statement
     IN Becomes(StoreProjected(PopValue(Popped), s.local, s.field, TopValue(Popped)))

StorePlace ==
  /\ At("StorePlace")
  /\ LET s     == Control.statement
         v     == TopValue(Popped)
         index == TopValues(Popped, 2)[1]
         m     == PopValues(Popped, 2)
         root  == Locals(Popped)[s.local]
     IN IF ~ IsLive(Popped, s.local)
        THEN Becomes(Fail(m, "CreatorRejected", "MissingLocal"))
        ELSE IF index.tag # "Int" \/ root.tag # "Array"
        THEN Becomes(Fail(m, "Defect", "place index stores through a non-array value"))
        ELSE \E i \in 0..Len(root.elements) :
               Chooses(s.site, i,
                       IF i = 0 THEN Fail(m, "Panicked", s.site)
                       ELSE ReplaceLocal(m, s.local,
                                         Array([root.elements EXCEPT ![i] = v])))

ClearScope == At("ClearLocals") /\ Becomes(Clear(Popped, Control.locals))

-----------------------------------------------------------------------------
(***************************************************************************)
(* Branches, loops and matches.                                            *)
(***************************************************************************)

SelectBranch ==
  /\ At("SelectBranch")
  /\ LET s == Control.statement
         v == TopValue(Popped)
         m == PopValue(Popped)
     IN Becomes(CASE v.tag # "Bool" -> Fail(m, "Defect", "non-bool condition")
                  [] v.tag = "Bool" /\ v.truth -> Push(m, <<Block(s.then)>>)
                  [] OTHER -> Push(m, <<Block(s.else)>>))

(* The body runs with the bindings, which are cleared when it is left.     *)
RunWith(m, bindings, below, body) ==
  LET bound == Bind(m, bindings)
  IN IF Running(bound)
     THEN Push(bound, below \o <<ClearLocals(DOMAIN bindings), Block(body)>>)
     ELSE bound

SelectPatternBranch ==
  /\ At("SelectPatternBranch")
  /\ LET s == Control.statement
         v == TopValue(Popped)
         m == PopValue(Popped)
     IN Becomes(IF Fits(v, s.pattern) THEN RunWith(m, Bindings(v, s.pattern), <<>>, s.then)
                ELSE Push(m, <<Block(s.else)>>))

FinishFor ==
  /\ At("FinishFor")
  /\ LET v == TopValue(Popped)
         m == PopValue(Popped)
     IN Becomes(IF v.tag # "Array" THEN Fail(m, "Defect", "for iterable is not an array")
                ELSE Push(m, <<[op |-> "ForNext", statement |-> Control.statement,
                                index |-> 1, values |-> v.elements]>>))

ForNext ==
  /\ At("ForNext")
  /\ LET s == Control.statement
         v == Control.values[Control.index]
     IN Becomes(IF Control.index > Len(Control.values) THEN Popped
                ELSE IF ~ Fits(v, s.pattern)
                THEN Fail(Popped, "Defect", "for pattern did not match")
                ELSE RunWith(Popped, Bindings(v, s.pattern),
                             <<[Control EXCEPT !.index = @ + 1]>>, s.body))

WhileNext ==
  /\ At("WhileNext")
  /\ Becomes(Push(Popped, <<[Control EXCEPT !.op = "FinishWhileCondition"],
                            Expr(Control.statement.condition)>>))

FinishWhileCondition ==
  /\ At("FinishWhileCondition")
  /\ LET v == TopValue(Popped)
         m == PopValue(Popped)
     IN Becomes(CASE v.tag # "Bool" -> Fail(m, "Defect", "while condition is not Bool")
                 [] v.tag = "Bool" /\ ~ v.truth -> m
                 [] v.tag = "Bool" /\ v.truth /\ Control.remaining = 0
                      -> Fail(m, "Defect", "while exceeded its compiler-derived bound")
                 [] OTHER
                      -> Push(m, <<[Control EXCEPT !.op = "WhileNext", !.remaining = @ - 1],
                                   Block(Control.statement.body)>>))

TryMatchOf(cases, v, index) ==
  [op |-> "TryMatch", cases |-> cases, value |-> v, index |-> index]

FinishMatch ==
  /\ At("FinishMatch")
  /\ Becomes(Push(PopValue(Popped), <<TryMatchOf(Control.cases, TopValue(Popped), 1)>>))

(* Cases are tried in order; a guard runs with the bindings of its case.   *)
TryMatch ==
  /\ At("TryMatch")
  /\ LET index    == Control.index
         case     == Control.cases[index]
         bindings == Bindings(Control.value, case.pattern)
         bound    == Bind(Popped, bindings)
     IN Becomes(
          CASE index > Len(Control.cases)
                 -> Fail(Popped, "Defect", "exhaustive match selected no case")
            [] index <= Len(Control.cases) /\ ~ Fits(Control.value, case.pattern)
                 -> Push(Popped, <<TryMatchOf(Control.cases, Control.value, index + 1)>>)
            [] OTHER
                 -> IF case.guard = <<>> THEN RunWith(Popped, bindings, <<>>, case.body)
                    ELSE IF ~ Running(bound) THEN bound
                    ELSE Push(bound, <<[Control EXCEPT !.op = "FinishMatchGuard"],
                                       Expr(case.guard[1])>>))

FinishMatchGuard ==
  /\ At("FinishMatchGuard")
  /\ LET case   == Control.cases[Control.index]
         locals == DOMAIN Bindings(Control.value, case.pattern)
         v      == TopValue(Popped)
         m      == PopValue(Popped)
         clear  == Clear(m, locals)
     IN Becomes(CASE v.tag # "Bool" -> Fail(m, "Defect", "match guard is not Bool")
                  [] v.tag = "Bool" /\ v.truth
                       -> Push(m, <<ClearLocals(locals), Block(case.body)>>)
                  [] OTHER
                       -> IF Running(clear)
                          THEN Push(clear, <<TryMatchOf(Control.cases, Control.value,
                                                        Control.index + 1)>>)
                          ELSE clear)

-----------------------------------------------------------------------------
(***************************************************************************)
(* The specification.                                                      *)
(***************************************************************************)

(* start_root: a fresh account; the constant cache is not part of it.      *)
Fresh(prior, limits) == [frames |-> <<>>, calls |-> <<>>, memory |-> 0, peak |-> 0,
                         prior |-> prior, limits |-> limits,
                         outcome |-> [kind |-> "Running"]]

Init == /\ \E w \in Workloads : /\ program = w.program
                                /\ machine = Fresh(w.prior, w.limits)
        /\ fuel = 0
        /\ cancelled = FALSE
        /\ trace = <<>>

StartRoot == /\ Running(machine) /\ Depth(machine) = 0
             /\ Becomes(PushFunction(machine, program["main"], <<>>, <<>>))

Cancel == /\ ~ cancelled /\ Running(machine)
          /\ cancelled' = TRUE
          /\ UNCHANGED <<program, machine, fuel, trace>>

Expression == Leaf \/ Read \/ MakeFunction \/ MakeClosure \/ Compound

FinishExpression == \/ FinishArray \/ FinishReadPlace \/ FinishNegate \/ FinishBinary
                    \/ FinishShortCircuit \/ FinishPropagate \/ FinishCall

RunStatement == \/ ReturnValue \/ ReturnUnit \/ EvaluateThenFinish \/ AssignPlace
                \/ While \/ Break \/ Continue \/ Defer \/ WithPool \/ Pass

FinishStatement == \/ FinishPanic \/ FinishAssert \/ DiscardValue \/ StoreLocal
                   \/ StoreField \/ StorePlace \/ ClearScope \/ SelectBranch \/ SelectPatternBranch
                   \/ FinishFor \/ ForNext \/ WhileNext \/ FinishWhileCondition
                   \/ FinishMatch \/ TryMatch \/ FinishMatchGuard

Scope == RunBlock \/ CloseScope \/ FinishValue \/ FinishUnitReturn \/ Fallthrough

Run == StartRoot \/ Refused \/ Expression \/ FinishExpression \/ RunStatement
       \/ FinishStatement \/ Scope

Ended == ~ Running(machine) /\ UNCHANGED vars

Next == Run \/ Cancel \/ Ended

Spec == Init /\ [][Next]_vars

(* The evaluator runs on the calling thread until it has an outcome: weak  *)
(* fairness of Run, whose guards hold while the next control can be paid   *)
(* for or is refused.                                                      *)
Ready == Running(machine) /\ (Payable \/ Refusable)

FairSpec == Spec /\ ([]<>(~ Ready) \/ []<><<Run>>_vars)

-----------------------------------------------------------------------------
(***************************************************************************)
(* Properties                                                              *)
(***************************************************************************)

FrameMemory(frame) ==
  LET live == SetToSeq(DOMAIN frame.locals)
  IN 64 + Sizes(frame.values) + Sizes([i \in DOMAIN live |-> frame.locals[live[i]]])

FramesMemory(frames) == FoldLeft(LAMBDA total, f : total + FrameMemory(f), 0, frames)

(* The memory charged to the root is at every moment exactly what the      *)
(* tariff says the live frames, operands and locals retain: whatever path  *)
(* a frame leaves by, nothing stays charged and nothing is released twice. *)
MemoryConserved ==
  Running(machine) =>
    machine.memory = FramesMemory(machine.frames)

(* The call stack that limits the depth, and that failures and             *)
(* constructions report, names the frames that are open.                   *)
CallStackAgrees ==
  Running(machine) => /\ Len(machine.calls) = Depth(machine)
                      /\ Depth(machine) <= Limits.depth

(* No result comes from a root that went over a ceiling, and a ceiling is  *)
(* reported only by a root that went over that one.                        *)
LimitsEnforced ==
  LET o == machine.outcome IN
  /\ o.kind \in {"Completed", "Panicked", "CreatorRejected"} =>
       /\ fuel <= Limits.fuel /\ machine.prior + fuel <= Limits.compilationFuel
       /\ machine.peak <= Limits.memory
  /\ o.kind = "LimitExceeded" =>
       CASE o.of = "RootFuel"        -> /\ fuel > Limits.fuel
                                        /\ machine.prior + fuel <= Limits.compilationFuel
         [] o.of = "CompilationFuel" -> machine.prior + fuel > Limits.compilationFuel
         [] o.of = "RootMemory"      -> machine.peak > Limits.memory
         [] o.of = "CallDepth"       -> Len(machine.calls) = Limits.depth

(* A program that was verified never meets one of the checks for           *)
(* impossible states.  (That a while loop ends within its derived bound is *)
(* a matter of the data, which the model leaves out.)                      *)
NoDefect ==
  machine.outcome.kind = "Defect" =>
    machine.outcome.of = "while exceeded its compiler-derived bound"

(* `?` on an alternative is an early return: nothing of the frame is left  *)
(* to do but what its scopes deferred, and then to finish with that value. *)
PropagatesEarly ==
  [][ At("FinishPropagate") /\ TopValue(machine).tag = "Err" /\ Running(machine)' =>
        \A i \in DOMAIN Top(machine').controls :
          IF i = 1 THEN Top(machine').controls[i].op = "FinishReturn"
          ELSE Top(machine').controls[i].op \in {"Discard", "Expression"} ]_vars

(* Every evaluation ends, cancelled or not.                                *)
Terminates == <>(~ Running(machine))
=============================================================================
