--------------------------- MODULE EvaluationEngine ---------------------------
(***************************************************************************)
(* One Engine evaluates all the roots of a compilation (evaluator.rs,      *)
(* Engine; the loop over the roots is in semantic.rs, analyze): every      *)
(* named constant in the order of the definition identities, then the      *)
(* compile-time assertions and, if nothing was diagnosed, the Image        *)
(* Constructor.  The machine is that of module Evaluator.  Here are the    *)
(* constants: the cache that the roots share, the stack that detects       *)
(* cycles, the dependencies a receipt names, and what has to be reset      *)
(* between two roots.                                                      *)
(***************************************************************************)
EXTENDS Evaluator

(* A workload also has constants, [identity -> [type, value]], and         *)
(* assertions, a sequence of [expression, valid].                          *)
ASSUME EngineAssumption ==
  /\ Identities \subseteq Nat /\ IsFiniteSet(Identities)
  /\ \A w \in Workloads :
       /\ DOMAIN w.constants = Identities
       /\ \A id \in Identities : w.constants[id].value \in Code
       /\ IsSequence(w.assertions) /\ \A a \in ToSet(w.assertions) : a.expression \in Code

VARIABLES
  constants,     \* the program's constants
  roots,         \* the roots still to be evaluated, the current one first
  diagnosed,     \* whether a root was diagnosed
  cache,         \* constant_values: what completed constants left behind
  evaluating,    \* evaluating_constants
  dependencies,  \* root_dependencies
  retained,      \* compilation_memory
  receipts       \* the EvaluationObservations, in the order of evaluation

engineVars == <<constants, roots, diagnosed, cache, evaluating, dependencies, retained, receipts>>
allVars    == <<vars, engineVars>>

ConstantRoot(id)        == [kind |-> "constant", id |-> id]
AssertionRoot(assertion) == [kind |-> "assertion", assertion |-> assertion]
ImageRoot               == [kind |-> "image"]

Ascending(S) == CHOOSE ids \in [1..Cardinality(S) -> S] :
                  \A i, j \in DOMAIN ids : i < j => ids[i] < ids[j]

(* The constants in the order of their identities, the assertions in the   *)
(* order of the source, the image.                                         *)
RootsOf(table, assertions) ==
  LET ids == Ascending(DOMAIN table)
  IN [i \in DOMAIN ids |-> ConstantRoot(ids[i])]
     \o [i \in DOMAIN assertions |-> AssertionRoot(assertions[i])] \o <<ImageRoot>>

Root == Head(roots)

AtRoot(kind) == roots # <<>> /\ Root.kind = kind

ConstantOf(id) == [op |-> "Constant", id |-> id]

-----------------------------------------------------------------------------
(***************************************************************************)
(* Roots.                                                                  *)
(***************************************************************************)

EngineInit ==
  /\ \E w \in Workloads : /\ program = w.program /\ constants = w.constants
                          /\ roots = RootsOf(w.constants, w.assertions)
                          /\ machine = Fresh(w.prior, w.limits)
  /\ fuel = 0 /\ cancelled = FALSE /\ trace = <<>>
  /\ diagnosed = FALSE
  /\ cache = <<>> /\ evaluating = <<>> /\ dependencies = {} /\ retained = 0
  /\ receipts = <<>>

(* A frame of the machine without a call-stack entry: a root or a constant.*)
WithFrame(m, kind, controls, entered) ==
  [m EXCEPT !.frames = Append(@, [returns |-> "", callable |-> kind,
                                  controls |-> controls, values |-> <<>>,
                                  locals |-> <<>>, writebacks |-> <<>>,
                                  entered |-> entered])]

OpenFrame(m, kind, controls, entered) ==
  LET r == Retain(m, 64)
  IN IF Running(r) THEN WithFrame(r, kind, controls, entered) ELSE r

(* A handler that is not charged.                                          *)
Continues(m) == machine' = m /\ UNCHANGED <<program, fuel, cancelled, trace>>

Idle == Running(machine) /\ Depth(machine) = 0

StartWith(control) ==
  /\ Idle
  /\ Continues(OpenFrame(machine, "root", <<[op |-> "FinishRoot"], control>>, <<>>))
  /\ UNCHANGED engineVars

StartConstant  == AtRoot("constant") /\ StartWith(ConstantOf(Root.id))

StartAssertion == /\ AtRoot("assertion") /\ Root.assertion.valid
                  /\ StartWith(Expr(Root.assertion.expression))

(* An assertion that does not verify is diagnosed without being evaluated. *)
RejectAssertion ==
  /\ AtRoot("assertion") /\ ~ Root.assertion.valid
  /\ Idle
  /\ roots' = Tail(roots)
  /\ diagnosed' = TRUE
  /\ UNCHANGED <<vars, constants, cache, evaluating, dependencies, retained, receipts>>

(* The image is evaluated only if nothing was diagnosed.                   *)
StartImage == AtRoot("image") /\ ~ diagnosed /\ StartRoot /\ UNCHANGED engineVars

Completed(receipt) == receipt.outcome.kind = "Completed"
Failed(receipt, kind, of) == receipt.outcome.kind = kind /\ receipt.outcome.of = of

Receipt == [root |-> Root, outcome |-> machine.outcome, fuel |-> fuel,
            peak |-> machine.peak, dependencies |-> dependencies]

(* A root that fails, or an assertion that does not yield true.            *)
Clean(receipt) == /\ Completed(receipt)
                  /\ receipt.root.kind = "assertion" => receipt.outcome.of = Bool(TRUE)

Diagnosed == diagnosed \/ ~ Clean(Receipt)

(* Mutants: start_root forgets to clear one of the two.                    *)
ResetDependencies == UNCHANGED evaluating /\ dependencies' = {}
ResetEvaluating   == evaluating' = <<>> /\ UNCHANGED dependencies

Reset == evaluating' = <<>> /\ dependencies' = {}

(* A cancelled request and a defect end the analysis with no observation   *)
(* of this root.                                                           *)
EndRoot ==
  /\ roots # <<>> /\ ~ Running(machine)
  /\ IF machine.outcome.kind \in {"Cancelled", "Defect"}
     THEN roots' = <<>> /\ UNCHANGED <<receipts, diagnosed>>
     ELSE /\ receipts' = Append(receipts, Receipt)
          /\ roots' = Tail(roots)
          /\ diagnosed' = Diagnosed
  /\ machine' = Fresh(machine.prior + fuel, Limits)
  /\ fuel' = 0 /\ trace' = <<>>
  /\ Reset
  /\ UNCHANGED <<program, cancelled, constants, cache, retained>>

-----------------------------------------------------------------------------
(***************************************************************************)
(* Constants.                                                              *)
(***************************************************************************)

(* The expression that names a constant.                                   *)
ReadConstant ==
  /\ AtExpr("Constant")
  /\ Becomes(Push(Popped, <<ConstantOf(Control.expression.id)>>))
  /\ UNCHANGED engineVars

(* observe_temporary: memory that is in use for a moment only.             *)
Observed(m, amount) ==
  LET now  == m.memory + amount
      seen == [m EXCEPT !.peak = IF now > @ THEN now ELSE @]
  IN IF now > m.limits.memory THEN Fail(seen, "LimitExceeded", "RootMemory") ELSE seen

(* A cached constant: its dependencies, fuel and memory are replayed.      *)
ReadCached ==
  /\ At("Constant") /\ Control.id \in DOMAIN cache
  /\ LET cached == cache[Control.id]
         m      == Observed(Popped, cached.peak)
     IN /\ dependencies' = dependencies \cup {Control.id} \cup cached.dependencies
        /\ fuel' = IF cancelled THEN fuel ELSE fuel + cached.fuel
        /\ machine' =
             CASE cancelled -> Fail(Popped, "Cancelled", "")
               [] ~ cancelled /\ ~ Affordable(cached.fuel)
                    -> Fail(Popped, "LimitExceeded",
                            IF machine.prior + fuel + cached.fuel > Limits.compilationFuel
                            THEN "CompilationFuel" ELSE "RootFuel")
               [] OTHER -> IF Running(m) THEN PushValue(m, cached.value) ELSE m
  /\ UNCHANGED <<program, cancelled, trace, constants, roots, diagnosed, cache,
                 evaluating, retained, receipts>>

(* A constant met for the first time is evaluated in a frame of its own,   *)
(* unless it is being evaluated already.                                   *)
EnterConstant ==
  /\ At("Constant") /\ Control.id \notin DOMAIN cache
  /\ LET id    == Control.id
         cycle == id \in ToSet(evaluating)
         entered == [id |-> id, fuel |-> fuel, peak |-> Retain(Popped, 64).peak,
                     dependencies |-> dependencies]
     IN /\ dependencies' = dependencies \cup {id}
        /\ evaluating' = IF cycle THEN evaluating ELSE Append(evaluating, id)
        /\ Continues(IF cycle
                     THEN Fail(Popped, "CreatorRejected", "ConstantDependencyCycle")
                     ELSE OpenFrame(Popped, "constant",
                                    <<[op |-> "FinishConstant"], Expr(constants[id].value)>>,
                                    entered))
  /\ UNCHANGED <<constants, roots, diagnosed, cache, retained, receipts>>

(* Mutant: the fuel of the whole root is replayed.                         *)
CachedWholeFuel(v, entered) ==
  [value |-> v, fuel |-> fuel, peak |-> machine.peak - entered.peak,
   dependencies |-> dependencies \ entered.dependencies]

(* What the evaluation of a constant added to the fuel, the peak and the   *)
(* dependencies of the root.                                               *)
CachedConstant(v, entered) ==
  [value |-> v, fuel |-> fuel - entered.fuel, peak |-> machine.peak - entered.peak,
   dependencies |-> dependencies \ entered.dependencies]

(* Mutant: every value is compared on its own.                             *)
OverfillsAlone(v) == v.size > Limits.compilationMemory

(* The ceiling is compared once the value is in the cache.                 *)
Overfills(v) == retained + v.size > Limits.compilationMemory

(* complete_frame of a constant.                                           *)
FinishConstant ==
  /\ At("FinishConstant")
  /\ LET frame   == Top(machine)
         entered == frame.entered
         m       == PopValue(Popped)
         popped  == [Release(m, 64 + Sizes(Top(m).values)) EXCEPT !.frames = Front(@)]
         v       == Coerced(TopValue(Popped), constants[entered.id].type)
     IN /\ evaluating' = Front(evaluating)
        /\ IF v = NoValue
           THEN /\ Continues(Fail(popped, "CreatorRejected", "ArgumentTypeMismatch"))
                /\ UNCHANGED <<cache, retained>>
           ELSE /\ cache' = With(cache, entered.id, CachedConstant(v, entered))
                /\ retained' = retained + v.size
                /\ Continues(IF Overfills(v) THEN Fail(popped, "LimitExceeded", "CompilationMemory")
                             ELSE PushValue(popped, v))
  /\ UNCHANGED <<constants, roots, diagnosed, dependencies, receipts>>

FinishRoot ==
  /\ At("FinishRoot")
  /\ Continues(Fail([PopValue(Popped) EXCEPT !.memory = @ - 64, !.frames = <<>>],
                    "Completed", TopValue(Popped)))
  /\ UNCHANGED engineVars

-----------------------------------------------------------------------------

(* The handlers of module Evaluator do not touch the engine's own state.   *)
Evaluate ==
  /\ roots # <<>>
  /\ \/ Expression \/ FinishExpression \/ RunStatement \/ FinishStatement \/ Scope
     \/ (Depth(machine) > 0 \/ (Root.kind = "image" /\ ~ diagnosed)) /\ Refused
     \/ Cancel
  /\ UNCHANGED engineVars

EngineNext == \/ StartConstant \/ StartAssertion \/ RejectAssertion \/ StartImage
              \/ EndRoot \/ Evaluate
              \/ ReadConstant \/ ReadCached \/ EnterConstant \/ FinishConstant \/ FinishRoot

EngineSpec == EngineInit /\ [][EngineNext]_allVars

-----------------------------------------------------------------------------
(***************************************************************************)
(* Properties                                                              *)
(***************************************************************************)

Entered(i) == IF machine.frames[i].callable = "constant"
              THEN <<machine.frames[i].entered.id>> ELSE <<>>

(* The stack that detects cycles names the constants whose frames are open *)
(* and no others, also in a root that follows one that failed half way;    *)
(* none of them is cached.                                                 *)
CycleStackAgrees ==
  Running(machine) =>
    /\ evaluating = FlattenSeq([i \in DOMAIN machine.frames |-> Entered(i)])
    /\ ToSet(evaluating) \cap DOMAIN cache = {}

FuelOf(observed) == FoldLeft(LAMBDA total, r : total + r.fuel, 0, observed)
FuelUpTo(i)      == FuelOf(SubSeq(receipts, 1, i))

(* The ceilings hold over all the roots: one that completed kept below     *)
(* every ceiling, replayed charges included, and once the fuel of the      *)
(* compilation is used up no later root completes.                         *)
CeilingsStick ==
  \A i \in DOMAIN receipts :
    Completed(receipts[i]) =>
      /\ receipts[i].fuel <= Limits.fuel /\ receipts[i].peak <= Limits.memory
      /\ FuelUpTo(i) <= Limits.compilationFuel
      /\ \A j \in 1..i : ~ Failed(receipts[j], "LimitExceeded", "CompilationFuel")

CacheSize == MapThenSumSet(LAMBDA id : cache[id].value.size, DOMAIN cache)

(* The root that takes the cache over its ceiling is told so.              *)
Overfilled == \/ \E i \in DOMAIN receipts :
                    Failed(receipts[i], "LimitExceeded", "CompilationMemory")
              \/ machine.outcome = [kind |-> "LimitExceeded", of |-> "CompilationMemory"]

NamedBefore(i) == UNION {receipts[j].dependencies : j \in 1..(i - 1)}

(* The values that outlive their roots are counted, once each and by what  *)
(* is cached; the ceiling on them is reported exactly when it is crossed,  *)
(* by the root that crosses it, although the value stays in the cache; and *)
(* a later root completes only with constants that were met before it.     *)
RetentionCapped ==
  /\ retained = CacheSize
  /\ retained > Limits.compilationMemory <=> Overfilled
  /\ \A i \in {k \in DOMAIN receipts : Completed(receipts[k])} : \A j \in 1..i :
       Failed(receipts[j], "LimitExceeded", "CompilationMemory") =>
         receipts[i].dependencies \subseteq NamedBefore(i)
=============================================================================
