------------------------------- MODULE ErrorFlow -------------------------------
(***************************************************************************)
(* What error_flow.rs reads off the body of a function: which errors it    *)
(* makes, whose results it hands on and which it propagates with `?`.      *)
(*                                                                         *)
(* The error of a function's Result is one of Error, or "inferred" where   *)
(* the source leaves it out (Result { error: None }); "option" and "plain" *)
(* are other return types.  An expression is a record of its `kind`, its   *)
(* children `args` and the error, function or local it names; a statement  *)
(* has its `kind`, `value`, nested `blocks` and the `local` it binds.      *)
(***************************************************************************)
EXTENDS Integers, FiniteSets, SequencesExt

CONSTANT Error

RECURSIVE Inside(_)

(* Expression::visit_children.                                             *)
Inside(e) == {e} \cup UNION {Inside(e.args[i]) : i \in DOMAIN e.args}

Awaited(e) == IF e.kind = "Await" THEN e.args[1] ELSE e

(* The type an expression was lowered to: what matters of it.              *)
TypeOf(e, types, signatures) ==
  LET v == Awaited(e)
  IN CASE v.kind = "Err"  -> v.error
       [] v.kind = "Call" -> signatures[v.definition]
       [] v.kind = "Read" -> types[v.local]
       [] OTHER -> "plain"

RECURSIVE Bound(_, _, _)

(* The types of the locals: the first value decides.                       *)
Bound(block, types, signatures) ==
  FoldLeft(LAMBDA known, s :
             LET inner == FoldLeft(LAMBDA k, b : Bound(b, k, signatures), known, s.blocks)
             IN IF s.kind \in {"Bind", "Pool"} /\ s.local \notin DOMAIN known
                THEN inner @@ (s.local :> TypeOf(s.value, known, signatures)) ELSE inner,
           types, block)

Types(f, signatures) == Bound(f.body, f.params, signatures)

-----------------------------------------------------------------------------
(***************************************************************************)
(* scan_definition, for the inference of signatures.                       *)
(***************************************************************************)

(* result_origins: the functions whose result this may be.                 *)
Origins(e, locals) ==
  LET v == Awaited(e)
  IN CASE v.kind = "Call" -> {v.definition}
       [] v.kind = "Read" /\ v.local \in DOMAIN locals -> locals[v.local]
       [] OTHER -> {}

(* join_origins.                                                           *)
Joined(branches) ==
  [l \in UNION {DOMAIN branches[i] : i \in DOMAIN branches} |->
     UNION {branches[i][l] : i \in {j \in DOMAIN branches : l \in DOMAIN branches[j]}}]

Made(e) == {x.error : x \in {y \in Inside(e) : y.kind = "Err"}}

Propagations(e) == {x.args[1] : x \in {y \in Inside(e) : y.kind = "Propagate"}}

(* What the fixpoint needs of an expression, returned or not.              *)
Scanned(s, locals, types, signatures) ==
  LET handed == Propagations(s.value) \cup (IF s.kind = "Return" THEN {s.value} ELSE {})
  IN [errors |-> Made(s.value) \cup ({TypeOf(v, types, signatures) : v \in handed} \cap Error),
      dependencies |-> UNION {Origins(v, locals) : v \in handed}]

Both(a, b) == [errors |-> a.errors \cup b.errors, dependencies |-> a.dependencies \cup b.dependencies]

Nothing == [errors |-> {}, dependencies |-> {}]

RECURSIVE Scan(_, _, _, _)

(* visit: statements in their order, with the origins of the locals.  A    *)
(* body of a loop is followed once.                                        *)
Scan(block, before, types, signatures) ==
  FoldLeft(LAMBDA known, s :
    LET facts  == Both(known.facts, Scanned(s, known.locals, types, signatures))
        bound  == IF s.kind \in {"Bind", "Pool"}
                  THEN (s.local :> Origins(s.value, known.locals)) @@ known.locals ELSE known.locals
        inner  == [i \in DOMAIN s.blocks |->
                     Scan(s.blocks[i], [facts |-> Nothing, locals |-> bound], types, signatures)]
        ends   == [i \in DOMAIN inner |-> inner[i].locals]
    IN [facts  |-> FoldLeft(LAMBDA f, i : Both(f, i.facts), facts, inner),
        locals |-> CASE s.kind = "If"   -> Joined(ends)
                     [] s.kind = "Loop" -> Joined(<<bound>> \o ends)
                     [] s.kind = "Pool" -> [l \in DOMAIN ends[1] \ {s.local} |-> ends[1][l]]
                     [] OTHER -> bound],
    before, block)

ScanDefinition(f, signatures) ==
  Scan(f.body, [facts |-> Nothing, locals |-> <<>>], Types(f, signatures), signatures).facts

-----------------------------------------------------------------------------
(***************************************************************************)
(* scan, for the analysis of the lowered program: no locals are followed.  *)
(***************************************************************************)

RECURSIVE Statements(_)

Statements(block) ==
  UNION {{block[i]} \cup UNION {Statements(block[i].blocks[j]) : j \in DOMAIN block[i].blocks} :
           i \in DOMAIN block}

Values(f) == {s.value : s \in Statements(f.body)}

Propagated(f) == UNION {Propagations(v) : v \in Values(f)}

PropagatedTypes(f, signatures) == {TypeOf(v, Types(f, signatures), signatures) : v \in Propagated(f)}

(* directly_returned_specialization, and `?` after a call.                 *)
DirectCalls(f) ==
  {Awaited(s.value) : s \in {t \in Statements(f.body) : t.kind = "Return"}} \cup Propagated(f)

ScanFunction(f, signatures) ==
  [errors |-> UNION {Made(v) : v \in Values(f)} \cup (PropagatedTypes(f, signatures) \cap Error),
   dependencies |-> {v.definition : v \in {w \in DirectCalls(f) : w.kind = "Call"}}]

-----------------------------------------------------------------------------

(* The propagations that do not fit the function.                          *)
Mismatches(f, types) ==
  {"propagation_return_mismatch" : t \in {u \in types :
      \/ u = "option" /\ f.returns # "option"
      \/ u \in Error  /\ f.returns \in {"option", "plain"}}}
  \cup {"propagation_error_mismatch" : t \in {u \in types :
      u \in Error /\ f.returns \in Error /\ f.returns # u}}

(* can_unify, as far as errors go: an omitted error takes any.             *)
Unifies(actual, expected) == actual = expected \/ (expected = "inferred" /\ actual \in Error)

(* What the lowering checks of a body: assignments, returns and `?`.       *)
WellTyped(f, signatures) ==
  LET types == Types(f, signatures)
      Result(t) == t \in Error \cup {"inferred"}
  IN /\ \A s \in Statements(f.body) :
          /\ s.kind = "Bind" => Unifies(TypeOf(s.value, types, signatures), types[s.local])
          /\ s.kind = "Return" => \/ Unifies(TypeOf(s.value, types, signatures), f.returns)
                                  \/ Result(f.returns) /\ TypeOf(s.value, types, signatures) = "plain"
     /\ \A v \in Propagated(f) : TypeOf(v, types, signatures) # "plain"
=============================================================================
