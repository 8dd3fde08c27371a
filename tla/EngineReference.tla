---------------------------- MODULE EngineReference ----------------------------
(***************************************************************************)
(* What a root costs when nothing is cached: the value of an expression,   *)
(* its logical fuel and the constants it reads, by recursion over the      *)
(* expression.                                                             *)
(* Functions here are a single `return`, and no constant reads itself.     *)
(***************************************************************************)
EXTENDS EvaluationEngine

Uncached(v, fuel_, reads) == [v |-> v, fuel |-> fuel_, reads |-> reads]

RECURSIVE Alone(_, _), AllAlone(_, _)

(* The expressions of es from left to right; v is the sequence of values.  *)
AllAlone(es, env) ==
  IF es = <<>> THEN Uncached(<<>>, 0, {})
  ELSE LET first == Alone(Head(es), env)
           rest  == AllAlone(Tail(es), env)
       IN Uncached(<<first.v>> \o rest.v, first.fuel + rest.fuel, first.reads \cup rest.reads)

Alone(e, env) ==
  CASE e.kind = "Leaf" -> Uncached(IF e.type = "Bool" THEN Bool(TRUE) ELSE Integer(e.site), 1, {})
    [] e.kind = "Read" -> Uncached(env[e.local], 1, {})
    [] e.kind = "Array" ->
         LET r == AllAlone(e.arguments, env)
         IN Uncached(Array(r.v), r.fuel + 1, r.reads)
    [] e.kind = "Constant" ->
         LET r == Alone(constants[e.id].value, <<>>)
         IN Uncached(r.v, r.fuel + 1, r.reads \cup {e.id})
    [] e.kind = "Call" ->
         LET a == AllAlone(e.arguments, env)
             f == program[e.function]
             bound == [p \in ToSet(f.params) |->
                         a.v[CHOOSE i \in DOMAIN f.params : f.params[i] = p]]
             r == Alone(f.body[1].value, bound)
         IN Uncached(r.v, a.fuel + r.fuel + 7, a.reads \cup r.reads)

AloneRoot(root) ==
  CASE root.kind = "image" ->
         LET r == Alone(program["main"].body[1].value, <<>>)
         IN Uncached(r.v, r.fuel + 6, r.reads)
    [] root.kind = "constant" ->
         LET r == Alone(constants[root.id].value, <<>>)
         IN Uncached(r.v, r.fuel, r.reads \cup {root.id})
    [] root.kind = "assertion" -> Alone(root.assertion.expression, <<>>)

(* The constants an expression reads, in itself or in what it calls.       *)
RECURSIVE ReadsOf(_)
ReadsOf(e) ==
  CASE e.kind = "Constant" -> {e.id}
    [] e.kind = "Array"    -> UNION {ReadsOf(e.arguments[i]) : i \in DOMAIN e.arguments}
    [] e.kind = "Call"     -> UNION {ReadsOf(e.arguments[i]) : i \in DOMAIN e.arguments}
                              \cup ReadsOf(program[e.function].body[1].value)
    [] OTHER               -> {}

RECURSIVE Reach(_)
Reach(S) == LET more == S \cup UNION {ReadsOf(constants[id].value) : id \in S}
            IN IF more = S THEN S ELSE Reach(more)

Cyclic(id) == id \in Reach(ReadsOf(constants[id].value))

ReachedBy(root) ==
  Reach(CASE root.kind = "image"     -> ReadsOf(program["main"].body[1].value)
          [] root.kind = "constant"  -> {root.id}
          [] root.kind = "assertion" -> ReadsOf(root.assertion.expression))

Acyclic(root) == \A id \in ReachedBy(root) : ~ Cyclic(id)

-----------------------------------------------------------------------------
(***************************************************************************)
(* Properties                                                              *)
(***************************************************************************)

CompletedRoots == {i \in DOMAIN receipts : Completed(receipts[i])}

(* Whatever was cached before it, a root has the value and is charged the  *)
(* fuel that it has when it is evaluated alone.                            *)
ChargeReproduced ==
  \A i \in CompletedRoots :
    LET alone == AloneRoot(receipts[i].root)
    IN /\ receipts[i].fuel = alone.fuel
       /\ receipts[i].root.kind # "assertion" => receipts[i].outcome.of = alone.v

(* A root is rejected for a dependency cycle exactly when a constant it    *)
(* needs depends on itself: it does not matter which root came first, nor  *)
(* what a rejected root left behind.                                       *)
CyclesRejected ==
  \A i \in DOMAIN receipts :
    LET cycle == Failed(receipts[i], "CreatorRejected", "ConstantDependencyCycle")
    IN /\ cycle => ~ Acyclic(receipts[i].root)
       /\ Completed(receipts[i]) => Acyclic(receipts[i].root)

(* A receipt names no constant the root does not need.                     *)
DependenciesNeeded ==
  \A i \in DOMAIN receipts : receipts[i].dependencies \subseteq ReachedBy(receipts[i].root)

(* The receipt of a completed root names every constant it depends on.     *)
DependenciesNamed ==
  \A i \in CompletedRoots : AloneRoot(receipts[i].root).reads \subseteq receipts[i].dependencies
=============================================================================
