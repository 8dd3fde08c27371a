--------------------------- MODULE ArtifactVerifier ---------------------------
(***************************************************************************)
(* The second check of a lowered function: typed_hir.rs,                   *)
(* verify_lowered_artifact.  It follows the HIR with the locals that are   *)
(* bound and the places moved from, and ends with a Defect when a rule     *)
(* that the lowering should have enforced is broken.  Types and the source *)
(* ranges of the HIR are left out.                                         *)
(***************************************************************************)
EXTENDS FunctionLowering

Broken(v) == [v EXCEPT !.defect = TRUE]

(* Every defect ends the check at once.                                    *)
Require(condition, v) == IF condition THEN v ELSE Broken(v)

RECURSIVE Verify(_, _)

VerifyAll(v, parts) == FoldLeft(LAMBDA acc, part : Verify(acc, part), v, parts)

(* hir_match_exhaustive, hir_statements_terminate.                         *)
HirExhaustive(cases) ==
  \/ Unguarded(Last(cases)) /\ Irrefutable(Last(cases).pattern)
  \/ BothBools(cases)

RECURSIVE HirTerminate(_)

HirLeaves(s) ==
  CASE s.kind \in {"Return", "Panic"} -> TRUE
    [] s.kind = "If"    -> s.else # <<>> /\ HirTerminate(s.then) /\ HirTerminate(s.else)
    [] s.kind = "Match" -> /\ HirExhaustive(s.cases)
                           /\ \A i \in DOMAIN s.cases : HirTerminate(s.cases[i].body)
    [] s.kind = "With"  -> HirTerminate(s.body)
    [] OTHER            -> FALSE

HirTerminate(statements) == \E i \in DOMAIN statements : HirLeaves(statements[i])

(* hir_match_exhaustive_for_type.                                          *)
Covered(type, cases) ==
  \/ \E i \in DOMAIN cases : Unguarded(cases[i]) /\ Irrefutable(cases[i].pattern)
  \/ type = "Bool" /\ HirExhaustive(cases)
  \/ /\ Types[type].variants # {}
     /\ \A variant \in Types[type].variants : \E i \in DOMAIN cases :
          /\ Unguarded(cases[i]) /\ cases[i].pattern.kind = "Variant"
          /\ cases[i].pattern.variant = variant

(* verify_place_artifact: the local is known before the indexes are looked *)
(* at.                                                                     *)
VerifyPlace(v, place, indexes) ==
  IF place.local \in v.bound THEN VerifyAll(v, indexes) ELSE Broken(v)

VerifyRead(v, e) ==
  LET p == VerifyPlace(v, e.place, e.indexes)
  IN IF p.defect THEN p
     ELSE Require(~ Unreadable(p.moved, e.place),
                  IF e.access = "Move" THEN [p EXCEPT !.moved = Moved(@, e.place)] ELSE p)

VerifyPattern(v, p) ==
  Require(Bindings(p) \cap v.bound = {}, [v EXCEPT !.bound = @ \cup Bindings(p)])

VerifyInitialize(v, s) ==
  LET w == Verify(v, s.value)
  IN Require(s.local \notin w.bound, [w EXCEPT !.bound = @ \cup {s.local}])

(* Mutant: an assignment does not restore its place.                       *)
VerifyAssignKeeps(v, s) == VerifyPlace(Verify(v, s.value), s.place, s.indexes)

(* The value comes first, then the indexes of the place.                   *)
VerifyAssign(v, s) ==
  LET p == VerifyPlace(Verify(v, s.value), s.place, s.indexes)
  IN [p EXCEPT !.moved = Restored(@, s.place)]

(* A branch starts with copies and may leave moved places behind.          *)
Leftover(branches) == UNION {b.v.moved : b \in {c \in branches : ~ HirTerminate(c.body)}}

VerifyIf(v, s) ==
  LET c == Verify(v, s.condition)
      p == IF s.pattern = <<>> THEN c ELSE VerifyPattern(c, s.pattern[1])
      t == VerifyAll(p, s.then)
      e == VerifyAll(c, s.else)
  IN Require(~ t.defect /\ ~ e.defect,
             [c EXCEPT !.moved = @ \cup Leftover({[v |-> t, body |-> s.then],
                                                  [v |-> e, body |-> s.else]})])

VerifyFor(v, s) ==
  LET i == Verify(v, s.iterable)
      b == VerifyAll(VerifyPattern(i, s.pattern), s.body)
  IN [Require(Irrefutable(s.pattern), b) EXCEPT
        !.bound = @ \cap i.bound,
        !.moved = RestoredAll(@, Bindings(s.pattern))]

VerifyWhile(v, s) == VerifyAll(Verify(v, s.condition), s.body)

(* The guards of all cases are verified in one state, the bodies in copies *)
(* of it.                                                                  *)
VerifyCase(acc, case, last) ==
  LET p == VerifyPattern(acc.v, case.pattern)
      g == VerifyAll(p, case.guard)
      b == VerifyAll(g, case.body)
  IN [v |-> Require(/\ last \/ case.guard # <<>> \/ ~ Irrefutable(case.pattern)
                    /\ ~ b.defect,
                    [g EXCEPT !.bound = acc.v.bound]),
      branches |-> acc.branches \cup {[v |-> b, body |-> case.body]}]

Repeats(cases) == \E i, j \in DOMAIN cases :
  i # j /\ Unguarded(cases[i]) /\ Unguarded(cases[j]) /\ cases[i].pattern = cases[j].pattern

VerifyMatch(v, s) ==
  LET w   == Verify(v, s.value)
      all == FoldLeft(LAMBDA acc, i : VerifyCase(acc, s.cases[i], i = Len(s.cases)),
                      [v |-> w, branches |-> {}], [i \in DOMAIN s.cases |-> i])
  IN IF Repeats(s.cases) \/ ~ Covered(s.value.type, s.cases) THEN Broken(w)
     ELSE [all.v EXCEPT !.moved = @ \cup Leftover(all.branches)]

VerifyWith(v, s) ==
  LET w == Verify(v, s.scope)
      b == VerifyAll([w EXCEPT !.bound = @ \cup {s.local}], s.body)
  IN Require(s.local \notin w.bound,
             [b EXCEPT !.bound = @ \ {s.local}, !.moved = RestoredAll(@, {s.local})])

VerifyPart(v, part) ==
  CASE part.kind = "Read"       -> VerifyRead(v, part)
    [] part.kind = "Index"      -> VerifyAll(v, <<part.value, part.index>>)
    [] part.kind = "Call"       -> VerifyAll(v, part.arguments)
    [] part.kind = "Binary"     -> VerifyAll(v, <<part.left, part.right>>)
    [] part.kind \in {"Return", "Panic", "Evaluate", "Defer"} -> VerifyAll(v, part.values)
    [] part.kind = "Initialize" -> VerifyInitialize(v, part)
    [] part.kind = "Assign"     -> VerifyAssign(v, part)
    [] part.kind = "If"         -> VerifyIf(v, part)
    [] part.kind = "For"        -> VerifyFor(v, part)
    [] part.kind = "While"      -> VerifyWhile(v, part)
    [] part.kind = "Match"      -> VerifyMatch(v, part)
    [] part.kind = "With"       -> VerifyWith(v, part)
    [] OTHER                    -> v

Verify(v, part) == IF v.defect THEN v ELSE VerifyPart(v, part)

(* verify_loop_control.                                                    *)
RECURSIVE ControlInLoops(_, _)

ControlInLoops(statements, depth) ==
  \A i \in DOMAIN statements :
    LET s == statements[i]
    IN CASE s.kind \in {"Break", "Continue"} -> depth > 0
         [] s.kind \in {"For", "While"}      -> ControlInLoops(s.body, depth + 1)
         [] s.kind = "With"  -> ControlInLoops(s.body, depth)
         [] s.kind = "If"    -> /\ ControlInLoops(s.then, depth)
                                /\ ControlInLoops(s.else, depth)
         [] s.kind = "Match" -> \A j \in DOMAIN s.cases : ControlInLoops(s.cases[j].body, depth)
         [] OTHER            -> TRUE

(* verify_lowered_artifact of one function.                                *)
VerifyFunction(parameters, body) ==
  Require(ControlInLoops(body, 0),
          VerifyAll([bound |-> parameters, moved |-> {}, defect |-> FALSE], body))
=============================================================================
