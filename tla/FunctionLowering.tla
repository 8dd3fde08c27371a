--------------------------- MODULE FunctionLowering ---------------------------
(***************************************************************************)
(* How one function body is checked and lowered to typed HIR: typed_hir.rs,*)
(* Lowerer (statements, expression, value) with its three flow states: the *)
(* places moved from, the integers that are known, the names in scope.     *)
(*                                                                         *)
(* A part of a body is a record with a `kind`; the HIR keeps that shape,   *)
(* with names resolved to locals.  Types are names, described by Types.    *)
(* Lower(st, part) is the state after the part and the HIR of the part.    *)
(***************************************************************************)
EXTENDS Places, FiniteSets, TLC, SequencesExt

CONSTANTS
  Types,     \* [name -> [resource, fields, element, variants]]
  Programs   \* sets of functions: [params, body]

Done(st, hir) == [st |-> st, hir |-> hir]

(* A Creator failure; hir is what the part would have been.                *)
Refuse(st, why) == Done([st EXCEPT !.failure = why], <<>>)

(* ReadAfterMove: the function is refused, but lowered to its end, so that *)
(* what it would have done is known.                                       *)
Misused(st, place) == [st EXCEPT !.misused = @ \/ Unreadable(st.moved, place)]

Accepted(st) == st.failure = "" /\ ~ st.misused

Refused(st) == st.failure # ""

-----------------------------------------------------------------------------
(***************************************************************************)
(* Locals, integers and termination.                                       *)
(***************************************************************************)

(* bind_source_local.                                                      *)
Bind(st, name, type, mutable) ==
  IF name \in DOMAIN st.locals THEN [st EXCEPT !.failure = "DuplicateLocal"]
  ELSE [st EXCEPT !.locals = (name :> [local |-> st.next, type |-> type,
                                       mutable |-> mutable]) @@ @,
                  !.next = @ + 1]

Without(known, locals) == [l \in DOMAIN known \ locals |-> known[l]]

(* Mutant: an assignment of something unknown keeps the old value.         *)
KnownStale(known, local, value) ==
  IF value.kind = "Int" THEN (local :> value.value) @@ known ELSE known

KnownAfter(known, local, value) ==
  IF value.kind = "Int" THEN (local :> value.value) @@ known ELSE Without(known, {local})

(* join_known_integers.                                                    *)
JoinKnown(all) ==
  LET shared == {l \in UNION {DOMAIN known : known \in all} :
                   \A f, g \in all : l \in DOMAIN f /\ l \in DOMAIN g /\ f[l] = g[l]}
  IN [l \in shared |-> (CHOOSE known \in all : TRUE)[l]]

Unguarded(case) == case.guard = <<>>

(* The literals of cases that all are unguarded Boolean literals.          *)
BothBools(cases) ==
  /\ \A i \in DOMAIN cases : Unguarded(cases[i]) /\ cases[i].pattern.kind = "Literal"
  /\ {cases[i].pattern.value : i \in DOMAIN cases} = BOOLEAN

SyntaxExhaustive(cases) ==
  \/ Unguarded(Last(cases)) /\ Last(cases).pattern.kind \in {"Wildcard", "Binding", "Take"}
  \/ BothBools(cases)
  \/ \A i \in DOMAIN cases : Unguarded(cases[i]) /\ cases[i].pattern.kind \in {"Variant", "Take"}

RECURSIVE Terminates(_)

(* Mutant: only a statement that leaves by itself counts.                  *)
LeavesDirectly(s) == s.kind \in {"Return", "Panic"}

Leaves(s) ==
  CASE s.kind \in {"Return", "Panic"} -> TRUE
    [] s.kind = "If"    -> s.else # <<>> /\ Terminates(s.then) /\ Terminates(s.else)
    [] s.kind = "Match" -> /\ SyntaxExhaustive(s.cases)
                           /\ \A i \in DOMAIN s.cases : Terminates(s.cases[i].body)
    [] s.kind = "With"  -> Terminates(s.body)
    [] OTHER            -> FALSE

(* syntax_statements_terminate.                                            *)
Terminates(statements) == \E i \in DOMAIN statements : Leaves(statements[i])

(* while_iteration_bound: the counter is named by the condition and moved  *)
(* by a constant in the first statement of the body.                       *)
Counter(condition) ==
  IF condition.kind = "Binary" /\ condition.left.kind = "Name" /\ condition.left.fields = <<>>
     /\ condition.right.kind = "Int"
  THEN <<condition.left.root>> ELSE <<>>

Update(name, s) ==
  CASE s.kind # "Assign" -> <<>>
    [] s.root # name \/ s.path # <<>> \/ s.mutable -> <<>>
    [] s.operator # "" -> IF s.value.kind = "Int" THEN <<s.operator, s.value.value>> ELSE <<>>
    [] OTHER -> IF s.value.kind = "Binary" /\ Counter(s.value) = <<name>>
                THEN <<s.value.operator, s.value.right.value>> ELSE <<>>

Iterations(operator, initial, limit, step) ==
  CASE operator = "<"  -> IF initial >= limit THEN 0 ELSE (limit - initial + step - 1) \div step
    [] operator = "<=" -> IF initial > limit THEN 0 ELSE (limit - initial) \div step + 1
    [] operator = ">"  -> IF initial <= limit THEN 0 ELSE (initial - limit + step - 1) \div step
    [] operator = ">=" -> IF initial < limit THEN 0 ELSE (initial - limit) \div step + 1

IterationBound(st, s) ==
  LET name    == Counter(s.condition)
      update  == IF name = <<>> \/ s.body = <<>> THEN <<>> ELSE Update(name[1], s.body[1])
      counter == st.locals[name[1]]
      towards == IF s.condition.operator \in {"<", "<="} THEN "+" ELSE "-"
  IN IF /\ update # <<>> /\ name[1] \in DOMAIN st.locals
        /\ counter.mutable /\ counter.local \in DOMAIN st.known
        /\ s.condition.operator \in {"<", "<=", ">", ">="}
        /\ update[1] = towards /\ update[2] > 0
     THEN <<Iterations(s.condition.operator, st.known[counter.local],
                       s.condition.right.value, update[2])>>
     ELSE <<>>

-----------------------------------------------------------------------------
(***************************************************************************)
(* Expressions.                                                            *)
(***************************************************************************)

RECURSIVE Lower(_, _)

LowerAll(st, parts) ==
  FoldLeft(LAMBDA acc, part : LET r == Lower(acc.st, part)
                              IN Done(r.st, Append(acc.hir, r.hir)),
           Done(st, <<>>), parts)

Read(place, indexes, type, access) ==
  [kind |-> "Read", place |-> place, indexes |-> indexes, type |-> type, access |-> access]

Binary(operator, left, right, type) ==
  [kind |-> "Binary", operator |-> operator, left |-> left, right |-> right,
   type |-> type, access |-> "Copy"]

LowerLiteral(st, e) ==
  Done(st, [kind |-> e.kind, value |-> e.value, type |-> e.kind, access |-> "Copy"])

(* value: a local, or a field of one.                                      *)
LowerName(st, e) ==
  IF e.root \notin DOMAIN st.locals THEN Refuse(st, "UnresolvedName")
  ELSE LET local == st.locals[e.root]
           place == [local |-> local.local,
                     path  |-> [i \in DOMAIN e.fields |-> Field(e.fields[i])]]
           type  == FoldLeft(LAMBDA t, f : Types[t].fields[f].type, local.type, e.fields)
       IN Done(Misused(st, place), Read(place, <<>>, type, "Copy"))

(* The projection an index expression makes.                               *)
Projection(index) == IF index.kind = "Int" THEN Element(index.value) ELSE AnyElement

(* root_place.                                                             *)
RootPlace(x) ==
  CASE x.kind = "Read"  -> <<[place |-> x.place, indexes |-> x.indexes]>>
    [] x.kind = "Index" -> x.root
    [] OTHER            -> <<>>

LowerIndex(st, e) ==
  LET v    == Lower(st, e.value)
      i    == Lower(v.st, e.index)
      root == RootPlace(v.hir)
  IN IF Refused(i.st) THEN i
     ELSE Done(i.st,
               [kind |-> "Index", value |-> v.hir, index |-> i.hir,
                type |-> Types[v.hir.type].element, access |-> "Copy",
                root |-> IF root = <<>> THEN <<>>
                         ELSE <<[place   |-> [root[1].place EXCEPT
                                                !.path = Append(@, Projection(i.hir))],
                                 indexes |-> Append(root[1].indexes, i.hir)]>>])

(* `take`, with record_move: the place is read, not the element of a value.*)
LowerTake(st, e) ==
  LET v    == Lower(st, e.value)
      root == RootPlace(v.hir)
  IN IF Refused(v.st) THEN v
     ELSE IF root = <<>> \/ ~ Types[v.hir.type].resource
     THEN Refuse(v.st, "TakeRequiresResourcePlace")
     ELSE Done([Misused(v.st, root[1].place) EXCEPT !.moved = Moved(@, root[1].place)],
               Read(root[1].place, root[1].indexes, v.hir.type, "Move"))

(* apply_authored_ownership.                                               *)
Fits(argument, mode) == (argument.access = "Move") = (mode = "take")

LowerCall(st, e) ==
  LET a == LowerAll(st, e.arguments)
  IN IF Refused(a.st) THEN a
     ELSE IF \E i \in DOMAIN a.hir : ~ Fits(a.hir[i], e.modes[i])
     THEN Refuse(a.st, "ArgumentOwnershipMismatch")
     ELSE Done(a.st, [kind |-> "Call", arguments |-> a.hir, type |-> e.type,
                      access |-> "Copy"])

LowerBinary(st, e) ==
  LET both == LowerAll(st, <<e.left, e.right>>)
  IN IF Refused(both.st) THEN both
     ELSE Done(both.st, Binary(e.operator, both.hir[1], both.hir[2], e.type))

-----------------------------------------------------------------------------
(***************************************************************************)
(* Patterns.                                                               *)
(***************************************************************************)

Binding(local, access) == [kind |-> "Binding", local |-> local, access |-> access]

LowerPattern(st, p, type) ==
  CASE p.kind = "Wildcard" -> Done(st, p)
    [] p.kind = "Literal"  -> IF type = "Bool" THEN Done(st, p)
                              ELSE Refuse(st, "BinaryTypeMismatch")
    [] p.kind = "Variant"  -> IF p.variant \in Types[type].variants THEN Done(st, p)
                              ELSE Refuse(st, "InvalidMatchPattern")
    [] p.kind = "Binding"  ->
         Done(Bind(st, p.name, type, FALSE),
              Binding(st.next, IF Types[type].resource THEN "Read" ELSE "Copy"))
    [] p.kind = "Take"     ->
         IF Types[type].resource THEN Done(Bind(st, p.name, type, FALSE), Binding(st.next, "Move"))
         ELSE Refuse(st, "InvalidMatchPattern")

Irrefutable(pattern) == pattern.kind \in {"Wildcard", "Binding"}
Bindings(pattern)    == IF pattern.kind = "Binding" THEN {pattern.local} ELSE {}
MovesValue(pattern)  == pattern.kind = "Binding" /\ pattern.access = "Move"

(* match_is_exhaustive: a Boolean literal counts with or without a guard.  *)
Exhaustive(type, cases) ==
  \/ \E i \in DOMAIN cases : Unguarded(cases[i]) /\ Irrefutable(cases[i].pattern)
  \/ /\ type = "Bool"
     /\ BOOLEAN \subseteq {cases[i].pattern.value :
                             i \in {j \in DOMAIN cases : cases[j].pattern.kind = "Literal"}}
  \/ /\ Types[type].variants # {}
     /\ \A variant \in Types[type].variants : \E i \in DOMAIN cases :
          Unguarded(cases[i]) /\ cases[i].pattern.kind = "Variant"
                              /\ cases[i].pattern.variant = variant

-----------------------------------------------------------------------------
(***************************************************************************)
(* Statements.                                                             *)
(***************************************************************************)

(* Return, Panic, Assert, Expect and expression statements.                *)
LowerValues(st, s) == LET r == LowerAll(st, s.values)
                      IN Done(r.st, [s EXCEPT !.values = r.hir])

(* lower_place: the index expressions are lowered from left to right.      *)
LowerPlace(st, s) ==
  FoldLeft(LAMBDA acc, p :
             LET i == IF p.index = <<>> THEN Done(acc.st, <<>>) ELSE Lower(acc.st, p.index[1])
             IN IF p.index = <<>>
                THEN [acc EXCEPT !.place.path = Append(@, Field(p.field)),
                                 !.type = Types[acc.type].fields[p.field].type,
                                 !.writable = @ /\ Types[acc.type].fields[p.field].mutable]
                ELSE [acc EXCEPT !.st = i.st, !.indexes = Append(@, i.hir),
                                 !.place.path = Append(@, IF Refused(i.st) THEN AnyElement
                                                          ELSE Projection(i.hir)),
                                 !.type = Types[acc.type].element],
           [st |-> st, place |-> Place(st.locals[s.root].local), indexes |-> <<>>,
            type |-> st.locals[s.root].type, writable |-> st.locals[s.root].mutable],
           s.path)

(* An immutable place may be assigned when it was moved from; a writable   *)
(* one is not restored.                                                    *)
AssignTo(st, s, p, value) ==
  LET read     == Read(p.place, p.indexes, p.type, "Copy")
      assigned == IF s.operator = "" THEN value
                  ELSE Binary(s.operator, read, value, p.type)
      used     == IF s.operator = "" THEN st ELSE Misused(st, p.place)
  IN IF s.mutable THEN Refuse(st, "DuplicateLocal")
     ELSE IF ~ p.writable /\ ~ Unreadable(st.moved, p.place)
     THEN Refuse(st, "ImmutableReassignment")
     ELSE Done([used EXCEPT
                  !.moved = IF p.writable THEN @ ELSE Restored(@, p.place),
                  !.known = IF p.place.path = <<>>
                            THEN KnownAfter(@, p.place.local, assigned) ELSE @],
               [kind |-> "Assign", place |-> p.place, indexes |-> p.indexes,
                value |-> assigned])

Introduce(st, s, value) ==
  IF s.path # <<>> \/ s.operator # "" THEN Refuse(st, "UnresolvedName")
  ELSE Done([Bind(st, s.root, value.type, s.mutable) EXCEPT
               !.known = IF value.kind = "Int" THEN (st.next :> value.value) @@ @ ELSE @],
            [kind |-> "Initialize", local |-> st.next, value |-> value])

LowerAssign(st, s) ==
  IF s.root \in DOMAIN st.locals
  THEN LET p == LowerPlace(st, s)
           v == Lower(p.st, s.value)
       IN IF Refused(v.st) THEN v ELSE AssignTo(v.st, s, p, v.hir)
  ELSE LET v == Lower(st, s.value)
       IN IF Refused(v.st) THEN v ELSE Introduce(v.st, s, v.hir)

(* The three flow states of `before`, as another branch starts.            *)
Back(st, before) == [before EXCEPT !.next = st.next, !.failure = st.failure,
                                   !.misused = st.misused]

(* Branches join: those that do not terminate contribute their moves.      *)
Joined(st, before, branches) ==
  LET live == {b \in branches : ~ b.terminates}
  IN [Back(st, before) EXCEPT
        !.moved = @ \cup UNION {b.st.moved : b \in live},
        !.known = IF live = {} THEN @ ELSE JoinKnown({b.st.known : b \in live})]

(* if, and if with a pattern.                                              *)
LowerIf(st, s) ==
  LET c  == Lower(st, s.condition)
      p  == IF s.pattern = <<>> THEN Done(c.st, <<>>)
            ELSE LowerPattern(c.st, s.pattern[1], c.hir.type)
      t  == LowerAll(p.st, s.then)
      e  == LowerAll(Back(t.st, c.st), s.else)
  IN IF Refused(c.st) THEN c
     ELSE Done(Joined(e.st, c.st,
                      {[st |-> t.st, terminates |-> Terminates(s.then)],
                       [st |-> e.st, terminates |-> Terminates(s.else)]}),
               [kind |-> "If", condition |-> c.hir,
                pattern |-> IF s.pattern = <<>> THEN <<>> ELSE <<p.hir>>,
                then |-> t.hir, else |-> e.hir])

InLoop(st) == [st EXCEPT !.depth = @ + 1]

(* What of a scope's names is visible after it.                            *)
Scoped(st, before) == [st EXCEPT !.locals = [n \in DOMAIN before.locals |-> st.locals[n]],
                                 !.depth = before.depth]

RestoredAll(moved, locals) == {p \in moved : p.local \notin locals}

(* The body is lowered once, as if it ran once.                            *)
LowerFor(st, s) ==
  LET i     == Lower(st, s.iterable)
      p     == LowerPattern(i.st, s.pattern, Types[i.hir.type].element)
      b     == LowerAll(InLoop(p.st), s.body)
      bound == Bindings(p.hir)
  IN IF Refused(i.st) THEN i
     ELSE IF Refused(p.st) THEN p
     ELSE IF ~ Irrefutable(p.hir) THEN Refuse(p.st, "InvalidMatchPattern")
     ELSE IF Refused(b.st) THEN b
     ELSE Done([Scoped(b.st, i.st) EXCEPT
                  !.moved = RestoredAll(@, bound),
                  !.known = Without(JoinKnown({i.st.known, @}), bound)],
               [kind |-> "For", pattern |-> p.hir, iterable |-> i.hir, body |-> b.hir])

(* The names bound in the body stay in scope after a while.                *)
LowerWhile(st, s) ==
  LET bound == IterationBound(st, s)
      c     == Lower(st, s.condition)
      b     == LowerAll(InLoop(c.st), s.body)
  IN IF bound = <<>> THEN Refuse(st, "UnboundedWhile")
     ELSE IF Refused(b.st) THEN b
     ELSE Done([b.st EXCEPT !.depth = st.depth, !.known = JoinKnown({c.st.known, @})],
               [kind |-> "While", condition |-> c.hir, body |-> b.hir, bound |-> bound[1]])

LowerLoopControl(st, s) ==
  IF st.depth = 0 THEN Refuse(st, "LoopControlOutsideLoop") ELSE Done(st, s)

(* One case of a match on the value v.                                     *)
LowerCase(acc, v, case, last) ==
  LET p     == LowerPattern(Back(acc.st, v.st), case.pattern, v.hir.type)
      root  == RootPlace(v.hir)
      taken == IF MovesValue(p.hir) /\ root # <<>> /\ ~ Unreadable(p.st.moved, root[1].place)
               THEN [p.st EXCEPT !.moved = Moved(@, root[1].place)] ELSE p.st
      g     == LowerAll(taken, case.guard)
      b     == LowerAll(g.st, case.body)
      refuse(why) == [acc EXCEPT !.st.failure = why]
  IN IF Refused(acc.st) THEN acc
     ELSE IF Unguarded(case) /\ case.pattern.kind \in {"Wildcard", "Binding"} /\ ~ last
     THEN refuse("NonExhaustiveMatch")
     ELSE IF Refused(p.st) THEN refuse(p.st.failure)
     ELSE IF Unguarded(case) /\ \E i \in DOMAIN acc.hir : Unguarded(acc.hir[i])
                                                          /\ acc.hir[i].pattern = p.hir
     THEN refuse("UnreachableMatchCase")
     ELSE [st |-> b.st,
           hir |-> Append(acc.hir, [pattern |-> p.hir, guard |-> g.hir, body |-> b.hir]),
           branches |-> acc.branches \cup
                          {[st |-> b.st, terminates |-> Terminates(case.body)]}]

LowerMatch(st, s) ==
  LET v   == Lower(st, s.value)
      all == FoldLeft(LAMBDA acc, i : LowerCase(acc, v, s.cases[i], i = Len(s.cases)),
                      [st |-> v.st, hir |-> <<>>, branches |-> {}],
                      [i \in DOMAIN s.cases |-> i])
  IN IF Refused(all.st) THEN Done(all.st, <<>>)
     ELSE IF ~ Exhaustive(v.hir.type, all.hir) THEN Refuse(all.st, "NonExhaustiveMatch")
     ELSE Done(Joined(all.st, v.st, all.branches),
               [kind |-> "Match", value |-> v.hir, cases |-> all.hir])

(* with: a scope with one binding.                                         *)
LowerWith(st, s) ==
  LET v == Lower(st, s.scope)
      b == LowerAll(Bind(v.st, s.name, v.hir.type, TRUE), s.body)
  IN IF Refused(v.st) THEN v
     ELSE IF Refused(b.st) THEN b
     ELSE Done([Scoped(b.st, v.st) EXCEPT !.moved = RestoredAll(@, {v.st.next}),
                                          !.known = Without(@, {v.st.next})],
               [kind |-> "With", local |-> v.st.next, scope |-> v.hir, body |-> b.hir])

LowerPart(st, part) ==
  CASE part.kind \in {"Int", "Bool"}         -> LowerLiteral(st, part)
    [] part.kind = "Name"                    -> LowerName(st, part)
    [] part.kind = "Index"                   -> LowerIndex(st, part)
    [] part.kind = "Take"                    -> LowerTake(st, part)
    [] part.kind = "Call"                    -> LowerCall(st, part)
    [] part.kind = "Binary"                  -> LowerBinary(st, part)
    [] part.kind \in {"Return", "Panic", "Evaluate", "Defer"} -> LowerValues(st, part)
    [] part.kind = "Assign"                  -> LowerAssign(st, part)
    [] part.kind = "If"                      -> LowerIf(st, part)
    [] part.kind = "For"                     -> LowerFor(st, part)
    [] part.kind = "While"                   -> LowerWhile(st, part)
    [] part.kind \in {"Break", "Continue"}   -> LowerLoopControl(st, part)
    [] part.kind = "Match"                   -> LowerMatch(st, part)
    [] part.kind = "With"                    -> LowerWith(st, part)
    [] part.kind = "Pass"                    -> Done(st, part)

Lower(st, part) == IF Refused(st) THEN Done(st, <<>>) ELSE LowerPart(st, part)

(* lower_concrete_function: the parameters are bound in order.             *)
Entry(params) ==
  FoldLeft(LAMBDA st, p : Bind(st, p.name, p.type, p.mutable),
           [locals |-> <<>>, moved |-> {}, known |-> <<>>, depth |-> 0, next |-> 1,
            failure |-> "", misused |-> FALSE],
           params)

LowerFunction(program) == LowerAll(Entry(program.params), program.body)
=============================================================================
