--------------------------- MODULE ComptimePrograms ---------------------------
(***************************************************************************)
(* Programs with compile-time selections, and what the analysis behind a   *)
(* condition (semantic::analyze_with_probe with verify_comptime_condition  *)
(* and the evaluator) answers for them.                                    *)
(*                                                                         *)
(* A program is a sequence of modules, in the order of their paths; a      *)
(* module has declarations and top-level selections.  A declaration has    *)
(*   name        written with the name of its module                       *)
(*   start       its place in the program, which is unique                 *)
(*   kind        "function" or "nominal"                                   *)
(*   mentions    what its signature or its fields name                     *)
(*   body        the statements of a function                              *)
(*   members     the functions and fields of a nominal, like declarations  *)
(*   selections  its member selections                                     *)
(* A selection has a start and branches, each with a condition and what it *)
(* selects.  A statement has an op: "return" (a condition), "comptime" (a  *)
(* selection of statements), "block" (any of if, for, while and match with *)
(* a body that runs or not), "with" and "panic".                           *)
(***************************************************************************)
EXTENDS Naturals, FiniteSets, Sequences, SequencesExt

(* Conditions: [kind, name], an "else", "true", "false", or a "call" of a  *)
(* function, or "not" a call.                                              *)
Opposite(value) == CASE value = "true" -> "false" [] value = "false" -> "true"
                     [] OTHER -> value

-----------------------------------------------------------------------------
(***************************************************************************)
(* Statements.                                                             *)
(***************************************************************************)

(* find_statement_selection: the selections outside of other selections,   *)
(* in the order in which they are found; those in a `with` are not.        *)
RECURSIVE SelectionsIn(_)
SelectionsIn(body) ==
  IF body = <<>> THEN <<>>
  ELSE (CASE Head(body).op = "comptime" -> <<Head(body)>>
          [] Head(body).op = "block"    -> SelectionsIn(Head(body).body)
          [] OTHER                      -> <<>>) \o SelectionsIn(Tail(body))

(* replace_statement_in_block; a start is the start of one selection.      *)
RECURSIVE Replaced(_, _, _)
Replaced(body, start, statements) ==
  IF body = <<>> THEN <<>>
  ELSE (CASE Head(body).op = "comptime" /\ Head(body).start = start -> statements
          [] Head(body).op = "block" ->
               <<[Head(body) EXCEPT !.body = Replaced(@, start, statements)]>>
          [] OTHER -> <<Head(body)>>) \o Replaced(Tail(body), start, statements)

(* erase_statement_block: a selection that is not decided yet panics.      *)
NoPlaceholder == <<>>                           \* mutant

Placeholder == <<[op |-> "panic"]>>

RECURSIVE ErasedBody(_)
ErasedBody(body) ==
  IF body = <<>> THEN <<>>
  ELSE (CASE Head(body).op = "comptime" -> Placeholder
          [] Head(body).op = "block"    -> <<[Head(body) EXCEPT !.body = ErasedBody(@)]>>
          [] OTHER                      -> <<Head(body)>>) \o ErasedBody(Tail(body))

(* statements_definitely_terminate.                                        *)
RECURSIVE Terminates(_)
Terminates(body) ==
  \E i \in DOMAIN body :
    LET s == body[i]
    IN CASE s.op \in {"return", "panic"} -> TRUE
         [] s.op = "with"     -> Terminates(s.body)
         [] s.op = "block"    -> FALSE
         [] s.op = "comptime" -> /\ Last(s.branches).condition.kind = "else"
                                 /\ \A b \in ToSet(s.branches) : Terminates(b.selects)

(* Lowering a body: what it calls, and whether a selection is left in it.  *)
Called(condition) == IF condition.kind \in {"call", "not"} THEN {condition.name} ELSE {}

RECURSIVE CalledIn(_)
CalledIn(body) ==
  UNION {CASE body[i].op = "return"           -> Called(body[i].value)
           [] body[i].op \in {"block", "with"} -> CalledIn(body[i].body)
           [] OTHER                            -> {} : i \in DOMAIN body}

RECURSIVE Unselected(_)
Unselected(body) == \E i \in DOMAIN body :
                      \/ body[i].op = "comptime"
                      \/ (body[i].op \in {"block", "with"} /\ Unselected(body[i].body))

-----------------------------------------------------------------------------
(***************************************************************************)
(* Programs.                                                               *)
(***************************************************************************)

(* The program with every body changed; members have bodies too.           *)
WithBodies(program, Changed(_)) ==
  [m \in DOMAIN program |->
     [program[m] EXCEPT !.declarations =
        [i \in DOMAIN @ |-> [@[i] EXCEPT
           !.body = Changed(@),
           !.members = [k \in DOMAIN @ |-> [@[k] EXCEPT !.body = Changed(@)]]]]]]

(* erase_nested_statement_selections                                       *)
Erased(program) == WithBodies(program, ErasedBody)

Declared(program)  == UNION {ToSet(program[m].declarations) : m \in DOMAIN program}
Items(program)     == Declared(program) \cup UNION {ToSet(d.members) : d \in Declared(program)}
Functions(program) == {d \in Items(program) : d.kind = "function"}
Names(S)           == {d.name : d \in S}

Function(program, name) == CHOOSE d \in Functions(program) : d.name = name

(* What analyze diagnoses of declarations before it lowers any body.       *)
WellFormed(program) ==
  /\ \A d, e \in Items(program) : d.name = e.name => d.start = e.start
  /\ \A d \in Items(program) : d.mentions \subseteq Names(Declared(program))
  /\ \A f \in Functions(program) : Terminates(f.body)

(* What it diagnoses when it has lowered all of them.                      *)
Accepted(program) ==
  /\ WellFormed(program)
  /\ \A f \in Functions(program) : /\ CalledIn(f.body) \subseteq Names(Functions(program))
                                   /\ ~ Unselected(f.body)

(* The functions that a condition demands, in turns.                       *)
RECURSIVE Demanded(_, _)
Demanded(program, names) ==
  LET more == UNION {CalledIn(f.body) : f \in {g \in Functions(program) : g.name \in names}}
  IN IF more \subseteq names THEN names ELSE Demanded(program, names \cup more)

Lowers(program, condition) ==
  LET names == Demanded(program, Called(condition))
  IN /\ names \subseteq Names(Functions(program))
     /\ \A name \in names : ~ Unselected(Function(program, name).body)

(* A run of statements: "true" or "false" is returned, "none" if the end   *)
(* is reached, "stops" if it panics or calls too deep.                     *)
RECURSIVE Run(_, _, _)
Run(program, body, depth) ==
  IF body = <<>> THEN "none"
  ELSE LET s      == Head(body)
           within == IF s.op = "with" \/ (s.op = "block" /\ s.runs)
                     THEN Run(program, s.body, depth) ELSE "none"
       IN CASE s.op = "panic" -> "stops"
            [] s.op = "return" ->
                 IF s.value.kind \in {"true", "false"} THEN s.value.kind
                 ELSE LET result == IF depth = 0 THEN "stops"
                                    ELSE Run(program, Function(program, s.value.name).body,
                                             depth - 1)
                      IN IF s.value.kind = "not" THEN Opposite(result) ELSE result
            [] OTHER -> IF within = "none" THEN Run(program, Tail(body), depth) ELSE within

(* No chain of calls without a repetition is longer.                       *)
Value(program, condition) ==
  Run(program, <<[op |-> "return", value |-> condition]>>, Cardinality(Functions(program)))

(* A condition is diagnosed, or it has a value.                            *)
Probe(program, condition) ==
  IF ~ WellFormed(program) \/ ~ Lowers(program, condition) THEN "diagnostic"
  ELSE LET value == Value(program, condition)
       IN IF value \in {"true", "false"} THEN value ELSE "diagnostic"
=============================================================================
