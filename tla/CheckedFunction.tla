--------------------------- MODULE CheckedFunction ---------------------------
(***************************************************************************)
(* A function on its way through typed_hir.rs: it is lowered, verified, and*)
(* then runs.                                                              *)
(***************************************************************************)
EXTENDS ArtifactVerifier, FunctionExecution

VARIABLES
  program,  \* the syntax of the function
  phase,    \* source, lowered, refused, misused, cancelled, verified, defect, ran
  body,     \* its HIR
  ending    \* how it ended

vars == <<program, phase, body, ending>>

Parameters == 1 .. Len(program.params)

Init == /\ program \in UNION Programs
        /\ phase = "source" /\ body = <<>> /\ ending = ""

(* Lowerer.                                                                *)
LowerBody ==
  LET r == LowerFunction(program)
  IN /\ phase = "source"
     /\ phase' = IF Accepted(r.st) THEN "lowered"
                 ELSE IF Refused(r.st) THEN "refused" ELSE "misused"
     /\ body' = r.hir
     /\ UNCHANGED <<program, ending>>

(* The flag is polled before every statement and expression.               *)
Cancel == /\ phase = "source"
          /\ phase' = "cancelled"
          /\ UNCHANGED <<program, body, ending>>

(* verify_lowered_artifact, which cannot be cancelled.                     *)
VerifyBody == /\ phase = "lowered"
              /\ phase' = IF VerifyFunction(Parameters, body).defect THEN "defect" ELSE "verified"
              /\ UNCHANGED <<program, body, ending>>

RunFunction == /\ phase = "verified"
               /\ phase' = "ran"
               /\ ending' \in Endings(Parameters, body)
               /\ UNCHANGED <<program, body>>

Next == LowerBody \/ Cancel \/ VerifyBody \/ RunFunction

Spec == Init /\ [][Next]_vars

-----------------------------------------------------------------------------
(***************************************************************************)
(* The parts of a body, for saying which programs are meant.               *)
(***************************************************************************)
RECURSIVE Parts(_)

Inside(part) ==
  CASE part.kind \in {"Return", "Panic", "Evaluate", "Defer"} -> part.values
    [] part.kind = "Take"   -> <<part.value>>
    [] part.kind = "Call"   -> part.arguments
    [] part.kind = "Index"  -> <<part.value, part.index>>
    [] part.kind = "Binary" -> <<part.left, part.right>>
    [] part.kind = "Assign" -> <<part.value>>
    [] part.kind = "If"     -> <<part.condition>> \o part.then \o part.else
    [] part.kind = "For"    -> <<part.iterable>> \o part.body
    [] part.kind = "While"  -> <<part.condition>> \o part.body
    [] part.kind = "Match"  -> <<part.value>>
                               \o FlattenSeq([i \in DOMAIN part.cases |->
                                                part.cases[i].guard \o part.cases[i].body])
    [] part.kind = "With"   -> <<part.scope>> \o part.body
    [] OTHER                -> <<>>

Parts(parts) == ToSet(parts) \cup UNION {Parts(Inside(parts[i])) : i \in DOMAIN parts}

Kind(kinds) == {p \in Parts(program.body) : p.kind \in kinds}

(* No part of a place gets a value after the whole was taken.              *)
RestoresWhole == \A s \in Kind({"Assign"}) : s.path = <<>>

(* Values are taken by `take` or by a case of a match.                     *)
TakesPlainly == \A s \in Kind({"If"}) : \A i \in DOMAIN s.pattern : s.pattern[i].kind # "Take"

(* Nothing follows a statement that leaves the function or a loop.         *)
StatementLists ==
  {program.body} \cup UNION {{s.then, s.else} : s \in Kind({"If"})}
    \cup {s.body : s \in Kind({"For", "While", "With"})}
    \cup UNION {{s.cases[i].body : i \in DOMAIN s.cases} : s \in Kind({"Match"})}

LeavesPlainly ==
  /\ \A list \in StatementLists : \A i \in 1 .. Len(list) - 1 : ~ Leaves(list[i])
  /\ \A s \in Kind({"For", "While"}) :
       \A p \in Parts(s.body) : p.kind \notin {"Return", "Panic", "Break", "Continue"}

(* Matches without guards, whose last case takes what is left.             *)
MatchesPlainly ==
  \A s \in Kind({"Match"}) :
    /\ \A i \in DOMAIN s.cases : Unguarded(s.cases[i])
    /\ \/ BothBools(s.cases)
       \/ \A i \in DOMAIN s.cases :
            (i = Len(s.cases)) = (s.cases[i].pattern.kind \in {"Wildcard", "Binding", "Take"})

(***************************************************************************)
(* Properties.                                                             *)
(***************************************************************************)

(* A path through a function that was accepted and verified, if it runs    *)
(* the body of every loop exactly once and to its end and nothing deferred,*)
(* never reads a place that it has moved from and not given a value since: *)
(* moves join over branches that do not leave the function, and two places *)
(* conflict when one contains the other.                                   *)
(* (typed_hir.rs, MoveState and its joins.)                                *)
NeverReadsMoved ==
  phase = "ran" /\ RestoresWhole /\ TakesPlainly => ending # "Moved"

(* A function that was accepted and verified never uses a local that its   *)
(* path has not bound, runs a while loop once more than the derived bound  *)
(* or finds no case of a match: the evaluator calls each a Defect.         *)
(* (typed_hir.rs, while_iteration_bound and match_is_exhaustive.)          *)
EndsRegularly == phase = "ran" => ending \notin {"Unbound", "Exceeded", "NoCase"}

(* The verifier accepts what the lowering accepts, although it orders      *)
(* operands, joins branches and counts cases by definitions of its own.    *)
(* (typed_hir.rs, verify_statements against Lowerer::statements.)          *)
VerifiesWhatItAccepts == phase = "defect" => ~ MatchesPlainly

(* A refused read after a move.  Left out are unreachable statements and   *)
(* ways out of a loop, which the lowering joins like others, and elements, *)
(* which it reads through their array.                                     *)
PlainlyMisused == phase = "misused" /\ LeavesPlainly /\ Kind({"Index", "Defer"}) = {}

SomePathReadsMoved == "Moved" \in Endings(Parameters, body)

(* Where nothing is assigned, a read after a move is refused for a reason: *)
(* some execution reads the moved place.                                   *)
(* (typed_hir.rs, CreatorFailureKind::ReadAfterMove.)                      *)
RefusalsAreEarned == PlainlyMisused /\ Kind({"Assign"}) = {} => SomePathReadsMoved

(* "Prefix `take` moves only from an assignable Resource location and      *)
(* leaves it unreadable until restored."  (language-core.md:112)           *)
RestoredIsReadable == PlainlyMisused => SomePathReadsMoved

(* "Resources ... move only through explicit `take`, and make the source   *)
(* unreadable until it is reinitialized."  (language-core.md:19)           *)
SourceIsUnreadable == phase = "ran" => ending \notin {"Moved", "MovedOnDetour"}

(* "A source mistake is diagnosed while constructing the artifact; a       *)
(* verifier failure ... is a `Defect`."  (compiler.md:162)                 *)
NoVerifierDefect == phase # "defect"
=============================================================================
