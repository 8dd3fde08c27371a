-------------------------- MODULE ComptimeSelection --------------------------
(***************************************************************************)
(* select_comptime_declarations (semantic.rs): top-level selections add    *)
(* declarations, then selections in nominals add members, then selections  *)
(* in bodies are replaced by statements, one at a time.  Every condition   *)
(* is evaluated in the program as far as it is decided.                    *)
(***************************************************************************)
EXTENDS ComptimePrograms

CONSTANTS ComptimeSources   \* the programs

VARIABLES
  original,    \* the program as it was parsed
  selected,    \* the program as far as it is decided
  cancelled,   \* the Cancellation
  stage,       \* "top", "members", "statements", or how the selection ended
  captured,     \* the top-level selections that wait, as they were captured
  deciding,    \* the selection at hand, with its module and the branch; or <<>>
  choices      \* history: what was decided, see Choice

selectionVars == <<original, selected, cancelled, stage, captured, deciding, choices>>

Selecting == stage \in {"top", "members", "statements"}

End(how) == stage' = how /\ deciding' = <<>> /\ UNCHANGED <<selected, captured, choices>>

Located(m, selection) ==
  [path |-> m, start |-> selection.start, branches |-> selection.branches, index |-> 1]

(* A sequence of things that are located in modules, by path.              *)
PerModule(Of(_)) == FlattenSeq([m \in DOMAIN selected |-> Of(m)])

-----------------------------------------------------------------------------
(***************************************************************************)
(* Which selection is next.                                                *)
(***************************************************************************)

SortedByStart(seq) == SortSeq(seq, LAMBDA a, b : a.start < b.start)

Captured(program) ==
  FlattenSeq([m \in DOMAIN program |->
                [i \in DOMAIN program[m].selections |-> Located(m, program[m].selections[i])]])

(* The first phase takes what it captured at its start, and polls.         *)
NextTop ==
  /\ stage = "top" /\ deciding = <<>> /\ captured # <<>>
  /\ IF cancelled THEN End("Cancelled")
     ELSE /\ deciding' = Head(captured) /\ captured' = Tail(captured)
          /\ UNCHANGED <<stage, selected, choices>>

EndTop ==
  /\ stage = "top" /\ deciding = <<>> /\ captured = <<>>
  /\ stage' = "members"
  /\ selected' = [m \in DOMAIN selected |->
                    [selected[m] EXCEPT !.declarations = SortedByStart(@)]]
  /\ UNCHANGED <<captured, deciding, choices>>

(* first_nested_member_selection, first_nested_statement_selection          *)
Bodies(d) == <<d.body>> \o [k \in DOMAIN d.members |-> d.members[k].body]

MemberSelections(m) ==
  FlattenSeq([i \in DOMAIN selected[m].declarations |->
                LET d == selected[m].declarations[i]
                IN [k \in DOMAIN d.selections |-> Located(m, d.selections[k])]])

StatementSelections(m) ==
  FlattenSeq([i \in DOMAIN selected[m].declarations |->
                LET found == FlattenSeq([k \in DOMAIN Bodies(selected[m].declarations[i]) |->
                               SelectionsIn(Bodies(selected[m].declarations[i])[k])])
                IN [k \in DOMAIN found |-> Located(m, found[k])]])

NextNested(found, last) ==
  /\ deciding = <<>>
  /\ IF found = <<>> THEN stage' = last /\ deciding' = <<>>
     ELSE stage' = stage /\ deciding' = Head(found)
  /\ UNCHANGED <<selected, captured, choices>>

NextMember    == stage = "members" /\ NextNested(PerModule(MemberSelections), "statements")
NextStatement == stage = "statements" /\ NextNested(PerModule(StatementSelections), "Selected")

-----------------------------------------------------------------------------
(***************************************************************************)
(* Deciding it.                                                            *)
(***************************************************************************)

(* replace_member_selection                                                *)
WithMembers(declarations, selection, members) ==
  [i \in DOMAIN declarations |->
     IF \E k \in DOMAIN declarations[i].selections :
          declarations[i].selections[k].start = selection.start
     THEN [declarations[i] EXCEPT
             !.selections = SelectSeq(@, LAMBDA s : s.start # selection.start),
             !.members = SortedByStart(@ \o members)]
     ELSE declarations[i]]

(* What was selected enters the program; all phases add nothing if no      *)
(* branch matched.                                                         *)
Applied(selection, chosen) ==
  LET what == IF chosen = 0 THEN <<>> ELSE selection.branches[chosen].selects
      m    == selection.path
  IN CASE stage = "top" ->
            [selected EXCEPT ![m].declarations = @ \o what]
       [] stage = "members" ->
            [selected EXCEPT ![m].declarations = WithMembers(@, selection, what)]
       [] stage = "statements" ->
            WithBodies(selected, LAMBDA body : Replaced(body, selection.start, what))

Choice(selection, chosen) ==
  [start |-> selection.start, chosen |-> chosen,
   conditions |-> [i \in DOMAIN selection.branches |-> selection.branches[i].condition]]

Decide(chosen) ==
  /\ selected' = Applied(deciding, chosen)
  /\ choices' = choices \cup {Choice(deciding, chosen)}
  /\ deciding' = <<>>
  /\ UNCHANGED <<stage, captured>>

(* evaluate_nested_condition erases what is not decided; the first phase   *)
(* probes the program as it is.                                            *)
Probed == IF stage = "top" THEN selected ELSE Erased(selected)

(* The next branch: an `else` matches without a probe, and so without a    *)
(* poll.                                                                   *)
TryBranch ==
  /\ deciding # <<>>
  /\ LET branch == deciding.branches[deciding.index]
         answer == IF branch.condition.kind = "else" THEN "true"
                   ELSE IF cancelled THEN "cancelled"
                   ELSE Probe(Probed, branch.condition)
     IN CASE answer = "cancelled"  -> End("Cancelled")
          [] answer = "diagnostic" -> End("Diagnostic")
          [] answer = "true"       -> Decide(deciding.index)
          [] answer = "false" /\ deciding.index = Len(deciding.branches) -> Decide(0)
          [] answer = "false" /\ deciding.index < Len(deciding.branches) ->
               /\ deciding' = [deciding EXCEPT !.index = @ + 1]
               /\ UNCHANGED <<selected, stage, captured, choices>>

-----------------------------------------------------------------------------

SelectionInit ==
  /\ original \in ComptimeSources
  /\ selected = original
  /\ cancelled = FALSE
  /\ stage = "top"
  /\ captured = Captured(original)
  /\ deciding = <<>>
  /\ choices = {}

SelectNext == /\ NextTop \/ EndTop \/ NextMember \/ NextStatement \/ TryBranch
              /\ UNCHANGED <<original, cancelled>>

CancelSelection == /\ Selecting /\ ~ cancelled
                   /\ cancelled' = TRUE
                   /\ UNCHANGED <<original, selected, stage, captured, deciding, choices>>

-----------------------------------------------------------------------------
(***************************************************************************)
(* The program that the choices select, without an order of steps.         *)
(***************************************************************************)

Chosen(selection) == LET c == CHOOSE c \in choices : c.start = selection.start
                     IN IF c.chosen = 0 THEN <<>> ELSE selection.branches[c.chosen].selects

RECURSIVE ChosenBody(_)
ChosenBody(body) ==
  FlattenSeq([i \in DOMAIN body |->
    CASE body[i].op = "comptime" -> ChosenBody(Chosen(body[i]))
      [] body[i].op = "block"    -> <<[body[i] EXCEPT !.body = ChosenBody(@)]>>
      [] OTHER                   -> <<body[i]>>])

AllChosen(plain, selections) ==
  ToSet(plain) \cup UNION {ToSet(Chosen(s)) : s \in ToSet(selections)}

ChosenMembers(d) == {[e EXCEPT !.body = ChosenBody(@)] : e \in AllChosen(d.members, d.selections)}

(* A declaration, its members as a set.                                    *)
Content(d) == [d EXCEPT !.members = ToSet(@), !.selections = {}]

ChosenProgram(m) == {[d EXCEPT !.body = ChosenBody(@), !.members = ChosenMembers(d),
                               !.selections = {}] :
                       d \in AllChosen(original[m].declarations, original[m].selections)}

InSourceOrder(seq) == \A i, j \in DOMAIN seq : i < j => seq[i].start < seq[j].start

IsFirstMatch(choice) ==
  LET match(i) == \/ choice.conditions[i].kind = "else"
                  \/ Value(selected, choice.conditions[i]) = "true"
      before   == IF choice.chosen = 0 THEN Len(choice.conditions) ELSE choice.chosen - 1
  IN /\ \A i \in 1..before : ~ match(i)
     /\ choice.chosen # 0 => match(choice.chosen)

(* A selection that is decided on a part of the program is still right in  *)
(* the whole of it: unless the program is refused anyway, the branch that  *)
(* was taken is the first one whose condition holds in the program that    *)
(* came out.  That program consists of what was selected and of nothing    *)
(* else, in source order.                                                  *)
SelectionStable ==
  stage = "Selected" =>
    /\ Accepted(selected) => \A c \in choices : IsFirstMatch(c)
    /\ \A m \in DOMAIN selected :
         /\ {Content(d) : d \in ToSet(selected[m].declarations)} = ChosenProgram(m)
         /\ InSourceOrder(selected[m].declarations)
         /\ \A d \in ToSet(selected[m].declarations) : InSourceOrder(d.members)
=============================================================================
