--------------------------- MODULE SourceGrammar ---------------------------
(***************************************************************************)
(* The language of SourceText once more, by what stands in what: without   *)
(* stacks and without an order of reading.                                 *)
(***************************************************************************)
EXTENDS SourceText

(* The tokens of all lines, as the parser has them and as the scan does.   *)
Written == [i \in DOMAIN lines |-> lines[i].tokens]
Scanned == [i \in DOMAIN lines |-> Seen(lines[i].tokens)]

Nesting(tokens) == Cardinality({k \in DOMAIN tokens : tokens[k] \in Openers})
                   - Cardinality({k \in DOMAIN tokens : tokens[k] \in Closers})

Depth(tokens, k) == Nesting(SubSeq(tokens, 1, k))

(* The opener of a closer: from it on, everything in between is deeper.    *)
Opens(tokens, j, k) == /\ tokens[j] = OpenerOf(tokens[k])
                       /\ Depth(tokens, j - 1) = Depth(tokens, k)
                       /\ \A m \in j .. k - 1 : Depth(tokens, m) > Depth(tokens, k)

Matched(tokens, k) == tokens[k] \in Closers => \E j \in 1 .. k - 1 : Opens(tokens, j, k)

Delimited(view) ==
  LET all == FlattenSeq(view)
  IN /\ \A k \in DOMAIN all : Matched(all, k) /\ Depth(all, k) <= MAX_NESTING
     /\ Nesting(all) = 0

(* Logical lines: they start where nothing is open.                        *)
Heads(view) == {i \in DOMAIN lines : /\ ~ IsBlank(i)
                                     /\ Nesting(FlattenSeq(SubSeq(view, 1, i - 1))) = 0}

Following(view, i) == Min({j \in Heads(view) : j > i} \cup {Len(lines) + 1})

Entire(view, i) == FlattenSeq(SubSeq(view, i, Following(view, i) - 1))

Announces(view, i) == Last(Entire(view, i)) = ":"

(* Blocks are announced and four spaces deeper; what follows a block is at *)
(* the level of a line that encloses it or stands before it.               *)
LaidOut(view) ==
  LET heads == Heads(view) IN
  \A i \in heads :
    LET before == {j \in heads : j < i}
    IN /\ i = Min(heads) => lines[i].indent = 0
       /\ i = Max(heads) => ~ Announces(view, i)
       /\ before # {} =>
            IF Announces(view, Max(before)) THEN lines[i].indent = lines[Max(before)].indent + 4
            ELSE /\ lines[i].indent <= lines[Max(before)].indent
                 /\ \E c \in before : /\ lines[c].indent = lines[i].indent
                                      /\ \A j \in before : j > c => lines[j].indent >= lines[i].indent

-----------------------------------------------------------------------------
Logical == Heads(Written)

Text(i) == Entire(Written, i)

Parent(i)  == Max({0} \cup {j \in Logical : j < i /\ lines[j].indent < lines[i].indent})
Elder(i)   == Max({0} \cup {j \in Logical : j < i /\ Parent(j) = Parent(i)})

Alternative(tokens) == Headed(tokens, <<"elif">>) \/ IsElse(tokens)
Condition(tokens)   == \/ Headed(tokens, <<"if">>) \/ Headed(tokens, <<"comptime", "if">>)
                       \/ Headed(tokens, <<"elif">>)

(* What a line must be to stand in what `place` says, and what then stands *)
(* in it: "nothing" if it is not a header.                                 *)
StatementLines(tokens) ==
  CASE tokens \in Simple -> "nothing"
    [] \/ Headed(tokens, <<"while">>) \/ Headed(tokens, <<"if">>)
       \/ Headed(tokens, <<"comptime", "if">>) -> "statements"
    [] Headed(tokens, <<"match">>) -> "cases"
    [] OTHER -> "misplaced"

Declarations(tokens) ==
  CASE IsFunction(tokens) -> "statements"
    [] IsConstant(tokens) -> "nothing"
    [] tokens = <<"struct", "name", ":">> -> "members"
    [] tokens = <<"suite", "name", ":">>  -> "tests"
    [] OTHER -> "misplaced"

AtTop(tokens) ==
  CASE IsImport(tokens) \/ (\E e \in ExpressionTexts : tokens = <<"comptime", "assert">> \o e) -> "nothing"
    [] Headed(tokens, <<"comptime", "if">>) -> "declarations"
    [] OTHER -> Declarations(tokens)

SelectedMember(tokens) == CASE IsField(tokens) -> "nothing"
                            [] IsFunction(tokens) -> "statements"
                            [] OTHER -> "misplaced"

Contents(place, tokens) ==
  CASE place = "top"              -> AtTop(tokens)
    [] place = "declarations"     -> Declarations(tokens)
    [] place = "members"          -> IF Headed(tokens, <<"comptime", "if">>) THEN "selected members"
                                     ELSE SelectedMember(tokens)
    [] place = "selected members" -> SelectedMember(tokens)
    [] place = "tests"            -> IF IsTest(tokens) THEN "statements" ELSE "misplaced"
    [] place = "cases"            -> IF Headed(tokens, <<"case">>) THEN "statements" ELSE "misplaced"
    [] place = "statements"       -> StatementLines(tokens)
    [] OTHER                      -> "misplaced"

(* An alternative continues the condition before it; one of declarations   *)
(* or members may follow an `else` as well, as the parser has it.          *)
Alternates(place, tokens) == \/ Condition(tokens)
                             \/ place \in {"declarations", "selected members"} /\ IsElse(tokens)

Takes ==
  LET takes[i \in Logical \cup {0}] ==
        IF i = 0 THEN "top"
        ELSE IF ~ Alternative(Text(i)) THEN Contents(takes[Parent(i)], Text(i))
        ELSE IF Elder(i) # 0 /\ Alternates(takes[Elder(i)], Text(Elder(i))) THEN takes[Elder(i)]
        ELSE "misplaced"
  IN takes

WellFormed ==
  /\ Delimited(Written) /\ LaidOut(Written)
  /\ \A i \in Logical : Takes[i] # "misplaced"
  /\ \A i, j \in Logical : IsImport(Text(i)) /\ j < i => IsImport(Text(j))

-----------------------------------------------------------------------------
LayoutCodes == {"nesting_limit_exceeded", "unmatched_closer", "missing_closer",
                "invalid_indentation_width", "unexpected_indentation", "missing_block",
                "inconsistent_dedent"}

LayoutSound == ~ \E r \in reports : r.code \in LayoutCodes

Count(kinds, i) == Cardinality({k \in DOMAIN layout : layout[k].kind \in kinds /\ layout[k].line <= i})

(* The scan reports nothing exactly if the delimiters are balanced and     *)
(* blocks are announced and indented; then the level of a line is the      *)
(* number of blocks around it, and in every source each level ends.        *)
(* (syntax.rs, scan_layout_and_delimiters.)                                *)
LayoutExact ==
  parsing # "layout" =>
    /\ LayoutSound <=> Delimited(Scanned) /\ LaidOut(Scanned)
    /\ LayoutSound => \A i \in Heads(Scanned) :
                        lines[i].indent = 4 * (Count({"Indent"}, i) - Count({"Dedent"}, i))
    /\ Count({"Indent", "UnexpectedIndentBlock"}, Len(lines) + 1) = Count({"Dedent"}, Len(lines) + 1)

(* Misread: sources with a comment marker in a literal, with a line of a   *)
(* body that goes on, or with a struct before a selection or an assertion. *)
Marked    == Scanned # Written
GoesOn    == \E i \in Logical : lines[i].indent > 0 /\ Len(Text(i)) > Len(lines[i].tokens)
Crowded   == \E i, j \in AtMargin : /\ FirstOf(i) = "struct" /\ FirstOf(j) = "comptime" /\ i < j
                                    /\ \A k \in AtMargin : i < k => j <= k
                                                       \/ FirstOf(k) \notin Keywords
Misread   == Marked \/ GoesOn \/ Crowded

Lost == {i \in DOMAIN lines : ~ IsBlank(i)} \ kept

(* A declaration whose header does not end: without a colon, or with the   *)
(* next one in its delimiters.                                             *)
Endless(i) == \/ FirstOf(i) \in Blocks /\ ~ Announces(Written, i)
              \/ FirstOf(i) \in Keywords /\ \E j \in AtMargin : /\ i < j /\ j < Following(Written, i)
                                                             /\ FirstOf(j) \in Keywords

(* Lines out of place that the parser passes over without a report: an     *)
(* alternative of nothing, what is no declaration in a selection, and a    *)
(* declaration that is endless.                                            *)
Unseen == \E i \in Logical : /\ Takes[i] = "misplaced"
                             /\ \/ FirstOf(i) \in Alternatives
                                \/ Takes[Parent(i)] = "declarations" \/ Endless(i)

(* A source in which nothing is misread or unseen is taken exactly if it   *)
(* is well formed, and then something is made of all its lines.            *)
(* (syntax.rs, parse.)                                                     *)
AcceptanceExact ==
  parsing = "parsed" /\ ~ Misread =>
    /\ WellFormed => reports = {} /\ Lost = {}
    /\ reports = {} => WellFormed \/ Unseen

(* Something was made of all the lines of a declaration that lowers: "A    *)
(* declaration lowers only when its complete syntax, including its body,   *)
(* is structurally valid." (docs/design/syntax.md:176)                     *)
LoweredWhole ==
  parsing = "parsed" =>
    \A d \in ToSet(islands) : d.valid /\ d.parsed => Lost \cap (d.first .. BranchEnd(d.first) - 1) = {}
=============================================================================
