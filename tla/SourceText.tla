----------------------------- MODULE SourceText -----------------------------
(***************************************************************************)
(* parse (syntax.rs) on a source that the lexer has cut into tokens: the   *)
(* scan of layout and delimiters, the imports, the declarations and their  *)
(* syntax, the compile-time assertions and selections.  Any report refuses *)
(* the source.                                                             *)
(*                                                                         *)
(* A physical line has an indentation and tokens, none if it is blank or   *)
(* a comment.  A position is the start of a line or somewhere within it.   *)
(***************************************************************************)
EXTENDS DeclarationSyntax

VARIABLES
  lines,         \* the source
  parsing,       \* "layout", "declarations", "bodies", "rest" or "parsed"
  next,          \* the line or declaration that is looked at next
  indents,       \* indent_stack
  open,          \* delimiter_stack
  expecting,     \* expected_block
  layout,        \* the elements of the scan: kind and line
  reports,       \* the diagnostics: code, position and position of the opener
  islands,       \* the declarations: kind, lines, validity
  kept           \* history: the lines that something was made of

textVars == <<lines, parsing, next, indents, open, expecting, layout, reports, islands, kept>>

LineStart(i)   == 2 * i
Position(i, k) == IF k = 1 /\ lines[i].indent = 0 THEN LineStart(i) ELSE LineStart(i) + 1
End            == LineStart(Len(lines) + 1)

Report(code, at) == [code |-> code, at |-> at, opener |-> 0]

IsBlank(i)   == lines[i].tokens = <<>>
FirstOf(i)   == IF IsBlank(i) THEN "" ELSE lines[i].tokens[1]

-----------------------------------------------------------------------------
(***************************************************************************)
(* scan_layout_and_delimiters                                              *)
(***************************************************************************)

Openers == {"(", "["}
Closers == {")", "]"}
OpenerOf(closer) == IF closer = ")" THEN "(" ELSE "["

(* The scan cuts a line at a comment marker that is not in Text, in other  *)
(* literals too; what is left of those is an unclosed quote.               *)
Seen(tokens) ==
  LET markers == {k \in DOMAIN tokens : tokens[k] = "marked"}
  IN IF markers = {} THEN tokens ELSE SubSeq(tokens, 1, Min(markers) - 1) \o <<"quote">>

(* scan_line_delimiters: one token                                         *)
Delimiter(scan, token, at) ==
  CASE token \in Openers /\ Len(scan.open) = MAX_NESTING ->
         [scan EXCEPT !.reports = @ \cup {Report("nesting_limit_exceeded", at)}]
    [] token \in Openers /\ Len(scan.open) # MAX_NESTING ->
         [scan EXCEPT !.open = Append(@, [token |-> token, at |-> at])]
    [] token \in Closers ->
         IF scan.open # <<>> /\ Last(scan.open).token = OpenerOf(token)
         THEN [scan EXCEPT !.open = Front(@)]
         ELSE [scan EXCEPT !.reports = @ \cup {Report("unmatched_closer", at)}]
    [] OTHER -> scan

Delimit(i) ==
  LET seen == Seen(lines[i].tokens)
      scan[k \in 0 .. Len(seen)] == IF k = 0 THEN [open |-> open, reports |-> {}]
                                    ELSE Delimiter(scan[k - 1], seen[k], Position(i, k))
  IN scan[Len(seen)]

Element(kind, i) == [kind |-> kind, line |-> i]

WidthReports(i) ==
  IF lines[i].indent % 4 # 0 THEN {Report("invalid_indentation_width", LineStart(i))} ELSE {}

(* Reports of the line besides those of its delimiters.                    *)
Levelled(i, levels, elements, found) ==
  /\ indents' = levels
  /\ layout' = layout \o elements
  /\ reports' = reports \cup WidthReports(i) \cup found \cup Delimit(i).reports

Continue(i) ==
  /\ IsBlank(i) \/ open # <<>>
  /\ UNCHANGED <<indents, layout>>
  /\ reports' = reports \cup Delimit(i).reports

Deepen(i) ==
  /\ ~ IsBlank(i) /\ open = <<>> /\ lines[i].indent > Last(indents)
  /\ LET level == lines[i].indent IN
     IF expecting /\ level = Last(indents) + 4
     THEN Levelled(i, Append(indents, level), <<Element("Indent", i)>>, {})
     ELSE Levelled(i, Append(indents, level), <<Element("UnexpectedIndentBlock", i)>>,
                   {Report("unexpected_indentation", LineStart(i))})

(* Forgets that a line may end several levels.                             *)
StandingButOne(level) == IF level < Last(indents) THEN Front(indents) ELSE indents

(* Levels are popped while the last one is deeper than the line.           *)
Standing(level) == SubSeq(indents, 1, Max({k \in DOMAIN indents : indents[k] <= level}))

(* The levels that end, and the block that was announced and is missing.   *)
Return(i) ==
  /\ ~ IsBlank(i) /\ open = <<>> /\ lines[i].indent <= Last(indents)
  /\ LET level  == lines[i].indent
         levels == Standing(level)
     IN Levelled(i, levels,
          (IF expecting THEN <<Element("Missing", i)>> ELSE <<>>)
            \o [k \in 1 .. Len(indents) - Len(levels) |-> Element("Dedent", i)],
          (IF expecting THEN {Report("missing_block", Position(i, 1))} ELSE {})
            \cup (IF Last(levels) # level THEN {Report("inconsistent_dedent", LineStart(i))}
                  ELSE {}))

ScanLine ==
  /\ parsing = "layout" /\ next <= Len(lines)
  /\ Continue(next) \/ Deepen(next) \/ Return(next)
  /\ open' = Delimit(next).open
  /\ expecting' = IF IsBlank(next) \/ open' # <<>> THEN expecting
                  ELSE Last(Seen(lines[next].tokens)) = ":"
  /\ next' = next + 1
  /\ UNCHANGED <<lines, parsing, islands, kept>>

EndScan ==
  /\ parsing = "layout" /\ next > Len(lines)
  /\ LET missing == expecting /\ open = <<>> IN
     /\ reports' = reports
          \cup (IF missing THEN {Report("missing_block", End)} ELSE {})
          \cup {[Report("missing_closer", End) EXCEPT !.opener = open[k].at] : k \in DOMAIN open}
     /\ layout' = layout
          \o (IF missing THEN <<Element("Missing", next)>> ELSE <<>>)
          \o [k \in 1 .. Len(indents) - 1 |-> Element("Dedent", next)]
          \o [k \in DOMAIN open |-> Element("Closer", next)]
  /\ indents' = <<0>> /\ open' = <<>>
  /\ parsing' = "declarations"
  /\ UNCHANGED <<lines, next, expecting, islands, kept>>

-----------------------------------------------------------------------------
(***************************************************************************)
(* parse_imports and parse_declarations                                    *)
(***************************************************************************)

(* The lines that start at the margin, whatever is open there.             *)
AtMargin == {i \in DOMAIN lines : ~ IsBlank(i) /\ lines[i].indent = 0}

Imports == {i \in AtMargin : FirstOf(i) = "from"}

IsImport(tokens) == tokens = <<"from", "name", "import", "name">>

ImportReports ==
  {Report("import_after_declaration", LineStart(i)) :
     i \in {n \in Imports : \E j \in AtMargin \ Imports : j < n}}
  \cup {Report("malformed_import", LineStart(i)) :
          i \in {n \in Imports : ~ IsImport(lines[n].tokens)}}

HasName(i) == Len(lines[i].tokens) > 1 /\ lines[i].tokens[2] = "name"

(* A declaration extends to the next one at the margin.                    *)
Extents ==
  LET starts == SetToSortSeq({i \in AtMargin : FirstOf(i) \in Keywords /\ HasName(i)}, <)
  IN [k \in DOMAIN starts |->
        [kind  |-> FirstOf(starts[k]), first |-> starts[k], valid |-> TRUE, parsed |-> FALSE,
         end   |-> IF k < Len(starts) THEN starts[k + 1] ELSE Len(lines) + 1]]

ListDeclarations ==
  /\ parsing = "declarations"
  /\ islands' = Extents
  /\ reports' = reports \cup ImportReports
       \cup {Report("malformed_declaration", LineStart(i)) :
               i \in {n \in AtMargin : FirstOf(n) \in Keywords /\ ~ HasName(n)}}
  /\ kept' = {i \in Imports : IsImport(lines[i].tokens)}
  /\ parsing' = "bodies" /\ next' = 1
  /\ UNCHANGED <<lines, indents, open, expecting, layout>>

(* token_lines                                                             *)
TokenLines(first, end) ==
  LET numbers == SetToSortSeq({i \in first .. end - 1 : ~ IsBlank(i)}, <)
  IN [k \in DOMAIN numbers |->
        [line |-> numbers[k], indent |-> lines[numbers[k]].indent,
         tokens |-> lines[numbers[k]].tokens]]

Evidence(d, found) ==
  \E r \in found : \/ LineStart(d.first) <= r.at /\ r.at <= LineStart(d.end)
                   \/ /\ r.code = "missing_closer"
                      /\ LineStart(d.first) <= r.opener /\ r.opener < LineStart(d.end)

Read(d, found, to) ==
  IF to # Refused THEN [found EXCEPT !.kept = @ \cup (d.first .. to - 1), !.parsed = TRUE]
  ELSE [found EXCEPT !.parsed = FALSE,
                     !.reports = IF Evidence(d, @) THEN @
                                 ELSE @ \cup {Report("malformed_declaration", LineStart(d.first))}]

(* What parse_declaration_syntax adds to reports and kept lines.  It       *)
(* reports nothing if the header does not end.                             *)
Parse(d, found) ==
  LET normal == Normalised(d.kind, TokenLines(d.first, d.end))
  IN IF normal = <<>> THEN [found EXCEPT !.parsed = FALSE]
     ELSE Read(d, found, ReadTo(d.kind, normal, d.end))

(* A declaration that nests too deeply is not parsed.                      *)
TooDeep(d) == \E r \in reports : /\ r.code = "nesting_limit_exceeded"
                                 /\ LineStart(d.first) <= r.at /\ r.at < LineStart(d.end)

ParseBody ==
  /\ parsing = "bodies" /\ next <= Len(islands)
  /\ LET d == islands[next] IN
     \/ /\ TooDeep(d)
        /\ islands' = [islands EXCEPT ![next].valid = FALSE]
        /\ UNCHANGED <<reports, kept>>
     \/ /\ ~ TooDeep(d)
        /\ \E done \in {Parse(d, [reports |-> reports, kept |-> kept, parsed |-> FALSE])} :
             /\ islands' = [islands EXCEPT ![next].parsed = done.parsed]
             /\ reports' = done.reports /\ kept' = done.kept
  /\ next' = next + 1
  /\ UNCHANGED <<lines, parsing, indents, open, expecting, layout>>

EndBodies ==
  /\ parsing = "bodies" /\ next > Len(islands)
  /\ parsing' = "rest" /\ next' = 1
  /\ UNCHANGED <<lines, indents, open, expecting, layout, reports, islands, kept>>

-----------------------------------------------------------------------------
(***************************************************************************)
(* parse_comptime_assertions, parse_comptime_selections, validate_top_level *)
(***************************************************************************)

SecondIs(i, word) == Len(lines[i].tokens) > 1 /\ lines[i].tokens[2] = word

Assertions == {i \in AtMargin : FirstOf(i) = "comptime" /\ SecondIs(i, "assert")}

WellAsserted(i) == \E e \in ExpressionTexts : lines[i].tokens = <<"comptime", "assert">> \o e

AssertionReports == {Report("malformed_comptime_assertion", LineStart(i)) :
                       i \in {n \in Assertions : ~ WellAsserted(n)}}

Selections == {i \in AtMargin : FirstOf(i) = "comptime" /\ SecondIs(i, "if")}

SelectionHeader(tokens) == \/ Headed(tokens, <<"comptime", "if">>)
                           \/ Headed(tokens, <<"elif">>) \/ IsElse(tokens)

(* The next line at the margin.                                            *)
BranchEnd(i) == Min({j \in AtMargin : j > i} \cup {Len(lines) + 1})

(* parse_comptime_branch_declarations: other lines are passed over.        *)
BranchDeclarations(i, found) ==
  LET end     == BranchEnd(i)
      members == {j \in i + 1 .. end - 1 : lines[j].indent = 4 /\ FirstOf(j) \in Keywords}
      starts  == {j \in members : Len(lines[j].tokens) > 1}
      At(j)   == [kind |-> FirstOf(j), first |-> j, end |-> Min({k \in starts : k > j} \cup {end})]
      unnamed == {Report("malformed_declaration", LineStart(j)) : j \in members \ starts}
      empty   == IF starts = {} THEN {Report("malformed_comptime_selection", LineStart(i))} ELSE {}
      Taken(j, read)  == IF j \in starts THEN Parse(At(j), read) ELSE read
      parsed[j \in i .. end - 1] ==
        IF j = i THEN [reports |-> found.reports \cup unnamed, kept |-> found.kept \cup {i},
                       parsed |-> found.parsed]
        ELSE Taken(j, parsed[j - 1])
  IN [parsed[end - 1] EXCEPT !.reports = @ \cup empty]

(* A selection goes on at the margin while alternatives stand there and    *)
(* the header before is whole.                                             *)
IsBranch(i) ==
  \E s \in Selections :
    /\ s <= i
    /\ \A j \in AtMargin : s < j /\ j <= i => FirstOf(j) \in Alternatives
    /\ \A j \in AtMargin : s <= j /\ j < i => SelectionHeader(lines[j].tokens)

SelectionBranch(i, found) ==
  IF SelectionHeader(lines[i].tokens) THEN BranchDeclarations(i, found)
  ELSE [found EXCEPT !.reports = @ \cup {Report("malformed_comptime_selection", LineStart(i))}]

SelectionsRead(found) ==
  LET Line(i, before) == IF i \in AtMargin /\ IsBranch(i) THEN SelectionBranch(i, before) ELSE before
      read[i \in 0 .. Len(lines)] == IF i = 0 THEN found ELSE Line(i, read[i - 1])
  IN read[Len(lines)]

(* What may start at the margin; elsewhere something must be open.         *)
TopLevel == Keywords \cup Alternatives \cup {"from", "comptime"}

(* Forgets that what was opened is closed.                                 *)
DepthUnclosed(i) ==
  LET Count(depth, token) == IF token \in Openers THEN depth + 1 ELSE depth
  IN FoldLeft(Count, 0, FlattenSeq([j \in 1 .. i - 1 |-> lines[j].tokens]))

DepthBefore(i) ==
  LET Count(depth, token) == CASE token \in Openers -> depth + 1
                               [] token \in Closers -> IF depth = 0 THEN 0 ELSE depth - 1
                               [] OTHER -> depth
  IN FoldLeft(Count, 0, FlattenSeq([j \in 1 .. i - 1 |-> lines[j].tokens]))

TopLevelReports ==
  {Report("unexpected_top_level", LineStart(i)) :
     i \in {n \in AtMargin : FirstOf(n) \notin TopLevel /\ DepthBefore(n) = 0}}

(* structurally_valid: nothing was reported of the declaration.            *)
Reported(d, found) ==
  \E r \in found : \/ LineStart(d.first) <= r.at /\ r.at < LineStart(d.end)
                   \/ r.at = End /\ LineStart(d.end) = End
                   \/ /\ r.code = "missing_closer"
                      /\ LineStart(d.first) <= r.opener /\ r.opener < LineStart(d.end)

FinishParse ==
  /\ parsing = "rest"
  /\ LET asserted == [reports |-> reports \cup AssertionReports,
                      kept    |-> kept \cup {n \in Assertions : WellAsserted(n)},
                      parsed  |-> FALSE]
     IN \E found \in {SelectionsRead(asserted)} :
          /\ reports' = found.reports \cup TopLevelReports
          /\ kept' = found.kept
          /\ islands' = [k \in DOMAIN islands |->
                           [islands[k] EXCEPT !.valid = ~ Reported(islands[k], reports')]]
  /\ parsing' = "parsed"
  /\ UNCHANGED <<lines, next, indents, open, expecting, layout>>

-----------------------------------------------------------------------------
TextInit ==
  /\ lines \in Texts
  /\ parsing = "layout" /\ next = 1
  /\ indents = <<0>> /\ open = <<>> /\ expecting = FALSE
  /\ layout = <<>> /\ reports = {} /\ islands = <<>> /\ kept = {}

TextNext == ScanLine \/ EndScan \/ ListDeclarations \/ ParseBody \/ EndBodies \/ FinishParse

TextSpec == TextInit /\ [][TextNext]_textVars

TextEnded == parsing = "parsed"
=============================================================================
