------------------------- MODULE DeclarationSyntax -------------------------
(***************************************************************************)
(* What syntax.rs makes of the lines of a declaration: the header is put   *)
(* together, its body is read by indentation.  A parse function gives the  *)
(* index of the line behind what it has read, or Refused.  Lines are       *)
(* records of an indentation and tokens; expressions, parameters and types *)
(* are the few that the sources use, and every "name" is another one.      *)
(***************************************************************************)
EXTENDS Integers, SequencesExt, FiniteSetsExt

CONSTANTS
  Texts,         \* the sources, each a sequence of lines
  MAX_NESTING

Token == {"fn", "const", "struct", "suite", "test", "comptime", "assert", "from", "import",
          "if", "elif", "else", "while", "match", "case", "pass",
          "name", "type", "marked", "quote", "(", ")", "[", "]", ":", "="}

SourceLine == [indent : Nat, tokens : Seq(Token)]

ASSUME TextAssumption == Texts \subseteq Seq(SourceLine) /\ MAX_NESTING \in Nat

Refused == 0

Wrapped(expressions) == {<<"name", "(">> \o e \o <<")">> : e \in expressions}
                        \cup {<<"[">> \o e \o <<"]">> : e \in expressions}

(* "marked" is a literal that is not Text and has a comment marker in it.  *)
Primary     == {<<"name">>, <<"marked">>}
ExpressionTexts == LET once == Wrapped(Primary)
               IN Primary \cup once \cup Wrapped(once) \cup Wrapped(Wrapped(once))

Simple == {<<"pass">>} \cup ExpressionTexts \cup {<<"assert">> \o e : e \in ExpressionTexts}

Headed(tokens, words) == \E e \in ExpressionTexts : tokens = words \o e \o <<":">>

IsField(tokens)    == tokens = <<"name", ":", "type">>
IsFunction(tokens) == \E p \in {<<"(", ")">>, <<"(", "name", ":", "type", ")">>} :
                        tokens = <<"fn", "name">> \o p \o <<":">>
IsTest(tokens)     == tokens = <<"test", "name", "(", ")", ":">>
IsConstant(tokens) == \E e \in ExpressionTexts : tokens = <<"const", "name", ":", "type", "=">> \o e
IsElse(tokens)     == tokens = <<"else", ":">>

Begins(ls, i, indent, words) ==
  i \in DOMAIN ls /\ ls[i].indent = indent /\ ls[i].tokens[1] \in words

Alternatives == {"elif", "else"}

-----------------------------------------------------------------------------
(***************************************************************************)
(* Statements.  `read` gives what is behind a construct at an index and an *)
(* indentation, or Refused.                                                *)
(***************************************************************************)

(* `same` are the branches of the same selection.                          *)
Branches(read, ls, i, indent, same) ==
  LET body == read["block", i + 1, indent + 4] IN
  IF ~ Begins(ls, i, indent, Alternatives) THEN i
  ELSE IF body = Refused \/ (same = "filled branches" /\ body = i + 1) THEN Refused
  ELSE CASE IsElse(ls[i].tokens) -> body
         [] Headed(ls[i].tokens, <<"elif">>) -> read[same, body, indent]
         [] OTHER -> Refused

Cases(read, ls, i, indent) ==
  IF ~ Begins(ls, i, indent, {"case"}) THEN i
  ELSE IF ~ Headed(ls[i].tokens, <<"case">>) THEN Refused
  ELSE read["cases", read["block", i + 1, indent + 4], indent]

(* Loops and `with` have the same shape: a header and a block.             *)
Statement(read, ls, i, indent) ==
  LET tokens == ls[i].tokens
      body   == read["block", i + 1, indent + 4]
      cases  == read["cases", i + 1, indent + 4]
  IN CASE tokens \in Simple -> i + 1
       [] Headed(tokens, <<"while">>) -> body
       [] Headed(tokens, <<"if">>) -> read["branches", body, indent]
       [] Headed(tokens, <<"comptime", "if">>) /\ body > i + 1 ->
            read["filled branches", body, indent]
       [] Headed(tokens, <<"match">>) /\ cases > i + 1 -> cases
       [] OTHER -> Refused

(* parse_statement_block leaves `elif` and `else` to its caller.           *)
Block(read, ls, i, indent) ==
  IF i \notin DOMAIN ls \/ ls[i].indent < indent \/ Begins(ls, i, indent, Alternatives) THEN i
  ELSE IF ls[i].indent > indent THEN Refused
  ELSE read["block", read["statement", i, indent], indent]

FilledBlock(read, i, indent) ==
  LET next == read["block", i, indent] IN IF next = i THEN Refused ELSE next

-----------------------------------------------------------------------------
(***************************************************************************)
(* Members of structs, tests of suites.                                    *)
(***************************************************************************)

Member(read, ls, i, indent) ==
  CASE ls[i].indent # indent -> Refused
    [] IsField(ls[i].tokens) -> i + 1
    [] IsFunction(ls[i].tokens) -> FilledBlock(read, i + 1, indent + 4)
    [] OTHER -> Refused

SelectedMembers(read, ls, i, indent) ==
  IF i \notin DOMAIN ls \/ ls[i].indent <= indent - 4 THEN i
  ELSE read["selected members", Member(read, ls, i, indent), indent]

(* Goes on at every alternative, also behind `else`.                       *)
MemberSelection(read, ls, i, indent) ==
  LET tokens == ls[i].tokens
      next   == read["selected members", i + 1, indent + 4]
  IN IF \/ ~ (Headed(tokens, <<"comptime", "if">>) \/ Headed(tokens, <<"elif">>) \/ IsElse(tokens))
        \/ next \in {Refused, i + 1}
     THEN Refused
     ELSE IF Begins(ls, next, indent, Alternatives) THEN read["member selection", next, indent]
     ELSE next

Members(read, ls, i, indent) ==
  IF i \notin DOMAIN ls THEN i
  ELSE read["members", IF Begins(ls, i, indent, {"comptime"})
                       THEN read["member selection", i, indent]
                       ELSE Member(read, ls, i, indent), indent]

Tests(read, ls, i, indent) ==
  IF i \notin DOMAIN ls \/ ls[i].indent < indent THEN i
  ELSE IF ls[i].indent > indent \/ ~ IsTest(ls[i].tokens) THEN Refused
  ELSE read["tests", FilledBlock(read, i + 1, indent + 4), indent]

Productions == {"block", "statement", "branches", "filled branches", "cases",
                "members", "selected members", "member selection", "tests"}

Reader(ls) ==
  LET read[what \in Productions, i \in Nat, indent \in Nat] ==
        IF i = Refused THEN Refused
        ELSE CASE what = "block"            -> Block(read, ls, i, indent)
               [] what = "statement"        -> Statement(read, ls, i, indent)
               [] what \in {"branches", "filled branches"} -> Branches(read, ls, i, indent, what)
               [] what = "cases"            -> Cases(read, ls, i, indent)
               [] what = "members"          -> Members(read, ls, i, indent)
               [] what = "selected members" -> SelectedMembers(read, ls, i, indent)
               [] what = "member selection" -> MemberSelection(read, ls, i, indent)
               [] what = "tests"            -> Tests(read, ls, i, indent)
  IN read

-----------------------------------------------------------------------------
(***************************************************************************)
(* Declarations.                                                           *)
(***************************************************************************)

Keywords      == {"fn", "const", "struct", "suite"}
Blocks        == Keywords \ {"const"}

Occurrences(tokens, token) == Cardinality({k \in DOMAIN tokens : tokens[k] = token})

EachClosed(tokens) == /\ Occurrences(tokens, "(") = Occurrences(tokens, ")")
                      /\ Occurrences(tokens, "[") = Occurrences(tokens, "]")

NeverNegative(tokens) ==
  \A k \in DOMAIN tokens : LET seen == SubSeq(tokens, 1, k) IN
    /\ Occurrences(seen, ")") <= Occurrences(seen, "(")
    /\ Occurrences(seen, "]") <= Occurrences(seen, "[")

(* normalize_declaration_lines: the lines of the header become one, and    *)
(* indentation is counted from it.  No lines if it does not end.           *)
Normalised(kind, ls) ==
  LET Joined(k) == FlattenSeq([i \in 1..k |-> ls[i].tokens])
      ends == {k \in DOMAIN ls : /\ EachClosed(Joined(k))
                                 /\ kind \in Blocks => Last(ls[k].tokens) = ":"}
      Shifted(k) == [ls[k] EXCEPT !.indent = @ - ls[1].indent]
  IN IF \/ \E k \in DOMAIN ls : ls[k].indent < ls[1].indent
        \/ ends = {} \/ ~ NeverNegative(Joined(Min(ends)))
     THEN <<>>
     ELSE <<[Shifted(1) EXCEPT !.tokens = Joined(Min(ends))]>>
          \o [k \in 1 .. Len(ls) - Min(ends) |-> Shifted(Min(ends) + k)]

Body(kind, ls) ==
  LET header == ls[1].tokens
      read   == Reader(ls)
  IN CASE kind = "fn"     /\ IsFunction(header)                 -> read["block", 2, 4]
       [] kind = "const"  /\ IsConstant(header)                 -> 2
       [] kind = "struct" /\ header = <<"struct", "name", ":">> -> read["members", 2, 4]
       [] kind = "suite"  /\ header = <<"suite", "name", ":">>  -> read["tests", 2, 4]
       [] OTHER -> Refused

LineAt(ls, i, end) ==
  IF i = Refused THEN Refused ELSE IF i \in DOMAIN ls THEN ls[i].line ELSE end

(* The number of the first line that parse_declaration_syntax leaves over  *)
(* (`end` if it leaves none), or Refused.                                  *)
ReadTo(kind, ls, end) == LineAt(ls, Body(kind, ls), end)
=============================================================================
