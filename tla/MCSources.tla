----------------------------- MODULE MCSources -----------------------------
(* Small sources for SourceText: a beginning, and every choice of lines    *)
(* behind it.                                                              *)
EXTENDS Sequences, Naturals

Line(indent, tokens) == [indent |-> indent, tokens |-> tokens]
Lines(indents, texts) == {Line(i, t) : i \in indents, t \in texts}
Blank == Line(0, <<>>)

Field     == <<"name", ":", "type">>
Function  == <<"fn", "name", "(", ")", ":">>
Test      == <<"test", "name", "(", ")", ":">>
Constant  == <<"const", "name", ":", "type", "=", "name">>
Struct    == <<"struct", "name", ":">>
Suite     == <<"suite", "name", ":">>
If        == <<"if", "name", ":">>
Elif      == <<"elif", "name", ":">>
Else      == <<"else", ":">>
While     == <<"while", "name", ":">>
Match     == <<"match", "name", ":">>
Case      == <<"case", "name", ":">>
Selection == <<"comptime", "if", "name", ":">>
Assertion == <<"comptime", "assert", "name">>
Import    == <<"from", "name", "import", "name">>
Pass      == <<"pass">>

Behind(beginning, choices, n) == {beginning \o rest : rest \in [1..n -> choices]}

Chains == Behind(<<Line(0, Function)>>, Lines({4}, {Pass, If, Elif, Else}) \cup Lines({8}, {Pass, If}), 4)
Nests  == Behind(<<Line(0, Function)>>,
                 Lines({4, 8}, {Pass, While, Match, Case, Selection})
                   \cup {Line(8, Else), Line(12, Pass), Line(6, Pass), Blank}, 3)
Nominals == Behind(<<Line(0, Struct)>>,
                   Lines({4, 8}, {Field, Function, Selection, Else})
                     \cup {Line(8, Pass), Line(12, Pass), Line(0, Assertion)}, 3)
Suites == Behind(<<Line(0, Suite)>>, Lines({4, 8}, {Test, Pass, Else}) \cup {Line(0, Constant)}, 3)
Tops == Behind(<<Line(0, Function), Line(4, Pass)>>,
               Lines({0, 4}, {Function, Selection, Else, Constant})
                 \cup Lines({0}, {Assertion, Import, Struct, Pass}) \cup Lines({4, 8}, {Pass}), 3)

(* Selections with several branches.                                       *)
Twice(header, choice) == {header \o <<Line(choice, Else)>> \o rest :
                            rest \in {<<a, Line(choice, b), a>> : a \in Lines({choice + 4}, {Constant, Field}),
                                                                  b \in {Elif, Else, Pass}}}
Selected == Twice(<<Line(0, Selection), Line(4, Constant)>>, 0)
            \cup Twice(<<Line(0, Struct), Line(4, Selection), Line(8, Field)>>, 4)

(* Lines that go on, and comment markers in literals.                      *)
Unclosed == {<<"fn", "name", "(">>, <<"const", "name", ":", "type", "=", "[">>, <<"struct", "name">>}
Onward   == Lines({0, 4}, {<<"name">>, Field, <<")">>, <<")", ":">>, <<"]">>})
              \cup {Line(4, Pass), Line(2, Pass), Blank}
Headers  == Behind(<<>>, Onward, 2)
            \cup UNION {Behind(<<Line(0, h)>>, Onward \cup Lines({0}, Unclosed), 2) : h \in Unclosed}
            \cup Behind(<<Line(0, <<"fn", "name", "(">>), Line(4, Field)>>, Onward, 2)
Broken   == Behind(<<Line(0, Function)>>, Lines({4, 8}, {<<"name", "(">>, <<"name">>, <<")">>}), 3)
Literals == Behind(<<Line(0, Function)>>,
                   Lines({4, 8}, {<<"name", "(", "marked", ")">>, <<"if", "marked", ":">>, Pass}), 2)
Deep == {<<Line(0, Function), Line(4, <<"name", "(", "[", "[", "name", "]", "]", ")">>)>>}

MCTexts == Chains \cup Nests \cup Nominals \cup Suites \cup Tops \cup Selected
             \cup Headers \cup Broken \cup Literals \cup Deep
=============================================================================
