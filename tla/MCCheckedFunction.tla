-------------------------- MODULE MCCheckedFunction --------------------------
(***************************************************************************)
(* Small functions for CheckedFunction.                                    *)
(***************************************************************************)
EXTENDS CheckedFunction

Type(resource, fields, element, variants) ==
  [resource |-> resource, fields |-> fields, element |-> element, variants |-> variants]

FieldOf(type, mutable) == [type |-> type, mutable |-> mutable]

MCTypes ==
  [Int     |-> Type(FALSE, <<>>, "", {}),
   Bool    |-> Type(FALSE, <<>>, "", {}),
   Ticket  |-> Type(TRUE, <<>>, "", {}),
   Tray    |-> Type(TRUE, <<>>, "Ticket", {}),
   Choice  |-> Type(TRUE, <<>>, "", {"Left", "Right"}),
   Pair    |-> Type(TRUE, [left |-> FieldOf("Ticket", TRUE), right |-> FieldOf("Ticket", FALSE)],
                    "", {})]

-----------------------------------------------------------------------------
(* Syntax.                                                                 *)
Param(name, type, mutable) == [name |-> name, type |-> type, mutable |-> mutable]
Num(n)         == [kind |-> "Int", value |-> n]
Name(root)     == [kind |-> "Name", root |-> root, fields |-> <<>>]
Dot(root, f)   == [kind |-> "Name", root |-> root, fields |-> <<f>>]
At(root, i)    == [kind |-> "Index", value |-> Name(root), index |-> i]
Take(e)        == [kind |-> "Take", value |-> e]
Call(type, modes, arguments) ==
  [kind |-> "Call", type |-> type, modes |-> modes, arguments |-> arguments]
Make(type)     == Call(type, <<>>, <<>>)
Both(op, l, r) == [kind |-> "Binary", operator |-> op, left |-> l, right |-> r, type |-> "Bool"]
Sum(op, l, r)  == [kind |-> "Binary", operator |-> op, left |-> l, right |-> r, type |-> "Int"]

Values(kind, values) == [kind |-> kind, values |-> values]
Show(e) == Values("Evaluate", <<Call("Int", <<"read">>, <<e>>)>>)
Drop(e) == Values("Evaluate", <<Call("Int", <<"take">>, <<Take(e)>>)>>)
Ret     == Values("Return", <<>>)
Stmt(kind) == [kind |-> kind]
Set(root, path, mutable, op, value) ==
  [kind |-> "Assign", root |-> root, path |-> path, mutable |-> mutable, operator |-> op,
   value |-> value]
Let(root, value)  == Set(root, <<>>, FALSE, "", value)
Renew(root)       == Let(root, Make("Ticket"))
Put(root, f)      == Set(root, <<[field |-> f, index |-> <<>>]>>, FALSE, "", Make("Ticket"))
PutAt(root, i)    == Set(root, <<[field |-> "", index |-> <<i>>]>>, FALSE, "", Make("Ticket"))
If(c, t, e)       == [kind |-> "If", condition |-> c, pattern |-> <<>>, then |-> t, else |-> e]
IfIs(v, p, t, e)  == [kind |-> "If", condition |-> v, pattern |-> <<p>>, then |-> t, else |-> e]
For(p, i, b)      == [kind |-> "For", pattern |-> p, iterable |-> i, body |-> b]
While(c, b)       == [kind |-> "While", condition |-> c, body |-> b]
Match(v, cases)   == [kind |-> "Match", value |-> v, cases |-> cases]
Case(p, g, b)     == [pattern |-> p, guard |-> g, body |-> b]
With(name, b)     == [kind |-> "With", name |-> name, scope |-> Make("Ticket"), body |-> b]

Wild       == [kind |-> "Wildcard"]
As(name)   == [kind |-> "Binding", name |-> name]
Taking(n)  == [kind |-> "Take", name |-> n]
Literal(b) == [kind |-> "Literal", value |-> b]
Variant(v) == [kind |-> "Variant", variant |-> v]

Unknown == Make("Bool")

(* Sequences of at most n of the elements.                                 *)
UpTo(n, elements) == UNION {[1 .. m -> elements] : m \in 0 .. n}

-----------------------------------------------------------------------------
(* Moves: the parameter t is immutable, s is mutable.                      *)
Tickets == <<Param("t", "Ticket", FALSE), Param("s", "Ticket", TRUE),
             Param("c", "Choice", FALSE), Param("a", "Tray", FALSE)>>

Atoms == {Show(Name("t")), Drop(Name("t")), Renew("t"), Ret}

Others == {Drop(Name("s")), Show(Name("s")), Renew("s")}

(* Statements that leave the function, or may.                             *)
Departures ==
  {If(Unknown, <<Ret>>, <<Ret>>), If(Unknown, <<Ret>>, <<>>), With("w", <<Ret>>),
   Match(Name("c"), <<Case(Variant("Left"), <<>>, <<Ret>>), Case(Wild, <<>>, <<Ret>>)>>),
   Match(Name("c"), <<Case(Variant("Left"), <<>>, <<Ret>>), Case(Variant("Right"), <<>>, <<Ret>>)>>),
   Match(Unknown, <<Case(Literal(TRUE), <<>>, <<Ret>>), Case(Literal(FALSE), <<>>, <<Ret>>)>>),
   Match(Unknown, <<Case(Literal(TRUE), <<>>, <<>>), Case(Wild, <<>>, <<Ret>>)>>),
   For(Wild, Name("a"), <<Ret>>), Values("Panic", <<>>)}

Blocks1 == UpTo(1, Atoms)
Blocks2 == UpTo(2, Atoms)

Compounds ==
  {If(Unknown, t, e) : t \in Blocks2, e \in Blocks1}
    \cup {If(Unknown, <<Drop(Name("t")), leave>>, e) : leave \in Departures, e \in Blocks1}
    \cup {IfIs(Name("c"), Variant("Left"), t, e) : t \in Blocks1, e \in Blocks1}
    \cup {IfIs(Name("c"), As("v"), t, <<>>) : t \in Blocks1 \ {<<Ret>>}}
    \cup {For(p, Name("a"), b) : p \in {Wild, As("v")}, b \in UpTo(3, Atoms)}
    \cup {For(As("v"), Name("a"), <<If(Unknown, t, e)>> \o b) :
            t \in UpTo(2, Atoms \cup {Stmt("Break"), Stmt("Continue")}), e \in {<<>>, <<Ret>>},
            b \in Blocks1}
    \cup {With("w", b) : b \in Blocks2 \cup {<<Drop(Name("w")), Show(Name("w"))>>,
                                             <<Drop(Name("w")), Renew("w"), Show(Name("w"))>>}}
    \cup {Values("Defer", s.values) : s \in {Show(Name("t")), Drop(Name("t"))}}
    \cup {Values("Evaluate", <<Both("and", Both("and", Unknown, Unknown), e)>>) :
            e \in {Call("Bool", <<"take">>, <<Take(Name("t"))>>), Call("Bool", <<"read">>, <<Name("t")>>)}}

CaseBodies == Blocks1 \cup {<<Drop(Name("t")), Ret>>, <<Drop(Name("t")), Renew("t")>>}

Matches ==
  {Match(Name("c"), <<Case(Variant("Left"), g, b), Case(Variant("Right"), <<>>, d)>>) :
     g \in {<<>>}, b \in CaseBodies, d \in CaseBodies}
    \cup {Match(Name("c"), <<Case(Variant("Left"), <<>>, b), Case(p, <<>>, d)>>) :
            p \in {Wild, As("v"), Taking("v")}, b \in CaseBodies, d \in CaseBodies}
    \cup {Match(Unknown, <<Case(Literal(FALSE), <<>>, b), Case(p, <<>>, d)>>) :
            p \in {Wild, Literal(TRUE), Literal(FALSE)}, b \in CaseBodies, d \in Blocks1}
    \cup {Match(Name("c"), <<Case(Variant("Left"), <<g>>, b), Case(Wild, <<>>, d)>>) :
            g \in {Unknown, Call("Bool", <<"take">>, <<Take(Name("t"))>>),
                   Call("Bool", <<"read">>, <<Name("t")>>)},
            b \in CaseBodies, d \in CaseBodies}
    \cup {Match(Name("t"), <<Case(Taking("v"), <<>>, b)>>) : b \in CaseBodies}

Flows ==
  {[params |-> Tickets, body |-> pre \o <<c>> \o post] :
     pre  \in {<<>>, <<Drop(Name("t"))>>},
     c    \in Compounds \cup Matches,
     post \in {<<>>, <<Show(Name("t"))>>, <<Renew("t"), Show(Name("t"))>>}}

(* The same for the mutable one.                                           *)
Renewals == [params : {Tickets}, body : UpTo(4, Others)]

-----------------------------------------------------------------------------
(* Places: fields and elements of one parameter.                           *)
PairAtoms ==
  {Show(e) : e \in {Name("e"), Dot("e", "left"), Dot("e", "right")}}
    \cup {Drop(e) : e \in {Name("e"), Dot("e", "left"), Dot("e", "right")}}
    \cup {Let("e", Make("Pair")), Put("e", "left"), Put("e", "right")}

TrayAtoms ==
  {Show(e) : e \in {Name("a"), At("a", Num(0)), At("a", Name("i"))}}
    \cup {Drop(e) : e \in {Name("a"), At("a", Num(0)), At("a", Num(1)), At("a", Name("i"))}}
    \cup {Let("a", Make("Tray")), PutAt("a", Num(0)), PutAt("a", Name("i"))}

PairFlows ==
  [params : {<<Param("e", "Pair", m)>> : m \in BOOLEAN}, body : [1 .. 3 -> PairAtoms]]

TrayFlows ==
  [params : {<<Param("a", "Tray", m), Param("i", "Int", FALSE)>> : m \in BOOLEAN},
   body   : [1 .. 3 -> TrayAtoms]]

-----------------------------------------------------------------------------
(* Loops: i counts from a known integer to a limit.                        *)
Counting(first, op, limit, step) == While(Both(op, Name("i"), Num(limit)), <<step>>)

Steps == {Set("i", <<>>, FALSE, op, Num(n)) : op \in {"+", "-"}, n \in 0 .. 2}
           \cup {Let("i", Sum(op, Name("i"), Num(1))) : op \in {"+", "-"}}

Before ==
  {<<>>, <<Let("i", Make("Int"))>>, <<Let("i", Num(2))>>,
   <<If(Unknown, <<Let("i", Num(2))>>, <<>>)>>,
   <<If(Unknown, <<Let("i", Num(2))>>, <<Let("i", Num(2))>>)>>,
   <<If(Unknown, <<Let("i", Num(2)), Ret>>, <<Let("i", Num(1))>>)>>,
   <<For(Wild, Name("a"), <<Let("i", Num(2))>>)>>,
   <<For(Wild, Name("a"), <<Let("i", Num(0))>>)>>,
   <<Match(Unknown, <<Case(Literal(TRUE), <<>>, <<Let("i", Num(1))>>),
                      Case(Wild, <<>>, <<Let("i", Num(2))>>)>>)>>,
   <<With("w", <<Let("i", Num(1))>>)>>}

Rest == {<<>>, <<Stmt("Break")>>, <<If(Unknown, <<Stmt("Continue")>>, <<>>)>>,
         <<If(Unknown, <<Stmt("Break")>>, <<Ret>>)>>, <<Let("n", Num(1)), Show(Name("n"))>>}

Loops ==
  {[params |-> <<Param("a", "Tray", FALSE)>>,
    body   |-> <<Set("i", <<>>, m, "", Num(first))>> \o before
               \o <<While(Both(op, Name("i"), Num(limit)), <<step>> \o rest)>>] :
     m \in BOOLEAN, first \in {0, 3}, before \in Before, op \in {"<", "<=", ">", ">="},
     limit \in {0, 1, 3}, step \in Steps, rest \in Rest}

-----------------------------------------------------------------------------
(* Refusals that are no read after a move.                                 *)
Wrong ==
  {[params |-> Tickets, body |-> b] :
     b \in {<<Stmt("Break")>>, <<Drop(Make("Ticket"))>>, <<Show(Name("x"))>>, <<Stmt("Pass")>>,
            <<Renew("t")>>, <<Set("t", <<>>, TRUE, "", Make("Ticket"))>>,
            <<Values("Evaluate", <<Call("Int", <<"take">>, <<Name("t")>>)>>)>>,
            <<Values("Panic", <<>>), Show(Name("t"))>>,
            <<For(Variant("Left"), Name("a"), <<>>)>>,
            <<Match(Name("c"), <<Case(Wild, <<>>, <<>>), Case(Variant("Left"), <<>>, <<>>)>>)>>,
            <<Match(Name("c"), <<Case(Variant("Left"), <<>>, <<>>)>>)>>,
            <<IfIs(Name("c"), Taking("t"), <<>>, <<>>)>>}}

MCPrograms == {Flows, Renewals, PairFlows, TrayFlows, Loops, Wrong}
=============================================================================
