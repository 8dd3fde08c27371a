------------------------------ MODULE MCPrograms -----------------------------
(***************************************************************************)
(* Small programs for the analyses that read declarations and bodies:      *)
(* compile-time selection, specialization and the inference of errors.     *)
(***************************************************************************)
EXTENDS Integers, Sequences, TLC

-----------------------------------------------------------------------------

(* Two modules.  The first one has a switch, a function with a selection   *)
(* in its body, and a nominal with a member selection; both have top-level *)
(* selections, one of which declares what others may depend on.            *)
Cond(kind, name) == [kind |-> kind, name |-> name]
Else == Cond("else", "")
Calls(name) == Cond("call", name)
Not(name)   == Cond("not", name)

Return(condition)   == [op |-> "return", value |-> condition]
Block(runs, body)   == [op |-> "block", runs |-> runs, body |-> body]
With(body)          == [op |-> "with", body |-> body]
When(condition, what) == [condition |-> condition, selects |-> what]
Selection(start, branches) == [start |-> start, branches |-> branches]
Comptime(start, branches)  == [op |-> "comptime", start |-> start, branches |-> branches]

Item(name, start, kind, mentions, body) ==
  [name |-> name, start |-> start, kind |-> kind, mentions |-> mentions, body |-> body,
   members |-> <<>>, selections |-> <<>>]

Fn(name, start, body) == Item(name, start, "function", {}, body)

(* Bodies of a.mixed: with and without a selection, in all places.         *)
Mixed(c) ==
  { <<Return(c)>>,
    <<Comptime(31, <<When(c, <<Return(Cond("false", ""))>>)>>), Return(Cond("true", ""))>>,
    <<Block(TRUE, <<Comptime(32, <<When(c, <<Return(Cond("true", ""))>>)>>)>>),
      Return(Cond("false", ""))>>,
    <<Block(FALSE, <<Comptime(33, <<When(c, <<Return(Calls("b.missing"))>>)>>)>>),
      Return(c)>>,
    <<Comptime(34, <<When(c, <<Comptime(35, <<When(Calls("b.late"), <<Return(c)>>)>>),
                              Return(Not("a.on"))>>),
                     When(Else, <<Return(Cond("true", ""))>>)>>)>>,
    <<With(<<Comptime(36, <<When(Else, <<Return(Cond("true", ""))>>)>>)>>)>> }

Card(c) ==
  [Item("a.Card", 40, "nominal", {}, <<>>) EXCEPT
     !.members = <<Fn("a.Card.plain", 41, <<Return(Calls("a.on"))>>)>>,
     !.selections = <<Selection(42, <<
        When(c, <<Fn("a.Card.extra", 43,
                     <<Comptime(44, <<When(Calls("a.Card.plain"), <<Return(Else)>>)>>),
                       Return(Cond("false", ""))>>)>>),
        When(Else, <<Fn("a.Card.other", 45, <<Return(Cond("true", ""))>>)>>)>>)>>]

(* The first module's selection comes first in the source.                 *)
FirstModule(on, mixed, top, member) ==
  [declarations |-> <<Fn("a.on", 20, <<Return(Cond(on, ""))>>), Fn("a.mixed", 30, mixed),
                      Card(member)>>,
   selections   |-> <<Selection(10, <<
     When(top, <<Fn("a.early", 11, <<Return(Calls("a.on"))>>)>>),
     When(Not("a.on"), <<Item("a.early", 12, "function", {"b.Type"}, <<Return(Not("a.on"))>>)>>)>>)>>]

SecondModule(top) ==
  [declarations |-> <<Item("b.Type", 60, "nominal", {}, <<>>)>>,
   selections   |-> <<Selection(50, <<
     When(top, <<Fn("b.late", 51, <<Return(Calls("a.on"))>>)>>),
     When(Else, <<Fn("b.late", 52, <<Return(Cond("true", ""))>>),
                  Item("b.Mark", 53, "nominal", {"b.Type"}, <<>>)>>)>>)>>]

(* What is decided first may depend on what is decided later, and the      *)
(* other way round.                                                        *)
MCComptimeSources ==
  { <<FirstModule(on, mixed, top, member), SecondModule(below)>> :
      on \in {"true", "false"},
      mixed \in UNION {Mixed(c) : c \in {Not("a.Card.plain"), Calls("a.early")}},
      top \in {Calls("a.on"), Calls("a.mixed"), Calls("b.late")},
      below \in {Not("a.on"), Calls("a.early")},
      member \in {Calls("a.mixed"), Calls("b.late"), Cond("true", "")} }

-----------------------------------------------------------------------------

(* Programs of a function without and two with a type parameter, two       *)
(* constants, a test and a condition.                                      *)
Call(d, own, wraps) == [callee |-> d, own |-> own, wraps |-> wraps]
Plain(d)            == Call(d, FALSE, 0)

Function(generic, calls, constants) == [generic |-> generic, calls |-> calls, constants |-> constants]

(* Function 1 is concrete, 2 and 3 are generic, 4 is concrete and calls    *)
(* nothing.  Generic functions may call each other for the same type and,  *)
(* in one direction, for a larger one.                                     *)
Programs ==
  {[functions |-> <<Function(FALSE, a, ka), Function(TRUE, b, kb), Function(TRUE, c, {}),
                    Function(FALSE, {}, {})>>,
    constants |-> <<[calls |-> k, constants |-> {2}], [calls |-> {}, constants |-> {}]>>,
    tests |-> t, condition |-> [calls |-> q, constants |-> kq]] :
     a \in {{}, {Plain(2)}, {Plain(4), Call(3, FALSE, 1)}},
     ka \in {{}, {1}}, kb \in {{2}},
     b \in {{}, {Call(2, TRUE, 0), Call(3, TRUE, 1)}, {Plain(4)}},
     c \in {{}, {Call(3, TRUE, 0), Call(2, FALSE, 0)}},
     k \in {{}, {Plain(2)}, {Plain(1)}},
     t \in {{}, {Call(3, FALSE, 2)}},
     q \in {{}, {Plain(1)}, {Call(2, FALSE, 1), Plain(4)}},
     kq \in {{}, {1}}}

(* Tests matter to the program, what a condition reads to the condition.   *)
DemandSources == {p \in Programs : p.tests = {} \/ p.condition.constants = {}}

-----------------------------------------------------------------------------

(* Programs of two functions beside one that declares its error, or leaves *)
(* it out too.                                                             *)
Other(args)      == [kind |-> "Other", args |-> args]
Ok               == Other(<<>>)
Err(e)           == [kind |-> "Err", args |-> <<>>, error |-> e]
Calling(d)       == [kind |-> "Call", args |-> <<>>, definition |-> d]
Local(l)         == [kind |-> "Read", args |-> <<>>, local |-> l]
Await(e)         == [kind |-> "Await", args |-> <<e>>]
Question(e)      == [kind |-> "Propagate", args |-> <<e>>]

Gives(e)         == [kind |-> "Return", value |-> e, blocks |-> <<>>]
Discard(e)       == [kind |-> "Evaluate", value |-> e, blocks |-> <<>>]
Bind(l, e)       == [kind |-> "Bind", value |-> e, local |-> l, blocks |-> <<>>]
Branch(a, b)     == [kind |-> "If", value |-> Ok, blocks |-> <<a, b>>]
Loop(b)          == [kind |-> "Loop", value |-> Ok, blocks |-> <<b>>]
Pool(l, b)       == [kind |-> "Pool", value |-> Ok, local |-> l, blocks |-> <<b>>]

(* Ways to hand on, propagate, lose and mix results.                       *)
Bodies(c, d) ==
  {<<Gives(Ok)>>, <<Gives(Err("e1"))>>, <<Gives(Calling(c))>>, <<Gives(Await(Calling(c)))>>,
   <<Gives(Question(Calling(c)))>>, <<Gives(Other(<<Question(Await(Calling(c)))>>))>>,
   <<Bind(1, Calling(c)), Gives(Local(1))>>, <<Bind(1, Await(Calling(c))), Gives(Question(Local(1)))>>,
   <<Bind(1, Calling(c)), Branch(<<Bind(1, Calling(d))>>, <<>>), Gives(Local(1))>>,
   <<Branch(<<Gives(Calling(c))>>, <<Gives(Err("e1"))>>)>>,
   <<Bind(1, Calling(c)), Branch(<<Gives(Local(1))>>, <<>>), Gives(Err("e1"))>>,
   <<Bind(1, Calling(c)), Loop(<<Bind(1, Calling(d))>>), Gives(Local(1))>>,
   <<Pool(2, <<Bind(1, Calling(c)), Gives(Local(1))>>)>>,
   <<Loop(<<Discard(Question(Calling(c)))>>), Gives(Calling(d))>>,
   <<Bind(1, Err("e1")), Gives(Calling(c))>>,
   <<Gives(Local(0))>>, <<Gives(Question(Local(0)))>>}

Inputs == {<<>>, 0 :> "e2", 0 :> "option"}

Fallible(params, returns, body) == [params |-> params, returns |-> returns, body |-> body]

NeedsInput(body) == \E i \in DOMAIN body : body[i].value \in {Local(0), Question(Local(0))}

Fallibles(c, d, returns) ==
  {Fallible(p, r, b) : p \in Inputs, r \in returns, b \in Bodies(c, d)}

Sensible(f) == (f.params # <<>>) = NeedsInput(f.body)

Failing(returns) == Fallible(<<>>, returns, <<Gives(Err("e2"))>>)

ErrorSources ==
  {<<f, g, Failing("e2")>> :
     f \in {h \in Fallibles(2, 3, {"inferred", "e1"}) : Sensible(h)},
     g \in {h \in Fallibles(1, 2, {"inferred", "e1"}) : Sensible(h)}}
  \cup {<<f, Failing("e1"), Failing("e2")>> :
         f \in {h \in Fallibles(2, 3, {"option", "plain"}) : Sensible(h)}}
  \cup {<<f, g, Failing("inferred")>> :
         f \in {h \in Fallibles(2, 2, {"inferred"}) : Sensible(h)},
         g \in {h \in Fallibles(3, 1, {"inferred"}) : Sensible(h)}}
=============================================================================
