------------------------------ MODULE MCEngine ------------------------------
(* Every small table of constants that refer to each other.                *)
EXTENDS EngineReference

Leaf_(site)     == [kind |-> "Leaf", site |-> site, type |-> "Int"]
Elements_(es)   == [kind |-> "Array", arguments |-> es]
Constant_(id)   == [kind |-> "Constant", id |-> id]
Call_(f, es)    == [kind |-> "Call", function |-> f, arguments |-> es,
                    order |-> [i \in DOMAIN es |-> i], mutable |-> <<>>]
Function_(f, params, types, e) ==
  f :> [kind |-> "function", name |-> f, params |-> params, types |-> types,
        returns |-> "Array", body |-> <<[kind |-> "Return", value |-> e]>>]

(* Functions: one wraps its argument, one reads the second constant, one   *)
(* may or may not be satisfied with its argument.                          *)
Helpers == Function_("wrap", <<"k">>, <<"Array">>,
                     Elements_(<<[kind |-> "Read", local |-> "k", field |-> 0]>>))
           @@ Function_("second", <<>>, <<>>, Elements_(<<Constant_(2)>>))
           @@ [Function_("holds", <<"k">>, <<"Array">>, [Leaf_("h") EXCEPT !.type = "Bool"])
                 EXCEPT !["holds"].returns = "Bool"]

Program_(id) == Function_("main", <<>>, <<>>, Elements_(<<Constant_(1), Constant_(id)>>))
                @@ Helpers

Ids == 1..3

Value_ == { Elements_(<<>>), Elements_(<<Leaf_("x"), Leaf_("y"), Leaf_("z")>>),
            Call_("second", <<>>) }
          \cup { Elements_(<<Constant_(id)>>) : id \in Ids }
          \cup { Elements_(<<Constant_(ids[1]), Constant_(ids[2])>>) :
                 ids \in {p \in Ids \X Ids : p[1] # p[2]} }
          \cup { Call_("wrap", <<Constant_(id)>>) : id \in Ids }

Tables == { [id \in Ids |-> [type |-> "Array", value |-> v[id]]] : v \in [Ids -> Value_] }

Wide == Elements_(<<Leaf_("x"), Leaf_("y"), Leaf_("z")>>)

FewTables == {table \in Tables :
                table[1].value \in {Wide, Call_("wrap", <<Constant_(2)>>)}}

Assertion_(e)  == [expression |-> e, valid |-> TRUE]
Holds_(id)     == Assertion_(Call_("holds", <<Constant_(id)>>))
Unverified_    == [expression |-> Constant_(1), valid |-> FALSE]

Generous == [fuel |-> 10000, compilationFuel |-> 10000, memory |-> 10000, depth |-> 16,
             compilationMemory |-> 10000]
Tight    == [fuel |-> 12, compilationFuel |-> 22, memory |-> 300, depth |-> 1,
             compilationMemory |-> 150]

(* What two of the wider constants fill.                                   *)
Filled   == [Generous EXCEPT !.compilationMemory = 100]

Workload_(id, table, assertions, limits) ==
  [program |-> Program_(id), constants |-> table, assertions |-> assertions,
   prior |-> 0, limits |-> limits]

(* The cache under ceilings that nothing reaches, under tight ones, and    *)
(* filled by constants that later assertions read.                         *)
MCWorkloads ==
  { Workload_(3, table, <<>>, Generous) : table \in Tables }
  \cup { Workload_(2, table, <<Holds_(3)>>, Generous) : table \in FewTables }
  \cup { Workload_(2, table, <<Unverified_, Holds_(2)>>, Generous) :
         table \in {t \in FewTables : t[3].value = Wide} }
  \cup { Workload_(id, table, <<>>, Tight) : id \in {2, 3}, table \in FewTables }
  \cup { Workload_(3, table, <<Holds_(3), Holds_(1)>>, Filled) : table \in FewTables }

(* Their expressions and statements.                                       *)
RECURSIVE Nodes_(_)
Nodes_(e) == {e} \cup (IF "arguments" \in DOMAIN e
                       THEN UNION {Nodes_(part) : part \in ToSet(e.arguments)} ELSE {})

Statements_ == UNION {UNION {ToSet(p[f].body) : f \in DOMAIN p} : p \in {Program_(2), Program_(3)}}

Asserted_ == {Unverified_} \cup {Holds_(id) : id \in Ids}

MCCode ==
  Statements_ \cup UNION {Nodes_(e) : e \in {s.value : s \in Statements_} \cup Value_
                                            \cup {a.expression : a \in Asserted_}}
=============================================================================
