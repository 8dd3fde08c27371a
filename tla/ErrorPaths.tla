------------------------------ MODULE ErrorPaths ------------------------------
(***************************************************************************)
(* The errors that leave a function in its executions, for every choice at *)
(* a branch and for loops that run at most once; the reference that the    *)
(* inference of error_flow.rs is checked against.  A value is "ok" or an   *)
(* error.  Functions that declare their error are taken at their word.     *)
(***************************************************************************)
EXTENDS ErrorFlow

RECURSIVE Evaluated(_, _, _)

(* What evaluating an expression can end with: [value, left], where `left` *)
(* says that a `?` left the function with the value.                       *)
Evaluated(e, values, flows) ==
  LET parts == UNION {Evaluated(e.args[i], values, flows) : i \in DOMAIN e.args}
      Ends(vs) == {[value |-> v, left |-> FALSE] : v \in vs}
  IN {p \in parts : p.left}
     \cup CASE e.kind = "Err"       -> Ends({e.error})
            [] e.kind = "Call"      -> Ends({"ok"} \cup flows[e.definition])
            [] e.kind = "Read"      -> Ends({values[e.local]})
            [] e.kind = "Await"     -> {p \in parts : ~ p.left}
            [] e.kind = "Propagate" -> {[p EXCEPT !.left = p.value # "ok"] : p \in {q \in parts : ~ q.left}}
            [] OTHER                -> Ends({"ok"})

Going(values) == [exit |-> "next", value |-> "ok", values |-> values]

RECURSIVE Executed(_, _, _)

(* The ends of a block that is entered in one of the `states`.             *)
Executed(block, states, flows) ==
  FoldLeft(LAMBDA ends, s :
    LET going    == {state.values : state \in {x \in ends : x.exit = "next"}}
        Ends(v)  == Evaluated(s.value, v, flows)
        failed   == UNION {{[exit |-> "propagate", value |-> p.value, values |-> <<>>] :
                              p \in {q \in Ends(v) : q.left}} : v \in going}
        fine     == UNION {{<<v, p.value>> : p \in {q \in Ends(v) : ~ q.left}} : v \in going}
        after    == {Going(IF s.kind \in {"Bind", "Pool"} THEN (s.local :> p[2]) @@ p[1] ELSE p[1]) : p \in fine}
        nested   == UNION {Executed(s.blocks[i], after, flows) : i \in DOMAIN s.blocks}
    IN {x \in ends : x.exit # "next"} \cup failed
       \cup CASE s.kind = "Return" -> {[exit |-> "return", value |-> p[2], values |-> <<>>] : p \in fine}
              [] s.kind \in {"If", "Pool"} -> nested
              [] s.kind = "Loop" -> after \cup nested
              [] OTHER -> after,
    states, block)

Starts(f) == {Going(v) : v \in {w \in [DOMAIN f.params -> Error \cup {"ok"}] :
                                  \A l \in DOMAIN f.params : w[l] \in {f.params[l], "ok"}}}

Ending(f, flows) == Executed(f.body, Starts(f), flows)

Leaving(f, flows) == {x.value : x \in {y \in Ending(f, flows) : y.exit # "next"}} \cap Error

(* The least assignment of errors to functions.                            *)
Flows(functions) ==
  LET grow[n \in 0 .. Cardinality(DOMAIN functions) * Cardinality(Error)] ==
        IF n = 0 THEN [d \in DOMAIN functions |-> {functions[d].returns} \cap Error]
        ELSE LET less == grow[n - 1]
             IN [d \in DOMAIN functions |-> IF functions[d].returns = "inferred"
                                            THEN Leaving(functions[d], less) ELSE less[d]]
  IN grow[Cardinality(DOMAIN functions) * Cardinality(Error)]

(* An error that is made and not returned, or bound to be looked at.       *)
HandlesErrors(f) ==
  \E s \in Statements(f.body) : s.kind # "Return" /\ Made(s.value) # {}
=============================================================================
