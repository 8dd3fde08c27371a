--------------------------- MODULE ConstructionSeal ---------------------------
(***************************************************************************)
(* What an Image Constructor builds (Engine::construct), the sealer of the *)
(* graph (image_evaluation.rs) and the plan of the tests (plan_tests).     *)
(*                                                                         *)
(* The evaluation is the sequence of its steps that make values with       *)
(* handles or test applications in them; step i makes value i from earlier *)
(* values, and the last one is returned.  A step has                       *)
(*   op     "build", "apply" (a test, with arguments), "gather" (an array, *)
(*          a tuple, a variant, a struct or a closure) or "constant"       *)
(*   kind   what is built, "Image", "Test" or "Node"; or the test          *)
(*   at     where: the calls that lead there, with the site                *)
(*   from   the numbers of the values                                      *)
(***************************************************************************)
EXTENDS Naturals, FiniteSets, Sequences, SequencesExt

CONSTANTS
  Constructors,  \* the evaluations
  ProgramTests   \* the tests of the program, in source order

(* A value is made of earlier ones, sites are numbers, and what the type   *)
(* of an Image Constructor lets it return is a handle.                     *)
ASSUME ConstructorAssumption ==
  \A evaluation \in Constructors :
    /\ evaluation \in Seq([op: {"build", "apply", "gather", "constant"}, kind: STRING,
                           at: Nat \ {0}, from: Seq(Nat)])
    /\ \A i \in DOMAIN evaluation :
         /\ ToSet(evaluation[i].from) \subseteq 1..(i - 1)
         /\ evaluation[i].op = "constant" => evaluation[i].from = <<>>
    /\ evaluation # <<>> /\ Last(evaluation).op \in {"build", "constant"}

VARIABLES
  constructor,    \* the evaluation
  values,         \* the values made so far
  constructions,  \* Engine::constructions: [identity, kind, edges]
  applications,   \* Engine::test_applications
  image,          \* "building", or how it ended, see Verdict
  plan            \* the test plan (an image whose root is not Test has none)

sealVars == <<constructor, values, constructions, applications, image, plan>>

-----------------------------------------------------------------------------
(***************************************************************************)
(* Values: [tag "handle", kind, identity], [tag "test", kind, items] or    *)
(* [tag "group", items].  Items are shared, so they are the numbers of the *)
(* values.                                                                 *)
(***************************************************************************)

DirectEdges(items) ==                           \* mutant
  {values[k].identity : k \in {k \in ToSet(items) : values[k].tag = "handle"}}

(* collect_construction_edges: handles, in applications of tests too.      *)
EdgesOf[i \in DOMAIN values] ==
  IF values[i].tag = "handle" THEN {values[i].identity}
  ELSE UNION {EdgesOf[k] : k \in ToSet(values[i].items)}

Edges(items) == UNION {EdgesOf[k] : k \in ToSet(items)}

(* collect_test_applications: an application before those in its arguments.*)
ApplicationsOf[i \in DOMAIN values] ==
  IF values[i].tag = "handle" THEN <<>>
  ELSE (IF values[i].tag = "test" THEN <<values[i].kind>> ELSE <<>>)
       \o FlattenSeq([n \in DOMAIN values[i].items |-> ApplicationsOf[values[i].items[n]]])

Applications(items) == FlattenSeq([n \in DOMAIN items |-> ApplicationsOf[items[n]]])

-----------------------------------------------------------------------------
(***************************************************************************)
(* Building.                                                               *)
(***************************************************************************)

Evaluated == constructor[Len(values) + 1]

Building == image = "building" /\ Len(values) < Len(constructor)

Makes(value) == values' = Append(values, value)

Built == {constructions[i].identity : i \in DOMAIN constructions}

(* The coordinate names calls, kind and site, but no rounds of loops: what *)
(* is built a second time there ends the evaluation.                       *)
Construct ==
  /\ Building /\ Evaluated.op = "build"
  /\ LET identity == <<Evaluated.at, Evaluated.kind>>
     IN IF identity \in Built
        THEN image' = "Defect" /\ UNCHANGED <<values, constructions, applications>>
        ELSE /\ constructions' = Append(constructions,
                  [identity |-> identity, kind |-> Evaluated.kind, edges |-> Edges(Evaluated.from)])
             /\ applications' = IF Evaluated.kind = "Test" THEN applications \o Applications(Evaluated.from)
                                ELSE applications
             /\ Makes([tag |-> "handle", kind |-> Evaluated.kind, identity |-> identity])
             /\ UNCHANGED image
  /\ UNCHANGED <<constructor, plan>>

ApplyTest == /\ Building /\ Evaluated.op = "apply"
             /\ Makes([tag |-> "test", kind |-> Evaluated.kind, items |-> Evaluated.from])
             /\ UNCHANGED <<constructor, constructions, applications, image, plan>>

Gather == /\ Building /\ Evaluated.op = "gather"
          /\ Makes([tag |-> "group", items |-> Evaluated.from])
          /\ UNCHANGED <<constructor, constructions, applications, image, plan>>

(* A constant was evaluated by another root, whose constructions are gone; *)
(* no step of this one is at 0.                                            *)
ReadConstant ==
  /\ Building /\ Evaluated.op = "constant"
  /\ Makes([tag |-> "handle", kind |-> Evaluated.kind, identity |-> <<0, Evaluated.kind>>])
  /\ UNCHANGED <<constructor, constructions, applications, image, plan>>

-----------------------------------------------------------------------------
(***************************************************************************)
(* seal_construction_graph and plan_tests.                                 *)
(***************************************************************************)

EdgesFrom(identity) ==
  UNION {constructions[i].edges :
           i \in {k \in DOMAIN constructions : constructions[k].identity = identity}}

(* What is reached from the root, in as many rounds as it may take.        *)
Reachable(root) ==
  LET reach[n \in 0..Len(constructions)] ==
        IF n = 0 THEN {root}
        ELSE reach[n - 1] \cup UNION {EdgesFrom(identity) : identity \in reach[n - 1]}
  IN reach[Len(constructions)]

(* The first check that fails decides whose mistake it is.                 *)
Verdict(root) ==
  IF root.tag # "handle" THEN "Defect"
  ELSE IF root.kind # "Image" THEN "returned_root_is_not_image"
  ELSE IF Cardinality({i \in DOMAIN constructions : constructions[i].kind = "Image"}) # 1
       THEN "multiple_image_roots"
  ELSE IF Cardinality(Built) # Len(constructions) THEN "Defect"
  ELSE IF root.identity \notin Built THEN "Defect"
  ELSE IF \E identity \in Built : ~ EdgesFrom(identity) \subseteq Built THEN "Defect"
  ELSE IF Cardinality(Reachable(root.identity)) # Len(constructions) THEN "unreachable_construction"
  ELSE "sealed"

Applied(test) == Cardinality({i \in DOMAIN applications : applications[i] = test})

(* One entry of the plan, or none.                                         *)
Planned(test) == IF test \in ToSet(ProgramTests) /\ Applied(test) = 1 THEN <<test>> ELSE <<>>

Seal ==
  /\ image = "building" /\ Len(values) = Len(constructor)
  /\ image' = Verdict(Last(values))
  /\ plan' = IF image' # "sealed" THEN <<>>
             ELSE FlattenSeq([i \in DOMAIN applications |-> Planned(applications[i])])
  /\ UNCHANGED <<constructor, values, constructions, applications>>

(* What plan_tests diagnoses.                                              *)
Misapplied == {test \in ToSet(ProgramTests) : Applied(test) # 1}

-----------------------------------------------------------------------------

SealInit == /\ constructor \in Constructors
            /\ values = <<>> /\ constructions = <<>> /\ applications = <<>>
            /\ image = "building" /\ plan = <<>>

SealNext == Construct \/ ApplyTest \/ Gather \/ ReadConstant \/ Seal

SealSpec == SealInit /\ [][SealNext]_sealVars

-----------------------------------------------------------------------------
(***************************************************************************)
(* What goes into what, without handles.                                   *)
(***************************************************************************)

Uses(i) == ToSet(constructor[i].from)

IsBuild(i) == constructor[i].op = "build"
Builds     == {i \in DOMAIN constructor : IsBuild(i)}

(* All that goes into step i; and what does so without being built into    *)
(* something else.                                                         *)
Parts[i \in DOMAIN constructor] == Uses(i) \cup UNION {Parts[k] : k \in Uses(i)}

Inside[i \in DOMAIN constructor] ==
  Uses(i) \cup UNION {Inside[k] : k \in {k \in Uses(i) : ~ IsBuild(k)}}

Whole == LET last == Len(constructor) IN {last} \cup Parts[last]

SameCoordinate(i, k) == /\ constructor[i].at = constructor[k].at
                        /\ constructor[i].kind = constructor[k].kind

IsImage == /\ IsBuild(Len(constructor))
           /\ \A i \in Builds : constructor[i].kind = "Image" <=> i = Len(constructor)
           /\ Builds \subseteq Whole
           /\ \A i, k \in Builds : SameCoordinate(i, k) => i = k
           /\ \A i \in Whole : constructor[i].op # "constant"

(* Which Test has which application of a test.                             *)
Holders(test) ==
  {h \in Builds \X DOMAIN constructor :
     /\ constructor[h[1]].kind = "Test" /\ h[2] \in Inside[h[1]]
     /\ constructor[h[2]].op = "apply" /\ constructor[h[2]].kind = test}

(* The graph is sealed exactly if one Image was built, was returned, and   *)
(* consists of everything that was built.  A Defect means that the         *)
(* evaluation built twice at one coordinate or that a constant brought in  *)
(* what another root had built.  A sealed plan has every test that one     *)
(* Test has once, in the order in which they went into Tests, and what is  *)
(* in no Test is diagnosed.                                                *)
SealExact ==
  image # "building" =>
    /\ image = "sealed" <=> IsImage
    /\ image = "Defect" => \/ \E i, k \in Builds : i # k /\ SameCoordinate(i, k)
                           \/ \E i \in DOMAIN constructor :
                                /\ constructor[i].op = "constant"
                                /\ i = Len(constructor) \/ \E b \in Builds : i \in Inside[b]
    /\ image = "sealed" =>
         /\ \A test \in ToSet(ProgramTests) :
              /\ test \in Misapplied <=> test \notin ToSet(plan)
              /\ test \in ToSet(plan) => Cardinality(Holders(test)) = 1
              /\ Holders(test) = {} => test \in Misapplied
         /\ Cardinality(ToSet(plan)) = Len(plan)
         /\ \A i, k \in DOMAIN plan :
              i < k => \E a \in Holders(plan[i]), b \in Holders(plan[k]) : a[1] <= b[1]
=============================================================================
